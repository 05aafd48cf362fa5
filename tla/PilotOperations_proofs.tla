------------------------ MODULE PilotOperations_proofs ------------------------
(***************************************************************************)
(* Proofs about PilotOperations, for every set of pilots, processes and    *)
(* fills, every review limit, and timestamps that need not follow the      *)
(* clock: first the sessions, then the fills: what a kill can leave half   *)
(* recorded, which stops it can lose, and how far the trades of a session  *)
(* pass its review point; last, the log against the machine it implements, *)
(* and the pass that reads it.                                             *)
(***************************************************************************)
EXTENDS PilotRefinement, PilotFold, SumLemmas, FiniteSetTheorems, SequenceTheorems, TLAPS

-----------------------------------------------------------------------------
(* Types *)

\* A row built for a pilot and a time is a Row.
LEMMA MkRowType ==
  ASSUME NEW k \in RowKinds, NEW p \in Pilots, NEW at \in Stamp,
         NEW v \in Versions \cup {"NONE"}, NEW reason \in ReasonCodes \cup {"NONE"},
         NEW due \in Nat
  PROVE  [MkRow(k, p, at) EXCEPT !.version = v, !.due = due, !.reason = reason] \in Row
BY DEF MkRow, Row

\* A session the gate lets a fill pass on is a pilot with an active session.
LEMMA GateFindsSession ==
  ASSUME NEW p, NEW v, NEW at, GateReason(p, v, at) = "PILOT_SESSION_ACTIVE"
  PROVE  /\ TheActive(log) \in Pilots
         /\ Active(log, TheActive(log))
<1>1. ActiveSessions(log) # {}
  BY DEF GateReason
<1>2. TheActive(log) \in ActiveSessions(log)
  BY <1>1 DEF TheActive
<1> QED
  BY <1>2 DEF ActiveSessions

\* The reason a fill stops its session for is a reason code.
LEMMA StopReasonType ==
  ASSUME NEW e
  PROVE  StopReason(e) \in ReasonCodes \cup {"NONE"}
BY DEF StopReason, ReasonCodes, HardCodes

\* The timestamps a command may use are times of the clock.
LEMMA StampsType ==
  ASSUME now \in Times
  PROVE  Stamps \subseteq Stamp /\ FillStamps \subseteq Stamp
BY DEF Stamps, FillStamps

\* Initially every variable has its type.
LEMMA InitType == Init => TypeOK
BY ClockAssumption, BoundsAssumption
   DEF Init, TypeOK, StepsOK, Times, PCs, FillSteps

\* A command that has decided on a row keeps the types.
LEMMA DecideType ==
  ASSUME TypeOK, NEW q \in Procs, NEW row \in Row, Decide(q, row), pc[q] = "idle"
  PROVE  TypeOK'
<1>1. /\ now' \in Times /\ log' \in Seq(Row) /\ fills' \in Seq(FillRecord)
      /\ shutdowns' \subseteq Stamp /\ task' \in [Procs -> Task \cup {NoTask}]
      /\ crashes' \in 0 .. MaxCrashes
  BY DEF TypeOK, Decide
<1>2. pc' \in [Procs -> PCs] /\ pending' \in [Procs -> Row \cup {NoRow}]
  BY DEF TypeOK, Decide, PCs
<1>3. StepsOK'
  BY DEF TypeOK, StepsOK, Decide, FillSteps
<1> QED
  BY <1>1, <1>2, <1>3 DEF TypeOK

\* The steps of a fill that change one record of fills and move on.
LEMMA FillStepType ==
  ASSUME TypeOK, NEW q \in Procs, pc[q] \in FillSteps \ {"insert"},
         NEW new \in FillRecord, NEW next \in FillSteps \ {"insert"},
         fills' = [fills EXCEPT ![task[q].fill] = new],
         pc' = [pc EXCEPT ![q] = next],
         now' \in Times, log' = log, shutdowns' \subseteq Stamp, pending' = pending,
         task' = task, crashes' = crashes
  PROVE  TypeOK'
<1>0. task[q].fill \in DOMAIN fills
  BY DEF TypeOK, StepsOK
<1>1. fills' \in Seq(FillRecord) /\ DOMAIN fills' = DOMAIN fills
  BY <1>0 DEF TypeOK
<1>2. pc' \in [Procs -> PCs]
  BY DEF TypeOK, PCs
<1>3. StepsOK'
  BY <1>1 DEF TypeOK, StepsOK, FillSteps
<1>4. /\ log' \in Seq(Row) /\ pending' \in [Procs -> Row \cup {NoRow}]
      /\ task' \in [Procs -> Task \cup {NoTask}] /\ crashes' \in 0 .. MaxCrashes
  BY DEF TypeOK
<1> QED
  BY <1>1, <1>2, <1>3, <1>4 DEF TypeOK

\* A process that is through, or killed, lets go of its row and its fill.
LEMMA DoneType ==
  ASSUME TypeOK, NEW q \in Procs, pc' = [pc EXCEPT ![q] = "idle"],
         pending' \in {pending, [pending EXCEPT ![q] = NoRow]},
         task' \in {task, [task EXCEPT ![q] = NoTask]},
         now' = now, log' \in Seq(Row), shutdowns' = shutdowns, crashes' \in 0 .. MaxCrashes,
         fills' \in Seq(FillRecord), DOMAIN fills \subseteq DOMAIN fills'
  PROVE  TypeOK'
<1>1. /\ pc' \in [Procs -> PCs] /\ pending' \in [Procs -> Row \cup {NoRow}]
      /\ task' \in [Procs -> Task \cup {NoTask}]
  BY DEF TypeOK, PCs
<1>2. StepsOK'
  BY DEF TypeOK, StepsOK, FillSteps
<1> QED
  BY <1>1, <1>2 DEF TypeOK

\* Every step of the system keeps the types.
LEMMA NextType == TypeOK /\ [Next]_vars => TypeOK'
<1> SUFFICES ASSUME TypeOK, [Next]_vars PROVE TypeOK'
  OBVIOUS
<1> USE ClockAssumption, ReviewAssumption, StopCodesAssumption
<1>st. Stamps \subseteq Stamp /\ FillStamps \subseteq Stamp
  BY StampsType DEF TypeOK
<1>1. ASSUME NEW q \in Procs, NEW p \in Pilots, NEW v \in Versions, NEW at \in Stamps,
             Start(q, p, v, at)
      PROVE  TypeOK'
  <2>1. at.instant + ReviewAfter \in Nat /\ at \in Stamp
    BY <1>st, ReviewAssumption, ClockAssumption DEF Stamp, Times
  <2>2. [MkRow("STARTED", p, at) EXCEPT !.version = v, !.due = at.instant + ReviewAfter] \in Row
    BY <2>1 DEF MkRow, Row, RowKinds
  <2> QED
    BY <1>1, <2>2, DecideType DEF Start
<1>2. ASSUME NEW q \in Procs, NEW p \in Pilots, NEW at \in Stamps, NEW reason \in StopCodes,
             Stop(q, p, at, reason)
      PROVE  TypeOK'
  <2>1. [MkRow("STOPPED", p, at) EXCEPT !.reason = reason] \in Row
    BY <1>st DEF MkRow, Row, RowKinds
  <2> QED
    BY <1>2, <2>1, DecideType DEF Stop
<1>3. ASSUME NEW q \in Procs, NEW p \in Pilots, NEW at \in Stamps, Resume(q, p, at)
      PROVE  TypeOK'
  <2>1. MkRow("RESUMED", p, at) \in Row
    BY <1>st DEF MkRow, Row, RowKinds
  <2> QED
    BY <1>3, <2>1, DecideType DEF Resume
<1>4. ASSUME NEW q \in Procs, NEW p \in Pilots, NEW at \in Stamps, ResetReview(q, p, at)
      PROVE  TypeOK'
  <2>1. MkRow("RESET_REVIEW", p, at) \in Row
    BY <1>st DEF MkRow, Row, RowKinds
  <2>2. log' \in Seq(Row)
    BY <1>4, <2>1, AppendProperties DEF ResetReview, TypeOK
  <2> QED
    BY <1>4, <2>2 DEF ResetReview, TypeOK, StepsOK
<1>5. ASSUME NEW q \in Procs, NEW p, NEW v \in Versions, NEW at \in FillStamps,
             NEW e \in Entries, FillGate(q, p, v, at, e)
      PROVE  TypeOK'
  <2> DEFINE t == [pilot |-> TheActive(log), at |-> at, entry |-> e, fill |-> 0, mark |-> Len(log)]
  <2>1. t \in Task
    BY <1>5, <1>st, GateFindsSession DEF FillGate, Task, TypeOK
  <2>2. task' \in [Procs -> Task \cup {NoTask}] /\ pc' \in [Procs -> PCs]
    BY <1>5, <2>1 DEF FillGate, GoTo, TypeOK, PCs, FillSteps
  <2>3. StepsOK'
    BY <1>5, <2>1 DEF FillGate, GoTo, TypeOK, StepsOK, FillSteps
  <2> QED
    BY <1>5, <2>2, <2>3 DEF FillGate, TypeOK
<1>6. ASSUME NEW q \in Procs, CommitRow(q) PROVE TypeOK'
  <2>1. log' \in Seq(Row)
    BY <1>6, AppendProperties DEF CommitRow, TypeOK, StepsOK
  <2> QED
    BY <1>6, <2>1, DoneType DEF CommitRow, TypeOK
<1>7. ASSUME NEW q \in Procs, InsertFill(q) PROVE TypeOK'
  <2> DEFINE f == [pilot |-> task[q].pilot, at |-> task[q].at, entry |-> task[q].entry,
                   rows |-> {}, violations |-> 0, activations |-> 0, mark |-> task[q].mark]
  <2>1. task[q] \in Task
    BY <1>7 DEF InsertFill, TypeOK, StepsOK, FillSteps
  <2>2. f \in FillRecord
    BY <2>1 DEF FillRecord, Task
  <2>3. fills' \in Seq(FillRecord) /\ DOMAIN fills' = 1 .. Len(fills) + 1
    BY <1>7, <2>2, AppendProperties DEF InsertFill, TypeOK
  <2>len. Len(fills) + 1 \in Nat
    BY DEF TypeOK
  <2>4. [task[q] EXCEPT !.fill = Len(fills) + 1] \in Task
    BY <2>1, <2>len, SMTT(30) DEF Task
  <2>5. task' \in [Procs -> Task \cup {NoTask}] /\ pc' \in [Procs -> PCs]
    BY <1>7, <2>4 DEF InsertFill, GoTo, TypeOK, PCs, FillSteps
  <2>6. task'[q].fill = Len(fills) + 1
    BY <1>7, <2>1 DEF InsertFill, TypeOK, Task
  <2>7. StepsOK'
    BY <1>7, <2>3, <2>4, <2>6 DEF InsertFill, GoTo, TypeOK, StepsOK, FillSteps
  <2> QED
    BY <1>7, <2>3, <2>5, <2>7 DEF InsertFill, TypeOK
<1>8. ASSUME NEW q \in Procs, RejectFill(q) PROVE TypeOK'
  BY <1>8, DoneType DEF RejectFill, GoTo, TypeOK
<1>9. ASSUME NEW q \in Procs, NEW kind \in FillRowKinds, pc[q] \in FillSteps \ {"insert"}
      PROVE  [fills[task[q].fill] EXCEPT !.rows = @ \cup {kind}] \in FillRecord
  <2>1. fills[task[q].fill] \in FillRecord
    BY <1>9 DEF TypeOK, StepsOK
  <2> QED
    BY <2>1 DEF FillRecord
<1>10. ASSUME NEW q \in Procs, RecordLiveFill(q) PROVE TypeOK'
  BY <1>9, <1>10, FillStepType DEF RecordLiveFill, WriteFillRow, GoTo, FillSteps, FillRowKinds, TypeOK
<1>11. ASSUME NEW q \in Procs, RecordSlippage(q) PROVE TypeOK'
  BY <1>9, <1>11, FillStepType
     DEF RecordSlippage, WriteFillRow, GoTo, NextViolation, FillSteps, FillRowKinds, TypeOK
<1>12. ASSUME NEW q \in Procs, RecordViolation(q) PROVE TypeOK'
  <2>1. fills[task[q].fill] \in FillRecord
    BY <1>12 DEF RecordViolation, TypeOK, StepsOK, FillSteps
  <2>2. [fills[task[q].fill] EXCEPT !.violations = @ + 1] \in FillRecord
    BY <2>1 DEF FillRecord
  <2> QED
    BY <1>12, <2>2, FillStepType DEF RecordViolation, GoTo, FillSteps, TypeOK
<1>13. ASSUME NEW q \in Procs, RecordShutdown(q) PROVE TypeOK'
  <2>1. fills[task[q].fill] \in FillRecord /\ task[q].at \in Stamp
    BY <1>13 DEF RecordShutdown, TypeOK, StepsOK, FillSteps, Task
  <2>2. [fills[task[q].fill] EXCEPT !.activations = @ + 1] \in FillRecord
    BY <2>1 DEF FillRecord
  <2> QED
    BY <1>13, <2>1, <2>2, FillStepType DEF RecordShutdown, GoTo, NextViolation, FillSteps, TypeOK
<1>14. ASSUME NEW q \in Procs, Classify(q) PROVE TypeOK'
  BY <1>9, <1>14, FillStepType DEF Classify, WriteFillRow, GoTo, FillSteps, FillRowKinds, TypeOK
<1>15. ASSUME NEW q \in Procs, RecordSessionFill(q) PROVE TypeOK'
  <2>0. [fills[task[q].fill] EXCEPT !.rows = @ \cup {"SESSION_FILL"}] \in FillRecord
    BY <1>9, <1>15 DEF RecordSessionFill, FillSteps, FillRowKinds
  <2>1. CASE StopsSession(task[q].entry)
    BY <1>15, <2>0, <2>1, FillStepType DEF RecordSessionFill, GoTo, FillSteps, TypeOK
  <2>2. CASE ~StopsSession(task[q].entry)
    <3>0. task[q].fill \in DOMAIN fills
      BY <1>15 DEF RecordSessionFill, TypeOK, StepsOK, FillSteps
    <3>1. fills' \in Seq(FillRecord) /\ DOMAIN fills' = DOMAIN fills
      BY <1>15, <2>0, <3>0 DEF RecordSessionFill, TypeOK
    <3>2. /\ pc' = [pc EXCEPT ![q] = "idle"] /\ task' = [task EXCEPT ![q] = NoTask]
          /\ pending' = pending /\ now' = now /\ log' = log /\ shutdowns' = shutdowns
          /\ crashes' = crashes
      BY <1>15, <2>2 DEF RecordSessionFill, GoTo
    <3>3. log' \in Seq(Row) /\ crashes' \in 0 .. MaxCrashes
      BY <3>2 DEF TypeOK
    <3>4. /\ pending' \in {pending, [pending EXCEPT ![q] = NoRow]}
          /\ task' \in {task, [task EXCEPT ![q] = NoTask]}
      BY <3>2
    <3>5. DOMAIN fills \subseteq DOMAIN fills'
      BY <3>1
    <3> QED
      BY <3>1, <3>2, <3>3, <3>4, <3>5, DoneType
  <2> QED
    BY <2>1, <2>2
<1>16. ASSUME NEW q \in Procs, StopAfterFill(q) PROVE TypeOK'
  <2>1. task[q] \in Task
    BY <1>16 DEF StopAfterFill, TypeOK, StepsOK, FillSteps
  <2>2. CASE Active(log, task[q].pilot)
    <3>1. [MkRow("STOPPED", task[q].pilot, task[q].at) EXCEPT !.reason = StopReason(task[q].entry)]
            \in Row
      BY <2>1, StopReasonType DEF Task, MkRow, Row, RowKinds
    <3>2. pc' \in [Procs -> PCs] /\ pending' \in [Procs -> Row \cup {NoRow}]
      BY <1>16, <2>2, <3>1 DEF StopAfterFill, GoTo, TypeOK, PCs
    <3>3. StepsOK'
      BY <1>16, <2>2, <3>1 DEF StopAfterFill, GoTo, TypeOK, StepsOK, FillSteps
    <3> QED
      BY <1>16, <2>2, <3>2, <3>3 DEF StopAfterFill, TypeOK
  <2>3. CASE ~Active(log, task[q].pilot)
    BY <1>16, <2>3, DoneType DEF StopAfterFill, GoTo, TypeOK
  <2> QED
    BY <2>2, <2>3
<1>17. ASSUME NEW q \in Procs, Crash(q) PROVE TypeOK'
  <2>1. crashes' \in 0 .. MaxCrashes
    BY <1>17, BoundsAssumption DEF Crash, TypeOK
  <2> QED
    BY <1>17, <2>1, DoneType DEF Crash, TypeOK
<1>18. ASSUME Tick PROVE TypeOK'
  BY <1>18 DEF Tick, TypeOK, StepsOK, Times
<1>19. ASSUME UNCHANGED vars PROVE TypeOK'
  BY <1>19 DEF vars, TypeOK, StepsOK
<1> QED
  BY <1>1, <1>2, <1>3, <1>4, <1>5, <1>6, <1>7, <1>8, <1>10, <1>11, <1>12, <1>13, <1>14,
     <1>15, <1>16, <1>17, <1>18, <1>19
     DEF Next, Continue, Command

\* Every reachable state is well typed, and a process that records a fill always
\* names a row that exists.
THEOREM TypeCorrect == Spec => []TypeOK
<1> QED
  BY InitType, NextType, PTL DEF Spec

-----------------------------------------------------------------------------
(* Active sessions *)

\* One more row in the log disturbs the rows of its own pilot only.
LEMMA OtherRowsUnchanged ==
  ASSUME NEW l \in Seq(Row), NEW r \in Row, NEW p \in Pilots, NEW kinds,
         r.pilot # p \/ r.kind \notin kinds
  PROVE  RowsOf(Append(l, r), p, kinds) = RowsOf(l, p, kinds)
BY AppendProperties DEF RowsOf

\* A session that becomes active by one more row does so by a STARTED or RESUMED row
\* of its own.
LEMMA ActivatedByOwnRow ==
  ASSUME NEW l \in Seq(Row), NEW r \in Row, NEW p \in Pilots,
         Active(Append(l, r), p), ~Active(l, p)
  PROVE  r.pilot = p /\ r.kind \in {"STARTED", "RESUMED"}
<1> DEFINE l2 == Append(l, r)
<1> SUFFICES ASSUME r.pilot # p \/ r.kind \in {"STOPPED", "RESET_REVIEW"} PROVE FALSE
  BY DEF Row, RowKinds
<1>1. /\ l2 \in Seq(Row) /\ Len(l2) = Len(l) + 1
      /\ \A i \in DOMAIN l : l2[i] = l[i]
      /\ l2[Len(l) + 1] = r
  BY AppendProperties
<1>2. Exists(l, p)
  BY OtherRowsUnchanged DEF Active, Exists
<1>3. PICK i \in DOMAIN l2 : IsLast(l2, i, RowsOf(l2, p, Lifecycle)) /\ l2[i].kind # "STOPPED"
  BY DEF Active
<1>4. i # Len(l) + 1
  BY <1>1, <1>3 DEF IsLast, RowsOf, Lifecycle
<1>5. i \in DOMAIN l
  BY <1>1, <1>4
<1>6. RowsOf(l, p, Lifecycle) \subseteq RowsOf(l2, p, Lifecycle)
  BY <1>1 DEF RowsOf
<1>7. i \in RowsOf(l, p, Lifecycle)
  BY <1>1, <1>3, <1>5 DEF IsLast, RowsOf
<1>8. \A j \in RowsOf(l, p, Lifecycle) : NotBefore(l, i, j)
  BY <1>1, <1>3, <1>5, <1>6 DEF IsLast, RowsOf, NotBefore
<1> QED
  BY <1>1, <1>2, <1>3, <1>5, <1>7, <1>8 DEF Active, IsLast

\* The processes that have found no active session and are about to make one.
Deciders == {q \in Procs : pc[q] = "commit" /\ pending[q].kind \in {"STARTED", "RESUMED"}}

\* A decision taken while no session was active stays pending until its row is
\* inserted; each such process accounts for one session that may yet become active.
ActiveInv ==
  /\ IsFiniteSet(ActiveSessions(log))
  /\ Cardinality(ActiveSessions(log)) + Cardinality(Deciders) <= Cardinality(Procs)

\* The processes are finitely many, so is every set of them.
LEMMA DecidersFinite ==
  /\ IsFiniteSet(Deciders) /\ Cardinality(Deciders) \in Nat
  /\ Cardinality(Deciders) <= Cardinality(Procs) /\ Cardinality(Procs) \in Nat
BY ProcsAssumption, FS_Subset, FS_CardinalityType DEF Deciders

\* A step that makes no session active and no process a decider keeps the bound.
LEMMA NothingActivated ==
  ASSUME ActiveInv, ActiveSessions(log)' \subseteq ActiveSessions(log), Deciders' \subseteq Deciders
  PROVE  ActiveInv'
<1>1. /\ IsFiniteSet(ActiveSessions(log)')
      /\ Cardinality(ActiveSessions(log)') <= Cardinality(ActiveSessions(log))
      /\ Cardinality(ActiveSessions(log)') \in Nat /\ Cardinality(ActiveSessions(log)) \in Nat
  BY FS_Subset, FS_CardinalityType DEF ActiveInv
<1>2. /\ Cardinality(Deciders') <= Cardinality(Deciders)
      /\ Cardinality(Deciders') \in Nat /\ Cardinality(Deciders) \in Nat
  BY DecidersFinite, FS_Subset, FS_CardinalityType
<1> QED
  BY <1>1, <1>2, DecidersFinite DEF ActiveInv

\* A decision taken while no session is active.
LEMMA DecidedWhileNoneActive ==
  ASSUME ActiveSessions(log) = {}, log' = log
  PROVE  ActiveInv'
<1>1. ActiveSessions(log)' = {}
  BY DEF ActiveSessions, Active, Exists, IsLast, RowsOf, NotBefore
<1>2. IsFiniteSet(Deciders') /\ Cardinality(Deciders') <= Cardinality(Procs)
  BY ProcsAssumption, FS_Subset DEF Deciders
<1>3. Cardinality(Deciders') \in Nat
  BY <1>2, FS_CardinalityType
<1> QED
  BY <1>1, <1>2, <1>3, FS_EmptySet DEF ActiveInv

\* The step that inserts a row a process had decided on.
LEMMA CommitKeepsBound ==
  ASSUME TypeOK, ActiveInv, NEW q \in Procs, CommitRow(q)
  PROVE  ActiveInv'
<1> DEFINE r == pending[q]
<1>1. r \in Row /\ log \in Seq(Row) /\ log' = Append(log, r)
  BY DEF CommitRow, TypeOK, StepsOK
<1>2. /\ pc[q] = "commit" /\ pc' = [pc EXCEPT ![q] = "idle"]
      /\ pending' = [pending EXCEPT ![q] = NoRow]
      /\ pc \in [Procs -> PCs] /\ pending \in [Procs -> Row \cup {NoRow}]
  BY DEF CommitRow, TypeOK
<1>3. Deciders' = Deciders \ {q}
  BY <1>2 DEF Deciders
<1>4. \A p \in Pilots : Active(log', p) /\ ~Active(log, p)
        => r.pilot = p /\ r.kind \in {"STARTED", "RESUMED"}
  BY <1>1, ActivatedByOwnRow
<1>5. CASE r.kind \in {"STARTED", "RESUMED"}
  <2>1. q \in Deciders
    BY <1>2, <1>5 DEF Deciders
  <2>2. Cardinality(Deciders') = Cardinality(Deciders) - 1
    BY <1>3, <2>1, DecidersFinite, FS_RemoveElement
  <2>3. ActiveSessions(log') \subseteq ActiveSessions(log) \cup {r.pilot}
    BY <1>4 DEF ActiveSessions
  <2>4. /\ IsFiniteSet(ActiveSessions(log) \cup {r.pilot})
        /\ Cardinality(ActiveSessions(log) \cup {r.pilot}) <= Cardinality(ActiveSessions(log)) + 1
        /\ Cardinality(ActiveSessions(log)) \in Nat
    <3>1. IsFiniteSet(ActiveSessions(log)) /\ Cardinality(ActiveSessions(log)) \in Nat
      BY FS_CardinalityType DEF ActiveInv
    <3> QED
      BY <3>1, FS_AddElement
  <2>5. /\ IsFiniteSet(ActiveSessions(log'))
        /\ Cardinality(ActiveSessions(log')) <= Cardinality(ActiveSessions(log) \cup {r.pilot})
    BY <2>3, <2>4, FS_Subset
  <2>6. /\ Cardinality(ActiveSessions(log')) \in Nat
        /\ Cardinality(ActiveSessions(log) \cup {r.pilot}) \in Nat
    BY <2>4, <2>5, FS_CardinalityType
  <2> QED
    BY <2>2, <2>4, <2>5, <2>6, DecidersFinite DEF ActiveInv
<1>6. CASE r.kind \notin {"STARTED", "RESUMED"}
  <2>1. ActiveSessions(log') \subseteq ActiveSessions(log)
    BY <1>4, <1>6 DEF ActiveSessions
  <2> QED
    BY <1>3, <2>1, NothingActivated
<1> QED
  BY <1>5, <1>6

\* Every step of the system keeps the bound.
LEMMA NextKeepsBound == TypeOK /\ ActiveInv /\ [Next]_vars => ActiveInv'
<1> SUFFICES ASSUME TypeOK, ActiveInv, [Next]_vars PROVE ActiveInv'
  OBVIOUS
<1>t. /\ pc \in [Procs -> PCs] /\ pending \in [Procs -> Row \cup {NoRow}] /\ log \in Seq(Row)
  BY DEF TypeOK
<1>q. ASSUME log' = log, Deciders' \subseteq Deciders PROVE ActiveInv'
  BY <1>q, NothingActivated
<1>1. ASSUME NEW q \in Procs, NEW p \in Pilots, NEW v, NEW at, Start(q, p, v, at)
      PROVE  ActiveInv'
  BY <1>1, DecidedWhileNoneActive DEF Start, Decide
<1>2. ASSUME NEW q \in Procs, NEW p \in Pilots, NEW at, NEW reason, Stop(q, p, at, reason)
      PROVE  ActiveInv'
  <2>1. pending'[q].kind = "STOPPED"
    BY <1>2, <1>t DEF Stop, Decide, MkRow
  <2>2. Deciders' \subseteq Deciders
    BY <1>2, <1>t, <2>1 DEF Stop, Decide, Deciders
  <2> QED
    BY <1>2, <1>q, <2>2 DEF Stop, Decide
<1>3. ASSUME NEW q \in Procs, NEW p \in Pilots, NEW at, Resume(q, p, at)
      PROVE  ActiveInv'
  BY <1>3, DecidedWhileNoneActive DEF Resume, Decide
<1>4. ASSUME NEW q \in Procs, NEW p \in Pilots, NEW at \in Stamps, ResetReview(q, p, at)
      PROVE  ActiveInv'
  <2>1. MkRow("RESET_REVIEW", p, at) \in Row /\ MkRow("RESET_REVIEW", p, at).kind = "RESET_REVIEW"
    BY <1>4, StampsType DEF MkRow, Row, RowKinds, TypeOK
  <2>2. \A s \in Pilots : Active(log', s) => Active(log, s)
    BY <1>4, <1>t, <2>1, ActivatedByOwnRow DEF ResetReview
  <2>3. ActiveSessions(log') \subseteq ActiveSessions(log)
    BY <2>2 DEF ActiveSessions
  <2>4. Deciders' = Deciders
    BY <1>4 DEF ResetReview, Deciders
  <2> QED
    BY <2>3, <2>4, NothingActivated
<1>5. ASSUME NEW q \in Procs, NEW p, NEW v, NEW at, NEW e, FillGate(q, p, v, at, e)
      PROVE  ActiveInv'
  BY <1>5, <1>t, <1>q DEF FillGate, GoTo, Deciders
<1>6. ASSUME NEW q \in Procs, CommitRow(q) PROVE ActiveInv'
  BY <1>6, CommitKeepsBound
<1>7. ASSUME NEW q \in Procs, InsertFill(q) \/ RejectFill(q) PROVE ActiveInv'
  BY <1>7, <1>t, <1>q DEF InsertFill, RejectFill, GoTo, Deciders
<1>8. ASSUME NEW q \in Procs,
             RecordLiveFill(q) \/ RecordSlippage(q) \/ RecordViolation(q) \/ RecordShutdown(q)
               \/ Classify(q) \/ RecordSessionFill(q)
      PROVE  ActiveInv'
  BY <1>8, <1>t, <1>q
     DEF RecordLiveFill, RecordSlippage, RecordViolation, RecordShutdown, Classify,
         RecordSessionFill, WriteFillRow, NextViolation, GoTo, Deciders
<1>9. ASSUME NEW q \in Procs, StopAfterFill(q) PROVE ActiveInv'
  <2>1. pc'[q] = "commit" => pending'[q].kind = "STOPPED"
    BY <1>9, <1>t DEF StopAfterFill, GoTo, MkRow
  <2>2. Deciders' \subseteq Deciders
    BY <1>9, <1>t, <2>1 DEF StopAfterFill, GoTo, Deciders
  <2> QED
    BY <1>9, <1>q, <2>2 DEF StopAfterFill
<1>10. ASSUME NEW q \in Procs, Crash(q) PROVE ActiveInv'
  BY <1>10, <1>t, <1>q DEF Crash, Deciders
<1>11. ASSUME Tick \/ UNCHANGED vars PROVE ActiveInv'
  BY <1>11, <1>q DEF Tick, vars, Deciders
<1> QED
  BY <1>1, <1>2, <1>3, <1>4, <1>5, <1>6, <1>7, <1>8, <1>9, <1>10, <1>11
     DEF Next, Continue, Command

\* Initially there is no session and no process has decided anything.
LEMMA InitBound == Init => ActiveInv
<1> SUFFICES ASSUME Init PROVE ActiveInv
  OBVIOUS
<1>1. ActiveSessions(log) = {} /\ Deciders = {}
  BY DEF Init, ActiveSessions, Active, Exists, RowsOf, Deciders
<1> QED
  BY <1>1, DecidersFinite, FS_EmptySet DEF ActiveInv

\* However the commands interleave, are killed, or are given timestamps, there are never
\* more active sessions than processes; one operator at a time has at most one.
THEOREM ActiveSessionsBound == Spec => []ActiveSessionsBounded
<1>1. TypeOK /\ ActiveInv => ActiveSessionsBounded
  BY DecidersFinite, FS_CardinalityType DEF ActiveInv, ActiveSessionsBounded
<1> QED
  BY <1>1, InitType, NextType, InitBound, NextKeepsBound, PTL DEF Spec

-----------------------------------------------------------------------------
(* Hard stops *)

\* One command at a time, timestamps that are the moment of the command, one UTC offset,
\* fills typed in at once.
OneHonestOperator ==
  /\ Clocked /\ MaxLag = 0
  /\ \A q, r \in Procs : q = r
  /\ \A a, b \in Offsets : a = b

\* The rows of the log, and those still to come, are in the order of their instants.
InTime ==
  /\ \A i \in DOMAIN log : log[i].at.instant <= now
  /\ \A i, j \in DOMAIN log : i <= j => log[i].at.instant <= log[j].at.instant
  /\ \A q \in Procs : pc[q] = "commit" =>
       /\ pending[q].at.instant <= now
       /\ \A i \in DOMAIN log : log[i].at.instant <= pending[q].at.instant
  /\ \A q \in Procs : pc[q] \in FillSteps =>
       /\ task[q].at.instant <= now
       /\ \A i \in DOMAIN log : log[i].at.instant <= task[q].at.instant

Revivals == {"STARTED", "RESUMED"}

\* A session is stopped again only after it was started or resumed.
Alternating ==
  \A p \in Pilots : \A i, j \in RowsOf(log, p, {"STOPPED"}) :
    i < j => \E k \in RowsOf(log, p, Revivals) : i < k /\ k < j

ReviewedOrRestarted(p, i) ==
  \/ ReviewedSince(log, p, log[i].at)
  \/ \E j \in RowsOf(log, p, {"STARTED"}) : j > i

\* A row that resumes a session after a hard stop came after its review.
ResumedInOrder ==
  \A p \in Pilots : \A i \in HardStops(p) : \A j \in RowsOf(log, p, {"RESUMED"}) :
    j > i => ReviewedOrRestarted(p, i)

\* What a command has decided on still holds when it inserts its row.
Decided ==
  \A q \in Procs : pc[q] = "commit" =>
    /\ pending[q].kind = "STOPPED" => Active(log, pending[q].pilot)
    /\ pending[q].kind = "RESUMED" =>
         Exists(log, pending[q].pilot) /\ MayResume(log, pending[q].pilot)

StopInv == InTime /\ Alternating /\ ResumedInOrder /\ Decided

\* Rows in the order of their instants are read in the order of their ids.
LEMMA ReadInOrder ==
  ASSUME OneHonestOperator, TypeOK, InTime, NEW i \in DOMAIN log, NEW j \in DOMAIN log
  PROVE  NotBefore(log, i, j) <=> i >= j
<1>1. log[i] \in Row /\ log[j] \in Row /\ i \in Int /\ j \in Int
  BY DEF TypeOK
<1>2. log[i].at \in Stamp /\ log[j].at \in Stamp
  BY <1>1 DEF Row
<1>3. /\ log[i].at.instant \in Times /\ log[j].at.instant \in Times
      /\ log[i].at.offset \in Offsets /\ log[j].at.offset \in Offsets
  BY <1>2 DEF Stamp
<1>4. log[i].at.offset = log[j].at.offset /\ log[i].at.offset \in Int
  <2>1. log[i].at.offset = log[j].at.offset
    BY <1>3, Zenon DEF OneHonestOperator
  <2>2. log[i].at.offset \in Nat
    BY <1>3, ClockAssumption
  <2> QED
    BY <2>1, <2>2
<1>5. log[i].at.instant \in Int /\ log[j].at.instant \in Int
  BY <1>3, ClockAssumption DEF Times
<1>6. /\ i <= j => log[i].at.instant <= log[j].at.instant
      /\ j <= i => log[j].at.instant <= log[i].at.instant
  BY DEF InTime
<1> QED
  BY <1>1, <1>4, <1>5, <1>6 DEF NotBefore, Text

\* An active session has a last row that is a start or a resumption.
LEMMA ActiveLast ==
  ASSUME OneHonestOperator, TypeOK, InTime, NEW p, Active(log, p)
  PROVE  \E k \in RowsOf(log, p, Revivals) : \A j \in RowsOf(log, p, Lifecycle) : j <= k
<1>1. PICK k \in DOMAIN log : IsLast(log, k, RowsOf(log, p, Lifecycle)) /\ log[k].kind # "STOPPED"
  BY DEF Active
<1>2. k \in RowsOf(log, p, Revivals)
  BY <1>1 DEF IsLast, RowsOf, Lifecycle, Revivals
<1>3. \A j \in RowsOf(log, p, Lifecycle) : j \in DOMAIN log /\ NotBefore(log, k, j)
  BY <1>1 DEF IsLast, RowsOf
<1>4. \A j \in RowsOf(log, p, Lifecycle) : k >= j
  BY <1>1, <1>3, ReadInOrder
<1>5. \A j \in RowsOf(log, p, Lifecycle) : j <= k
  BY <1>1, <1>3, <1>4 DEF TypeOK
<1> QED
  BY <1>2, <1>5

\* A resumption is allowed only when every hard stop of the session was reviewed or
\* followed by a start.
LEMMA ResumeReviewed ==
  ASSUME OneHonestOperator, TypeOK, StopInv, NEW p \in Pilots, MayResume(log, p), Exists(log, p),
         NEW i \in HardStops(p)
  PROVE  ReviewedOrRestarted(p, i)
<1>0. /\ i \in DOMAIN log /\ log[i].pilot = p /\ log[i].kind = "STOPPED"
      /\ log[i].reason \in HardCodes /\ i \in Int
      /\ \A j \in DOMAIN log : j \in Int
  BY DEF HardStops, RowsOf, TypeOK
<1>1. CASE \E k \in RowsOf(log, p, Revivals) : k > i
  <2>1. PICK k \in RowsOf(log, p, Revivals) : k > i
    BY <1>1
  <2>2. CASE log[k].kind = "STARTED"
    BY <2>1, <2>2 DEF ReviewedOrRestarted, RowsOf
  <2>3. CASE log[k].kind = "RESUMED"
    <3>1. k \in RowsOf(log, p, {"RESUMED"})
      BY <2>1, <2>3 DEF RowsOf
    <3> QED
      BY <2>1, <3>1 DEF StopInv, ResumedInOrder
  <2> QED
    BY <2>1, <2>2, <2>3 DEF RowsOf, Revivals
<1>2. CASE ~ \E k \in RowsOf(log, p, Revivals) : k > i
  <2>1. ASSUME NEW j \in RowsOf(log, p, Lifecycle) PROVE i >= j /\ j \in DOMAIN log
    <3> SUFFICES ASSUME ~(i >= j) PROVE FALSE
      BY <2>1 DEF RowsOf
    <3>1. j \in DOMAIN log /\ log[j].pilot = p /\ i < j
      BY <1>0, <2>1 DEF RowsOf
    <3>2. j \in RowsOf(log, p, {"STOPPED"}) /\ i \in RowsOf(log, p, {"STOPPED"})
      BY <1>0, <1>2, <2>1, <3>1 DEF RowsOf, Lifecycle, Revivals
    <3>3. \E k \in RowsOf(log, p, Revivals) : i < k /\ k < j
      BY <3>1, <3>2 DEF StopInv, Alternating
    <3> QED
      BY <1>0, <1>2, <3>3 DEF RowsOf
  <2>2. \A j \in RowsOf(log, p, Lifecycle) : NotBefore(log, i, j)
    BY <1>0, <2>1, ReadInOrder DEF StopInv
  <2>3. IsStopRow(log, i, p)
    BY <1>0, <2>2 DEF IsStopRow, IsLast, RowsOf, Lifecycle
  <2> QED
    BY <1>0, <2>3 DEF MayResume, ReviewedOrRestarted
<1> QED
  BY <1>1, <1>2

\* What makes up for a hard stop is not undone by further rows.
LEMMA ReviewsRemain ==
  ASSUME log \in Seq(Row), NEW r \in Row, log' = Append(log, r), NEW p, NEW i \in DOMAIN log,
         ReviewedOrRestarted(p, i)
  PROVE  ReviewedOrRestarted(p, i)'
<1>1. \A j \in DOMAIN log : j \in DOMAIN log' /\ log'[j] = log[j]
  BY AppendProperties
<1> QED
  BY <1>1 DEF ReviewedOrRestarted, ReviewedSince, RowsOf

\* One more row, of a command that decided on it while nothing else happened.
LEMMA AppendKeepsStops ==
  ASSUME OneHonestOperator, TypeOK, TypeOK', StopInv, NEW r \in Row, log' = Append(log, r),
         now' = now, r.at.instant <= now,
         \A i \in DOMAIN log : log[i].at.instant <= r.at.instant,
         r.kind = "STOPPED" => Active(log, r.pilot),
         r.kind = "RESUMED" => Exists(log, r.pilot) /\ MayResume(log, r.pilot),
         \A q \in Procs : pc'[q] = "idle"
  PROVE  StopInv'
<1> DEFINE n == Len(log) + 1
<1>1. /\ log \in Seq(Row) /\ DOMAIN log' = DOMAIN log \cup {n} /\ log'[n] = r /\ n \in Int
      /\ n \notin DOMAIN log
      /\ \A i \in DOMAIN log : log'[i] = log[i] /\ i < n /\ i \in Int
  BY AppendProperties DEF TypeOK
<1> HIDE DEF n
<1>2. InTime'
  <2>1. \A i \in DOMAIN log' : log'[i].at.instant <= now
    BY <1>1 DEF StopInv, InTime
  <2>2. \A i, j \in DOMAIN log' : i <= j => log'[i].at.instant <= log'[j].at.instant
    <3> SUFFICES ASSUME NEW i \in DOMAIN log', NEW j \in DOMAIN log', i <= j
                 PROVE  log'[i].at.instant <= log'[j].at.instant
      OBVIOUS
    <3>1. CASE i \in DOMAIN log /\ j \in DOMAIN log
      BY <1>1, <3>1 DEF StopInv, InTime
    <3>2. CASE i \in DOMAIN log /\ j = n
      BY <1>1, <3>2
    <3>3. CASE i = n
      <4>1. j = n /\ r.at.instant \in Int
        <5>1. j = n
          BY <1>1, <3>3
        <5>2. r.at.instant \in Times
          BY DEF Row, Stamp
        <5> QED
          BY <5>1, <5>2, ClockAssumption DEF Times
      <4> QED
        BY <1>1, <3>3, <4>1
    <3> QED
      BY <1>1, <3>1, <3>2, <3>3
  <2>3. \A q \in Procs : pc'[q] # "commit" /\ pc'[q] \notin FillSteps
    BY DEF FillSteps
  <2> QED
    BY <2>1, <2>2, <2>3 DEF InTime
<1>3. Alternating'
  <2> SUFFICES ASSUME NEW p \in Pilots, NEW i \in RowsOf(log', p, {"STOPPED"}),
                      NEW j \in RowsOf(log', p, {"STOPPED"}), i < j
               PROVE  \E k \in RowsOf(log', p, Revivals) : i < k /\ k < j
    BY DEF Alternating
  <2>1. RowsOf(log, p, Revivals) \subseteq RowsOf(log', p, Revivals)
    BY <1>1 DEF RowsOf
  <2>2. i \in DOMAIN log
    BY <1>1 DEF RowsOf
  <2>3. i \in RowsOf(log, p, {"STOPPED"})
    BY <1>1, <2>2 DEF RowsOf
  <2>4. CASE j \in DOMAIN log
    <3>1. j \in RowsOf(log, p, {"STOPPED"})
      BY <1>1, <2>4 DEF RowsOf
    <3> QED
      BY <2>1, <2>3, <3>1 DEF StopInv, Alternating
  <2>5. CASE j = n
    <3>1. r.kind = "STOPPED" /\ r.pilot = p
      BY <1>1, <2>5 DEF RowsOf
    <3>2. PICK k \in RowsOf(log, p, Revivals) : \A l \in RowsOf(log, p, Lifecycle) : l <= k
      BY <3>1, ActiveLast DEF StopInv
    <3>3. i \in RowsOf(log, p, Lifecycle) /\ k \in DOMAIN log /\ i # k
      BY <2>3, <3>2 DEF RowsOf, Lifecycle, Revivals
    <3>4. i < k /\ k < n
      BY <1>1, <2>2, <3>2, <3>3
    <3> QED
      BY <2>1, <2>5, <3>2, <3>4
  <2> QED
    BY <1>1, <2>4, <2>5 DEF RowsOf
<1>4. ResumedInOrder'
  <2> SUFFICES ASSUME NEW p \in Pilots, NEW i \in HardStops(p)',
                      NEW j \in RowsOf(log', p, {"RESUMED"}), j > i
               PROVE  ReviewedOrRestarted(p, i)'
    BY DEF ResumedInOrder
  <2>1. i \in DOMAIN log' /\ j \in DOMAIN log'
    BY DEF HardStops, RowsOf
  <2>2. i \in DOMAIN log
    BY <1>1, <2>1
  <2>3. i \in HardStops(p)
    BY <1>1, <2>2 DEF HardStops, RowsOf
  <2>4. ReviewedOrRestarted(p, i)
    <3>1. CASE j \in DOMAIN log
      <4>1. j \in RowsOf(log, p, {"RESUMED"})
        BY <1>1, <3>1 DEF RowsOf
      <4> QED
        BY <2>3, <4>1 DEF StopInv, ResumedInOrder
    <3>2. CASE j = n
      <4>1. r.kind = "RESUMED" /\ r.pilot = p
        BY <1>1, <3>2 DEF RowsOf
      <4> QED
        BY <2>3, <4>1, ResumeReviewed
    <3> QED
      BY <1>1, <2>1, <3>1, <3>2
  <2> QED
    BY <1>1, <2>2, <2>4, ReviewsRemain
<1>5. Decided'
  BY DEF Decided
<1> QED
  BY <1>2, <1>3, <1>4, <1>5 DEF StopInv

\* The other steps keep it when they keep what they are about to insert in time.
LEMMA SameLogKeepsStops ==
  ASSUME StopInv, log' = log, InTime', Decided'
  PROVE  StopInv'
BY DEF StopInv, Alternating, ResumedInOrder, HardStops, ReviewedOrRestarted, ReviewedSince, RowsOf

\* A command decides on a row of the present moment.
LEMMA DecisionKeepsStops ==
  ASSUME OneHonestOperator, TypeOK, TypeOK', StopInv, NEW q \in Procs, NEW row, Decide(q, row),
         row.at.instant = now,
         row.kind = "STOPPED" => Active(log, row.pilot),
         row.kind = "RESUMED" => Exists(log, row.pilot) /\ MayResume(log, row.pilot)
  PROVE  StopInv'
<1>1. /\ pc'[q] = "commit" /\ pending'[q] = row /\ log' = log /\ now' = now
      /\ \A r \in Procs : r = q
  BY DEF Decide, TypeOK, OneHonestOperator
<1>2. now \in Int /\ \A i \in DOMAIN log : log[i].at.instant <= now
  BY ClockAssumption DEF TypeOK, Times, StopInv, InTime
<1>3. InTime'
  <2>1. /\ \A i \in DOMAIN log' : log'[i].at.instant <= now'
        /\ \A i, j \in DOMAIN log' : i <= j => log'[i].at.instant <= log'[j].at.instant
    BY <1>1 DEF StopInv, InTime
  <2>2. \A r \in Procs : pc'[r] = "commit" /\ pc'[r] \notin FillSteps
    BY <1>1 DEF FillSteps
  <2>3. pending'[q].at.instant <= now' /\ \A i \in DOMAIN log' : log'[i].at.instant <= now'
    BY <1>1, <1>2
  <2> QED
    BY <1>1, <2>1, <2>2, <2>3 DEF InTime
<1>4. Decided'
  BY <1>1 DEF Decided
<1> QED
  BY <1>1, <1>3, <1>4, SameLogKeepsStops

\* A fill keeps the moment of its gate check while it is recorded.
LEMMA FillKeepsStops ==
  ASSUME OneHonestOperator, TypeOK, StopInv, NEW q \in Procs, UNCHANGED <<now, log>>,
         pc'[q] # "commit",
         pc'[q] \in FillSteps => pc[q] \in FillSteps /\ task'[q].at = task[q].at
  PROVE  StopInv'
<1>1. \A r \in Procs : r = q
  BY DEF OneHonestOperator
<1>2. InTime'
  BY <1>1 DEF StopInv, InTime
<1>3. Decided'
  BY <1>1 DEF Decided
<1> QED
  BY <1>2, <1>3, SameLogKeepsStops

\* The stop of a fill carries the moment of the fill.
LEMMA StopAfterFillKeepsStops ==
  ASSUME OneHonestOperator, TypeOK, StopInv, NEW q \in Procs, StopAfterFill(q)
  PROVE  StopInv'
<1>0. pc \in [Procs -> PCs] /\ pending \in [Procs -> Row \cup {NoRow}]
  BY DEF TypeOK
<1>1. /\ pc[q] \in FillSteps /\ UNCHANGED <<now, log>> /\ \A r \in Procs : r = q
  BY DEF StopAfterFill, FillSteps, OneHonestOperator
<1>2. CASE Active(log, task[q].pilot)
  <2>1. /\ pc'[q] = "commit" /\ pending'[q].at = task[q].at
        /\ pending'[q].kind = "STOPPED" /\ pending'[q].pilot = task[q].pilot
    BY <1>0, <1>2 DEF StopAfterFill, GoTo, MkRow
  <2>2. \A r \in Procs : pc'[r] \notin FillSteps
    BY <1>1, <2>1 DEF FillSteps
  <2>3. /\ task[q].at.instant <= now
        /\ \A i \in DOMAIN log : log[i].at.instant <= task[q].at.instant
    BY <1>1 DEF StopInv, InTime
  <2>4. InTime'
    BY <1>1, <2>1, <2>2, <2>3 DEF StopInv, InTime
  <2>5. Decided'
    BY <1>1, <1>2, <2>1 DEF Decided
  <2> QED
    BY <1>1, <2>4, <2>5, SameLogKeepsStops
<1>3. CASE ~Active(log, task[q].pilot)
  <2>1. pc'[q] = "idle"
    BY <1>0, <1>3 DEF StopAfterFill, GoTo
  <2> QED
    BY <1>1, <2>1, FillKeepsStops DEF FillSteps
<1> QED
  BY <1>2, <1>3

\* Every step of one honest operator keeps it.
LEMMA NextKeepsStops ==
  ASSUME OneHonestOperator, TypeOK, TypeOK', StopInv, [Next]_vars
  PROVE  StopInv'
<1>t. /\ pc \in [Procs -> PCs] /\ pending \in [Procs -> Row \cup {NoRow}]
      /\ task \in [Procs -> Task \cup {NoTask}] /\ now \in Int
      /\ Stamps \subseteq Stamp /\ FillStamps \subseteq Stamp
  BY StampsType, ClockAssumption DEF TypeOK, Times
<1>s. /\ \A at \in Stamps : at.instant = now
      /\ \A at \in FillStamps : at.instant = now
  <2>1. \A at \in Stamps : at.instant = now
    BY DEF Stamps, OneHonestOperator
  <2>2. ASSUME NEW at \in FillStamps PROVE at.instant = now
    <3>1. at.instant \in Times /\ at.instant <= now /\ now - at.instant <= 0
      BY <2>2 DEF FillStamps, Stamp, OneHonestOperator
    <3> QED
      BY <1>t, <3>1, ClockAssumption DEF Times
  <2> QED
    BY <2>1, <2>2
<1>1. ASSUME NEW q \in Procs, NEW p \in Pilots, NEW v, NEW at \in Stamps, Start(q, p, v, at)
      PROVE  StopInv'
  <2> DEFINE row == [MkRow("STARTED", p, at) EXCEPT !.version = v, !.due = at.instant + ReviewAfter]
  <2>1. row.kind = "STARTED" /\ row.at = at
    BY DEF MkRow
  <2> HIDE DEF row
  <2>2. Decide(q, row)
    BY <1>1 DEF Start, row
  <2> QED
    BY <1>s, <2>1, <2>2, DecisionKeepsStops
<1>2. ASSUME NEW q \in Procs, NEW p \in Pilots, NEW at \in Stamps, NEW reason, Stop(q, p, at, reason)
      PROVE  StopInv'
  <2> DEFINE row == [MkRow("STOPPED", p, at) EXCEPT !.reason = reason]
  <2>1. row.kind = "STOPPED" /\ row.at = at /\ row.pilot = p
    BY DEF MkRow
  <2> HIDE DEF row
  <2>2. Decide(q, row) /\ Active(log, p)
    BY <1>2 DEF Stop, row
  <2> QED
    BY <1>s, <2>1, <2>2, DecisionKeepsStops
<1>3. ASSUME NEW q \in Procs, NEW p \in Pilots, NEW at \in Stamps, Resume(q, p, at)
      PROVE  StopInv'
  <2>1. /\ MkRow("RESUMED", p, at).kind = "RESUMED" /\ MkRow("RESUMED", p, at).at = at
        /\ MkRow("RESUMED", p, at).pilot = p
    BY DEF MkRow
  <2>2. Decide(q, MkRow("RESUMED", p, at)) /\ Exists(log, p) /\ MayResume(log, p)
    BY <1>3 DEF Resume
  <2> QED
    BY <1>s, <2>1, <2>2, DecisionKeepsStops
<1>4. ASSUME NEW q \in Procs, NEW p \in Pilots, NEW at \in Stamps, ResetReview(q, p, at)
      PROVE  StopInv'
  <2> DEFINE row == MkRow("RESET_REVIEW", p, at)
  <2>1. row \in Row /\ row.at.instant = now /\ row.kind = "RESET_REVIEW"
    BY <1>t, <1>s DEF MkRow, Row, RowKinds
  <2> HIDE DEF row
  <2>2. log' = Append(log, row) /\ now' = now /\ \A r \in Procs : pc'[r] = "idle"
    BY <1>4 DEF ResetReview, OneHonestOperator, row
  <2>3. \A i \in DOMAIN log : log[i].at.instant <= row.at.instant
    BY <2>1 DEF StopInv, InTime
  <2> QED
    BY <1>t, <2>1, <2>2, <2>3, AppendKeepsStops
<1>5. ASSUME NEW q \in Procs, NEW p, NEW v, NEW at \in FillStamps, NEW e, FillGate(q, p, v, at, e)
      PROVE  StopInv'
  <2>1. /\ pc'[q] = "insert" /\ task'[q].at = at /\ UNCHANGED <<now, log>>
        /\ \A r \in Procs : r = q
    BY <1>5, <1>t DEF FillGate, GoTo, OneHonestOperator
  <2>2. InTime'
    BY <1>t, <1>s, <2>1 DEF StopInv, InTime
  <2>3. Decided'
    BY <2>1 DEF Decided
  <2> QED
    BY <2>1, <2>2, <2>3, SameLogKeepsStops
<1>6. ASSUME NEW q \in Procs, CommitRow(q) PROVE StopInv'
  <2>1. PICK r : r = pending[q] /\ r \in Row
    BY <1>6 DEF CommitRow, TypeOK, StepsOK
  <2>2. /\ pc[q] = "commit" /\ log' = Append(log, r) /\ now' = now /\ pc'[q] = "idle"
        /\ \A s \in Procs : s = q
    BY <1>6, <1>t, <2>1 DEF CommitRow, OneHonestOperator
  <2>3. /\ r.at.instant <= now /\ \A i \in DOMAIN log : log[i].at.instant <= r.at.instant
        /\ (r.kind = "STOPPED" => Active(log, r.pilot))
        /\ (r.kind = "RESUMED" => Exists(log, r.pilot) /\ MayResume(log, r.pilot))
    BY <2>1, <2>2 DEF StopInv, InTime, Decided
  <2>4. \A s \in Procs : pc'[s] = "idle"
    BY <2>2
  <2> QED
    BY <2>1, <2>2, <2>3, <2>4, AppendKeepsStops
<1>7. ASSUME NEW q \in Procs,
             InsertFill(q) \/ RejectFill(q) \/ RecordLiveFill(q) \/ RecordSlippage(q)
               \/ RecordViolation(q) \/ RecordShutdown(q) \/ Classify(q) \/ RecordSessionFill(q)
               \/ Crash(q)
      PROVE  StopInv'
  <2>1. /\ UNCHANGED <<now, log>> /\ pc'[q] # "commit"
        /\ pc'[q] # "idle" => pc[q] \in FillSteps
    BY <1>7, <1>t
       DEF InsertFill, RejectFill, RecordLiveFill, RecordSlippage, RecordViolation,
           RecordShutdown, Classify, RecordSessionFill, Crash, WriteFillRow, NextViolation,
           GoTo, FillSteps
  <2>2. pc'[q] # "idle" => task'[q].at = task[q].at
    <3>1. CASE InsertFill(q)
      <4>1. task[q] \in Task
        BY <3>1 DEF InsertFill, TypeOK, StepsOK, FillSteps
      <4> QED
        BY <1>t, <3>1, <4>1 DEF InsertFill, Task
    <3>2. CASE ~InsertFill(q)
      BY <1>7, <1>t, <3>2
         DEF RejectFill, RecordLiveFill, RecordSlippage, RecordViolation,
             RecordShutdown, Classify, RecordSessionFill, Crash, WriteFillRow, GoTo
    <3> QED
      BY <3>1, <3>2
  <2> QED
    BY <2>1, <2>2, FillKeepsStops DEF FillSteps
<1>8. ASSUME Tick PROVE StopInv'
  <2>1. now' = now + 1 /\ UNCHANGED <<log, pc, pending, task>>
    BY <1>8 DEF Tick
  <2>2. ASSUME NEW t \in Stamp, t.instant <= now PROVE t.instant <= now'
    <3>1. t.instant \in Int
      BY ClockAssumption DEF Stamp, Times
    <3> QED
      BY <1>t, <2>1, <2>2, <3>1
  <2>3. /\ \A i \in DOMAIN log : log[i].at \in Stamp
        /\ \A q \in Procs : pc[q] = "commit" => pending[q].at \in Stamp
        /\ \A q \in Procs : pc[q] \in FillSteps => task[q].at \in Stamp
    <3>1. \A i \in DOMAIN log : log[i] \in Row
      BY DEF TypeOK
    <3> QED
      BY <3>1 DEF TypeOK, StepsOK, Row, Task
  <2>4. InTime'
    BY <2>1, <2>2, <2>3 DEF StopInv, InTime
  <2>5. Decided'
    BY <2>1 DEF StopInv, Decided
  <2> QED
    BY <2>1, <2>4, <2>5, SameLogKeepsStops
<1>9. ASSUME UNCHANGED vars PROVE StopInv'
  BY <1>9, SameLogKeepsStops DEF vars, StopInv, InTime, Decided
<1> QED
  BY <1>1, <1>2, <1>3, <1>4, <1>5, <1>6, <1>7, <1>8, <1>9, StopAfterFillKeepsStops
     DEF Next, Continue, Command

\* Initially there are no rows.
LEMMA InitStops == Init => StopInv
BY DEF Init, StopInv, InTime, Alternating, ResumedInOrder, HardStops, Decided, RowsOf, FillSteps

\* With one command at a time and honest clocks, a session that has a hard stop is active
\* again only after a reset review no older than the stop, or a start after it; there is no
\* detour through an ordinary stop and resume.
THEOREM HardStopsHold ==
  ASSUME OneHonestOperator
  PROVE  Spec => []HardStopNeedsReviewOrRestart
<1>1. ASSUME TypeOK, StopInv, NEW p \in Pilots, NEW i \in HardStops(p), Active(log, p)
      PROVE  ReviewedOrRestarted(p, i)
  <2>1. PICK k \in RowsOf(log, p, Revivals) : \A j \in RowsOf(log, p, Lifecycle) : j <= k
    BY <1>1, ActiveLast DEF StopInv
  <2>2. i \in RowsOf(log, p, Lifecycle) /\ i # k /\ i \in Int /\ k \in Int
    BY <1>1, <2>1 DEF HardStops, RowsOf, Lifecycle, Revivals, TypeOK
  <2>3. k > i
    BY <2>1, <2>2
  <2>4. CASE log[k].kind = "STARTED"
    BY <2>1, <2>3, <2>4 DEF ReviewedOrRestarted, RowsOf
  <2>5. CASE log[k].kind = "RESUMED"
    <3>1. k \in RowsOf(log, p, {"RESUMED"})
      BY <2>1, <2>5 DEF RowsOf
    <3> QED
      BY <1>1, <2>3, <3>1 DEF StopInv, ResumedInOrder
  <2> QED
    BY <2>1, <2>4, <2>5 DEF RowsOf, Revivals
<1>2. TypeOK /\ StopInv => HardStopNeedsReviewOrRestart
  BY <1>1 DEF HardStopNeedsReviewOrRestart, ReviewedOrRestarted
<1>3. TypeOK /\ TypeOK' /\ StopInv /\ [Next]_vars => StopInv'
  BY NextKeepsStops
<1> QED
  BY <1>2, <1>3, TypeCorrect, InitStops, PTL DEF Spec

-----------------------------------------------------------------------------
(* What a process that records a fill has written of it so far *)

\* Of a fill observed as task t, the rows in its record f are those that come before a
\* step of its recording; downs are the shutdowns.
Written(f, step, t, downs) ==
  LET n == Len(Violations(f.entry)) IN
  /\ f.pilot = t.pilot /\ f.at = t.at /\ f.entry = t.entry /\ f.mark = t.mark
  /\ step = "liveFill" => f.rows = {}
  /\ step = "slippage" => f.rows = {"LIVE_FILL"}
  /\ step \in {"violation", "shutdown", "classify"} => f.rows = {"LIVE_FILL", "SLIPPAGE"}
  /\ step = "sessionFill" => f.rows = {"LIVE_FILL", "SLIPPAGE", "CLASSIFIED"}
  /\ step \in {"stop", "commit"} => f.rows = FillRowKinds
  /\ step \in {"liveFill", "slippage"} => f.violations = 0
  /\ step = "violation" => f.violations < n
  /\ step = "shutdown" => f.violations = f.activations + 1 /\ f.violations <= n
  /\ step # "shutdown" => f.violations = f.activations
  /\ step \in {"classify", "sessionFill", "stop", "commit"} => f.violations = n
  /\ f.activations > 0 => f.at \in downs

Progress(q) == Written(fills[task[q].fill], pc[q], task[q], shutdowns)

Holds(q) ==
  /\ task[q].fill \in DOMAIN fills \cup {0}
  /\ pc[q] \in {"idle", "insert"} => task[q].fill = 0
  /\ task[q].fill # 0 => Progress(q)

\* No fill is held by two processes.
Apart == \A q, r \in Procs : task[q].fill = task[r].fill /\ q # r => task[q].fill = 0

HoldInv == Apart /\ \A q \in Procs : Holds(q)

\* One step of process q that touches no fill but g, which no other process holds; 0 is no fill.
Touches(q, g) ==
  /\ \A r \in Procs \ {q} : task'[r] = task[r] /\ pc'[r] = pc[r] /\ task[r].fill \notin {g} \ {0}
  /\ task[q].fill \in {0, g} /\ task'[q].fill \in {0, g}
  /\ DOMAIN fills \subseteq DOMAIN fills'
  /\ \A f \in DOMAIN fills' \ {g} : f \in DOMAIN fills /\ fills'[f] = fills[f]
  /\ shutdowns \subseteq shutdowns'

\* A process that is not touched holds what it held.
LEMMA OthersHold ==
  ASSUME TypeOK, HoldInv, NEW q \in Procs, NEW g, Touches(q, g), Holds(q)'
  PROVE  HoldInv'
<1>1. ASSUME NEW r \in Procs \ {q} PROVE Holds(r)'
  <2>1. task'[r] = task[r] /\ pc'[r] = pc[r] /\ task[r].fill \notin {g} \ {0} /\ Holds(r)
    BY DEF Touches, HoldInv
  <2>2. task[r].fill \in DOMAIN fills' \cup {0}
    BY <2>1 DEF Holds, Touches
  <2>3. CASE task[r].fill = 0
    BY <2>1, <2>2, <2>3 DEF Holds
  <2>4. CASE task[r].fill # 0
    <3>1. fills'[task[r].fill] = fills[task[r].fill] /\ shutdowns \subseteq shutdowns'
      BY <2>1, <2>2, <2>4 DEF Touches
    <3>2. Progress(r)'
      BY <2>1, <2>4, <3>1 DEF Holds, Progress, Written
    <3> QED
      BY <2>1, <2>2, <3>2 DEF Holds
  <2> QED
    BY <2>3, <2>4
<1>2. Apart'
  <2>1. \A r \in Procs \ {q} : task'[r] = task[r] /\ task[r].fill \notin {g} \ {0}
    BY DEF Touches
  <2>2. task'[q].fill \in {0, g}
    BY DEF Touches
  <2> QED
    BY <2>1, <2>2 DEF Apart, HoldInv
<1> QED
  BY <1>1, <1>2 DEF HoldInv

-----------------------------------------------------------------------------
(* Torn fills *)

TornInv == IsFiniteSet(TornFills) /\ Cardinality(TornFills) <= crashes

\* A fill that is not touched is torn only if it was.
LEMMA UntouchedFills ==
  ASSUME TypeOK, NEW q \in Procs, NEW g, Touches(q, g), NEW f \in DOMAIN fills', f # g, f # 0
  PROVE  /\ f \in DOMAIN fills /\ fills'[f] = fills[f]
         /\ Complete(f) => Complete(f)'
         /\ InFlight(f)' <=> InFlight(f)
<1>1. f \in DOMAIN fills /\ fills'[f] = fills[f] /\ shutdowns \subseteq shutdowns'
  BY DEF Touches
<1>2. Complete(f) => Complete(f)'
  BY <1>1 DEF Complete
<1>3. \A r \in Procs : task'[r].fill = f <=> task[r].fill = f
  BY DEF Touches
<1> QED
  BY <1>1, <1>2, <1>3 DEF InFlight

\* The fill rows of the database are numbered from 1.
LEMMA FillIds == TypeOK => DOMAIN fills = 1 .. Len(fills) /\ Len(fills) \in Nat /\ 0 \notin DOMAIN fills
BY DEF TypeOK

\* A set of fills that gains nothing, or the fill of a killed process, stays within the
\* kills.
LEMMA KillsBound ==
  ASSUME NEW S, NEW T, NEW g, NEW c \in Nat, IsFiniteSet(S), Cardinality(S) <= c
  PROVE  /\ T \subseteq S => IsFiniteSet(T) /\ Cardinality(T) <= c
         /\ T \subseteq S \cup {g} => IsFiniteSet(T) /\ Cardinality(T) <= c + 1
<1>1. /\ IsFiniteSet(S \cup {g}) /\ Cardinality(S) \in Nat
      /\ Cardinality(S \cup {g}) <= Cardinality(S) + 1 /\ Cardinality(S \cup {g}) \in Nat
  BY FS_AddElement, FS_CardinalityType
<1>2. ASSUME T \subseteq S PROVE IsFiniteSet(T) /\ Cardinality(T) <= c
  <2>1. IsFiniteSet(T) /\ Cardinality(T) <= Cardinality(S) /\ Cardinality(T) \in Nat
    BY <1>2, FS_Subset, FS_CardinalityType
  <2> QED
    BY <1>1, <2>1
<1>3. ASSUME T \subseteq S \cup {g} PROVE IsFiniteSet(T) /\ Cardinality(T) <= c + 1
  <2>1. /\ IsFiniteSet(T) /\ Cardinality(T) <= Cardinality(S \cup {g})
        /\ Cardinality(T) \in Nat
    BY <1>1, <1>3, FS_Subset, FS_CardinalityType
  <2> QED
    BY <1>1, <2>1
<1> QED
  BY <1>2, <1>3

\* A step leaves a fill torn only when the process that held it is killed.
LEMMA TornStep ==
  ASSUME TypeOK, TypeOK', TornInv, NEW q \in Procs, NEW g, Touches(q, g),
         \/ crashes' = crashes + 1
         \/ crashes' = crashes /\ (g \in DOMAIN fills' => InFlight(g)' \/ Complete(g)')
  PROVE  TornInv'
<1>0. 0 \notin DOMAIN fills' /\ crashes \in Nat
  BY BoundsAssumption DEF TypeOK
<1>1. \A f \in TornFills' : f # g => f \in TornFills
  BY <1>0, UntouchedFills DEF TornFills
<1>b. /\ TornFills' \subseteq TornFills
           => IsFiniteSet(TornFills') /\ Cardinality(TornFills') <= crashes
      /\ TornFills' \subseteq TornFills \cup {g}
           => IsFiniteSet(TornFills') /\ Cardinality(TornFills') <= crashes + 1
  <2>1. IsFiniteSet(TornFills) /\ Cardinality(TornFills) <= crashes
    BY DEF TornInv
  <2> QED
    BY <1>0, <2>1, KillsBound
<1>2. CASE crashes' = crashes + 1
  <2>1. TornFills' \subseteq TornFills \cup {g}
    BY <1>1
  <2> QED
    BY <1>b, <1>2, <2>1 DEF TornInv
<1>3. CASE crashes' = crashes /\ (g \in DOMAIN fills' => InFlight(g)' \/ Complete(g)')
  <2>1. g \notin TornFills'
    BY <1>3 DEF TornFills
  <2>2. TornFills' \subseteq TornFills
    BY <1>1, <2>1
  <2> QED
    BY <1>b, <1>3, <2>2 DEF TornInv
<1> QED
  BY <1>2, <1>3

-----------------------------------------------------------------------------
(* Stops *)

\* The text of a timestamp is a place on one scale.
LEMMA TextType == ASSUME NEW t \in Stamp PROVE Text(t) \in Int
<1>1. t.instant \in Times /\ t.offset \in Offsets
  BY DEF Stamp
<1>2. t.offset \in Nat
  BY <1>1, ClockAssumption
<1>3. t.instant \in Int
  BY <1>1, ClockAssumption DEF Times
<1> QED
  BY <1>2, <1>3 DEF Text

\* A session stops being active by one more row only when that row is its STOPPED row.
LEMMA StoppedByOwnRow ==
  ASSUME NEW l \in Seq(Row), NEW r \in Row, NEW p \in Pilots,
         Active(l, p), ~Active(Append(l, r), p)
  PROVE  r.pilot = p /\ r.kind = "STOPPED"
<1> DEFINE l2 == Append(l, r)
           n == Len(l) + 1
<1> SUFFICES ASSUME r.pilot # p \/ r.kind # "STOPPED" PROVE FALSE
  OBVIOUS
<1>1. /\ l2 \in Seq(Row) /\ DOMAIN l2 = DOMAIN l \cup {n} /\ l2[n] = r /\ n \notin DOMAIN l
      /\ \A i \in DOMAIN l : l2[i] = l[i] /\ i < n
  BY AppendProperties
<1>2. Exists(l2, p)
  BY <1>1 DEF Active, Exists, RowsOf
<1>3. PICK i \in DOMAIN l : IsLast(l, i, RowsOf(l, p, Lifecycle)) /\ l[i].kind # "STOPPED"
  BY DEF Active
<1>4. RowsOf(l2, p, Lifecycle) \subseteq RowsOf(l, p, Lifecycle) \cup {n}
  BY <1>1 DEF RowsOf
<1>5. i \in RowsOf(l2, p, Lifecycle) /\ l2[i].kind # "STOPPED"
  BY <1>1, <1>3 DEF IsLast, RowsOf
<1>6. \A j \in RowsOf(l, p, Lifecycle) : NotBefore(l2, i, j)
  BY <1>1, <1>3 DEF IsLast, RowsOf, NotBefore
<1>7. CASE n \notin RowsOf(l2, p, Lifecycle) \/ NotBefore(l2, i, n)
  <2>1. IsLast(l2, i, RowsOf(l2, p, Lifecycle))
    BY <1>4, <1>5, <1>6, <1>7 DEF IsLast
  <2> QED
    BY <1>1, <1>2, <1>5, <2>1 DEF Active
<1>8. CASE n \in RowsOf(l2, p, Lifecycle) /\ ~NotBefore(l2, i, n)
  <2>t. \A j \in DOMAIN l2 : Text(l2[j].at) \in Int
    <3> SUFFICES ASSUME NEW j \in DOMAIN l2 PROVE Text(l2[j].at) \in Int
      OBVIOUS
    <3>1. l2[j] \in Row
      <4> HIDE DEF l2
      <4> QED
        BY <1>1
    <3>2. l2[j].at \in Stamp
      BY <3>1 DEF Row
    <3> QED
      BY <3>2, TextType
  <2>0. i \in DOMAIN l2 /\ n \in DOMAIN l2 /\ i \in Int /\ n \in Int
    BY <1>1
  <2>1. Text(l2[n].at) >= Text(l2[i].at)
    <3> HIDE DEF l2, n
    <3>1. Text(l2[n].at) \in Int /\ Text(l2[i].at) \in Int /\ ~NotBefore(l2, i, n) /\ i < n
      BY <1>1, <1>8, <2>0, <2>t
    <3> QED
      BY <3>1, <2>0 DEF NotBefore
  <2>2. \A j \in RowsOf(l2, p, Lifecycle) : NotBefore(l2, n, j)
    <3> SUFFICES ASSUME NEW j \in RowsOf(l2, p, Lifecycle) PROVE NotBefore(l2, n, j)
      OBVIOUS
    <3>1. CASE j = n
      BY <1>1, <3>1 DEF NotBefore
    <3>2. CASE j # n
      <4>1. NotBefore(l2, i, j) /\ j \in DOMAIN l2
        BY <1>4, <1>6, <3>2 DEF RowsOf
      <4>2. Text(l2[i].at) >= Text(l2[j].at)
        BY <1>1, <2>t, <4>1 DEF NotBefore
      <4>3. /\ Text(l2[n].at) \in Int /\ Text(l2[i].at) \in Int /\ Text(l2[j].at) \in Int
            /\ n >= j
        BY <1>1, <2>0, <2>t, <4>1
      <4> HIDE DEF l2, n
      <4>4. Text(l2[n].at) >= Text(l2[j].at)
        BY <2>1, <4>2, <4>3
      <4> QED
        BY <4>3, <4>4 DEF NotBefore
    <3> QED
      BY <3>1, <3>2
  <2>3. r.kind # "STOPPED"
    BY <1>1, <1>8 DEF RowsOf
  <2> QED
    BY <1>1, <1>2, <1>8, <2>2, <2>3 DEF Active, IsLast
<1> QED
  BY <1>7, <1>8

\* A STOPPED row of p was inserted after row m.
StoppedAfter(p, m) == \E i \in RowsOf(log, p, {"STOPPED"}) : i > m

\* A process that the gate let pass works on a session that is active, or was stopped
\* since; one that is about to stop it holds the row.
Gated(q) ==
  /\ pc[q] \in FillSteps =>
       /\ task[q].mark <= Len(log)
       /\ Active(log, task[q].pilot) \/ StoppedAfter(task[q].pilot, task[q].mark)
  /\ pc[q] = "commit" /\ task[q].fill # 0 =>
       /\ task[q] \in Task /\ task[q].mark <= Len(log)
       /\ pending[q].kind = "STOPPED" /\ pending[q].pilot = task[q].pilot

GateInv == \A q \in Procs : Gated(q)

\* Rows that are added to the log undo no stop.
LEMMA StopsRemain ==
  ASSUME log \in Seq(Row), NEW r \in Row, log' = Append(log, r), NEW p, NEW m
  PROVE  StoppedAfter(p, m) => StoppedAfter(p, m)'
BY AppendProperties DEF StoppedAfter, RowsOf

\* A process that does nothing stays gated while others add a row.
LEMMA GatedRemains ==
  ASSUME TypeOK, NEW q \in Procs, Gated(q), pc'[q] = pc[q], task'[q] = task[q],
         pending'[q] = pending[q],
         \/ log' = log
         \/ \E r \in Row : log' = Append(log, r)
  PROVE  Gated(q)'
<1>1. CASE log' = log
  BY <1>1 DEF Gated, StoppedAfter, Active, Exists, RowsOf, IsLast, NotBefore
<1>2. ASSUME NEW r \in Row, log' = Append(log, r) PROVE Gated(q)'
  <2>1. log \in Seq(Row) /\ Len(log') = Len(log) + 1 /\ Len(log) \in Nat
        /\ log'[Len(log) + 1] = r /\ DOMAIN log' = 1 .. Len(log) + 1
    BY <1>2, AppendProperties DEF TypeOK
  <2>2. CASE pc[q] \in FillSteps
    <3>1. task[q] \in Task
      BY <2>2 DEF TypeOK, StepsOK
    <3>2. StoppedAfter(task[q].pilot, task[q].mark) => StoppedAfter(task[q].pilot, task[q].mark)'
      BY <1>2, <2>1, StopsRemain
    <3>3. Active(log, task[q].pilot) =>
            Active(log', task[q].pilot) \/ (r.pilot = task[q].pilot /\ r.kind = "STOPPED")
      BY <1>2, <2>1, <3>1, StoppedByOwnRow DEF Task
    <3>4. r.pilot = task[q].pilot /\ r.kind = "STOPPED" /\ task[q].mark <= Len(log)
            => StoppedAfter(task[q].pilot, task[q].mark)'
      BY <2>1, <3>1 DEF StoppedAfter, RowsOf, Task
    <3>5. task[q].mark <= Len(log) /\ task[q].mark <= Len(log')
      BY <2>1, <2>2, <3>1 DEF Gated, Task
    <3> QED
      BY <2>2, <3>2, <3>3, <3>4, <3>5 DEF Gated, FillSteps
  <2>3. CASE pc[q] \notin FillSteps
    BY <2>1, <2>3 DEF Gated, Task
  <2> QED
    BY <2>2, <2>3
<1> QED
  BY <1>1, <1>2

MissedInv == IsFiniteSet(MissedStops) /\ Cardinality(MissedStops) <= crashes

\* A stop is missed only when the process that owed it is killed.
LEMMA MissedStep ==
  ASSUME TypeOK, TypeOK', MissedInv, NEW q \in Procs, NEW g, Touches(q, g),
         \/ log' = log
         \/ \E r \in Row : log' = Append(log, r),
         \/ crashes' = crashes + 1
         \/ /\ crashes' = crashes
            /\ g \in DOMAIN fills' /\ StopsSession(fills'[g].entry)
                 => InFlight(g)' \/ StoppedSince(g)'
  PROVE  MissedInv'
<1>0. 0 \notin DOMAIN fills' /\ crashes \in Nat
  BY BoundsAssumption DEF TypeOK
<1>1. ASSUME NEW f \in MissedStops', f # g PROVE f \in MissedStops
  <2>1. /\ f \in DOMAIN fills' /\ f # 0 /\ StopsSession(fills'[f].entry) /\ ~InFlight(f)'
        /\ ~StoppedSince(f)'
    BY <1>0, <1>1 DEF MissedStops
  <2>2. f \in DOMAIN fills /\ fills'[f] = fills[f] /\ ~InFlight(f)
    BY <1>1, <2>1, UntouchedFills
  <2>3. StoppedAfter(fills[f].pilot, fills[f].mark) => StoppedAfter(fills[f].pilot, fills[f].mark)'
    <3>1. CASE log' = log
      BY <2>2, <3>1 DEF StoppedAfter, RowsOf
    <3>2. CASE \E r \in Row : log' = Append(log, r)
      BY <2>2, <3>2, StopsRemain DEF StoppedAfter, RowsOf, TypeOK
    <3> QED
      BY <3>1, <3>2
  <2>4. StoppedSince(f) => StoppedSince(f)'
    BY <2>2, <2>3 DEF StoppedSince, StoppedAfter
  <2> QED
    BY <2>1, <2>2, <2>4 DEF MissedStops
<1>b. /\ MissedStops' \subseteq MissedStops
           => IsFiniteSet(MissedStops') /\ Cardinality(MissedStops') <= crashes
      /\ MissedStops' \subseteq MissedStops \cup {g}
           => IsFiniteSet(MissedStops') /\ Cardinality(MissedStops') <= crashes + 1
  <2>1. IsFiniteSet(MissedStops) /\ Cardinality(MissedStops) <= crashes
    BY DEF MissedInv
  <2> QED
    BY <1>0, <2>1, KillsBound
<1>2. CASE crashes' = crashes + 1
  <2>1. MissedStops' \subseteq MissedStops \cup {g}
    BY <1>1
  <2> QED
    BY <1>b, <1>2, <2>1 DEF MissedInv
<1>3. CASE /\ crashes' = crashes
           /\ g \in DOMAIN fills' /\ StopsSession(fills'[g].entry)
                => InFlight(g)' \/ StoppedSince(g)'
  <2>1. g \notin MissedStops'
    BY <1>3 DEF MissedStops
  <2>2. MissedStops' \subseteq MissedStops
    BY <1>1, <2>1
  <2> QED
    BY <1>b, <1>3, <2>2 DEF MissedInv
<1> QED
  BY <1>2, <1>3

-----------------------------------------------------------------------------
(* Every step *)

\* What a step of process q may do to the fill it holds: let it go killed, or keep it,
\* or leave it complete and its session stopped.
Leaves(q, g) ==
  \/ crashes' = crashes + 1
  \/ /\ crashes' = crashes
     /\ g \in DOMAIN fills' =>
          \/ task'[q].fill = g
          \/ /\ Complete(g)'
             /\ StopsSession(fills'[g].entry) => StoppedSince(g)'

LogGrows == log' = log \/ \E r \in Row : log' = Append(log, r)

FillInv == HoldInv /\ GateInv /\ TornInv /\ MissedInv

\* A step of one process keeps the invariant when it keeps it for that process.
LEMMA StepKeeps ==
  ASSUME TypeOK, TypeOK', FillInv, NEW q \in Procs, NEW g, Touches(q, g), Leaves(q, g), LogGrows,
         \A r \in Procs \ {q} : pending'[r] = pending[r],
         Holds(q)', Gated(q)'
  PROVE  FillInv'
<1>1. HoldInv'
  BY OthersHold DEF FillInv
<1>2. GateInv'
  <2>1. ASSUME NEW r \in Procs \ {q} PROVE Gated(r)'
    <3>1. pc'[r] = pc[r] /\ task'[r] = task[r] /\ pending'[r] = pending[r] /\ Gated(r)
      BY DEF Touches, FillInv, GateInv
    <3> QED
      BY <3>1, GatedRemains DEF LogGrows
  <2> QED
    BY <2>1 DEF GateInv
<1>3. /\ \/ crashes' = crashes + 1
         \/ crashes' = crashes /\ (g \in DOMAIN fills' => InFlight(g)' \/ Complete(g)')
      /\ \/ crashes' = crashes + 1
         \/ /\ crashes' = crashes
            /\ g \in DOMAIN fills' /\ StopsSession(fills'[g].entry)
                 => InFlight(g)' \/ StoppedSince(g)'
  BY DEF Leaves, InFlight
<1>4. TornInv'
  BY <1>3, TornStep DEF FillInv
<1>5. MissedInv'
  BY <1>3, MissedStep DEF FillInv, LogGrows
<1> QED
  BY <1>1, <1>2, <1>4, <1>5 DEF FillInv

\* A step that leaves processes and fills alone keeps it too.
LEMMA IdleKeeps ==
  ASSUME TypeOK, FillInv, LogGrows, UNCHANGED <<fills, shutdowns, pc, pending, task, crashes>>
  PROVE  FillInv'
<1>1. HoldInv'
  BY DEF FillInv, HoldInv, Apart, Holds, Progress
<1>2. GateInv'
  BY GatedRemains DEF FillInv, GateInv, LogGrows
<1>3. TornFills' = TornFills
  BY DEF TornFills, Complete, InFlight
<1>4. MissedStops' \subseteq MissedStops
  <2>1. ASSUME NEW f \in DOMAIN fills PROVE StoppedSince(f) => StoppedSince(f)'
    <3>1. CASE log' = log
      BY <3>1 DEF StoppedSince, RowsOf
    <3>2. CASE \E r \in Row : log' = Append(log, r)
      BY <3>2, StopsRemain DEF StoppedSince, StoppedAfter, RowsOf, TypeOK
    <3> QED
      BY <3>1, <3>2 DEF LogGrows
  <2> QED
    BY <2>1 DEF MissedStops, InFlight
<1>5. TornInv'
  BY <1>3 DEF FillInv, TornInv
<1>6. MissedInv'
  <2>1. IsFiniteSet(MissedStops) /\ Cardinality(MissedStops) <= crashes /\ crashes \in Nat
    BY BoundsAssumption DEF FillInv, MissedInv, TypeOK
  <2>2. IsFiniteSet(MissedStops') /\ Cardinality(MissedStops') <= crashes
    BY <1>4, <2>1, KillsBound
  <2> QED
    BY <2>2 DEF MissedInv
<1> QED
  BY <1>1, <1>2, <1>5, <1>6 DEF FillInv

\* A command that decides on a row holds no fill.
LEMMA DecideKeeps ==
  ASSUME TypeOK, TypeOK', FillInv, NEW q \in Procs, NEW row, pc[q] = "idle", Decide(q, row)
  PROVE  FillInv'
<1>1. /\ pc \in [Procs -> PCs] /\ pending \in [Procs -> Row \cup {NoRow}] /\ task[q].fill = 0
  BY DEF TypeOK, FillInv, HoldInv, Holds
<1>2. Touches(q, 0)
  BY <1>1 DEF Decide, Touches
<1>3. Holds(q)' /\ Gated(q)'
  BY <1>1 DEF Decide, Holds, Gated, FillSteps
<1>4. Leaves(q, 0) /\ LogGrows /\ \A r \in Procs \ {q} : pending'[r] = pending[r]
  BY <1>1 DEF Decide, Leaves, LogGrows, TypeOK
<1> QED
  BY <1>2, <1>3, <1>4, StepKeeps

\* The session a fill is let pass on is active at that moment.
LEMMA FillGateKeeps ==
  ASSUME TypeOK, TypeOK', FillInv, NEW q \in Procs, NEW p, NEW v, NEW at, NEW e,
         FillGate(q, p, v, at, e)
  PROVE  FillInv'
<1>1. /\ pc \in [Procs -> PCs] /\ task \in [Procs -> Task \cup {NoTask}] /\ task[q].fill = 0
      /\ log \in Seq(Row) /\ Len(log) \in Nat
  BY DEF TypeOK, FillInv, HoldInv, Holds, FillGate
<1>2. /\ pc' = [pc EXCEPT ![q] = "insert"]
      /\ task'[q] = [pilot |-> TheActive(log), at |-> at, entry |-> e, fill |-> 0,
                     mark |-> Len(log)]
      /\ \A r \in Procs \ {q} : task'[r] = task[r] /\ pc'[r] = pc[r]
      /\ Active(log, TheActive(log)) /\ UNCHANGED <<log, fills, shutdowns, pending, crashes>>
  BY <1>1, GateFindsSession DEF FillGate, GoTo
<1>3. Touches(q, 0)
  BY <1>1, <1>2 DEF Touches
<1>4. Holds(q)'
  BY <1>1, <1>2 DEF Holds
<1>5. Gated(q)'
  <2>1. PICK s : s = TheActive(log) /\ Active(log, s)
    BY <1>2
  <2>2. Active(log', s) /\ task'[q].pilot = s /\ task'[q].mark = Len(log) /\ task'[q].fill = 0
    BY <1>2, <2>1
  <2>3. Len(log') = Len(log)
    BY <1>2
  <2> QED
    BY <1>1, <2>2, <2>3 DEF Gated
<1>6. Leaves(q, 0) /\ LogGrows /\ \A r \in Procs \ {q} : pending'[r] = pending[r]
  BY <1>2 DEF Leaves, LogGrows, TypeOK
<1> QED
  BY <1>3, <1>4, <1>5, <1>6, StepKeeps

\* A process that goes on with its fill stays gated.
LEMMA GatedStep ==
  ASSUME NEW q \in Procs, Gated(q), pc[q] \in FillSteps, pc'[q] \in FillSteps, log' = log,
         task'[q].pilot = task[q].pilot, task'[q].mark = task[q].mark
  PROVE  Gated(q)'
<1>1. PICK p, m : p = task[q].pilot /\ m = task[q].mark
  OBVIOUS
<1>2. m <= Len(log') /\ (Active(log, p) \/ StoppedAfter(p, m))
  BY <1>1 DEF Gated
<1>3. StoppedAfter(p, m) => StoppedAfter(p, m)'
  BY DEF StoppedAfter, RowsOf
<1>4. Active(log', p) \/ StoppedAfter(p, m)'
  BY <1>2, <1>3
<1>5. pc'[q] # "commit"
  BY DEF FillSteps
<1>6. task'[q].pilot = p /\ task'[q].mark = m
  BY <1>1
<1> QED
  BY <1>2, <1>4, <1>5, <1>6 DEF Gated, StoppedAfter

\* The fill that is inserted is held by the process that inserts it.
LEMMA InsertFillKeeps ==
  ASSUME TypeOK, TypeOK', FillInv, NEW q \in Procs, InsertFill(q)
  PROVE  FillInv'
<1> DEFINE n == Len(fills) + 1
           f == [pilot |-> task[q].pilot, at |-> task[q].at, entry |-> task[q].entry,
                 rows |-> {}, violations |-> 0, activations |-> 0, mark |-> task[q].mark]
<1>1. /\ pc \in [Procs -> PCs] /\ task \in [Procs -> Task \cup {NoTask}] /\ task[q].fill = 0
      /\ task[q] \in Task /\ fills \in Seq(FillRecord) /\ Len(fills) \in Nat
  BY DEF TypeOK, StepsOK, FillInv, HoldInv, Holds, InsertFill, FillSteps
<1>2. /\ pc' = [pc EXCEPT ![q] = "liveFill"] /\ task' = [task EXCEPT ![q].fill = n]
      /\ fills' = Append(fills, f) /\ UNCHANGED <<log, shutdowns, pending, crashes>>
      /\ pc[q] = "insert"
  BY DEF InsertFill, GoTo
<1>3. /\ DOMAIN fills' = DOMAIN fills \cup {n} /\ n \notin DOMAIN fills /\ n # 0
      /\ fills'[n] = f /\ \A i \in DOMAIN fills : fills'[i] = fills[i]
  <2>1. DOMAIN fills = 1 .. Len(fills) /\ DOMAIN fills' = 1 .. n /\ Len(fills') = n
    BY <1>1, <1>2
  <2> QED
    BY <1>1, <1>2, <2>1
<1>4. /\ task'[q].fill = n /\ task'[q].pilot = task[q].pilot /\ task'[q].at = task[q].at
      /\ task'[q].entry = task[q].entry /\ task'[q].mark = task[q].mark
  BY <1>1, <1>2 DEF Task
<1>5. Touches(q, n)
  <2>1. \A r \in Procs : task[r].fill \in DOMAIN fills \cup {0}
    BY DEF FillInv, HoldInv, Holds
  <2> HIDE DEF f, n
  <2> QED
    BY <1>1, <1>2, <1>3, <1>4, <2>1 DEF Touches
<1>6. Holds(q)'
  <2>1. pc'[q] = "liveFill"
    BY <1>1, <1>2
  <2>2. /\ fills'[task'[q].fill].pilot = task'[q].pilot /\ fills'[task'[q].fill].at = task'[q].at
        /\ fills'[task'[q].fill].entry = task'[q].entry
        /\ fills'[task'[q].fill].mark = task'[q].mark
        /\ fills'[task'[q].fill].rows = {} /\ fills'[task'[q].fill].violations = 0
        /\ fills'[task'[q].fill].activations = 0
    BY <1>3, <1>4
  <2>3. Progress(q)'
    BY <2>1, <2>2 DEF Progress, Written
  <2> QED
    BY <1>3, <1>4, <2>1, <2>3 DEF Holds
<1>7. Gated(q)'
  <2>1. pc'[q] = "liveFill" /\ pc[q] \in FillSteps /\ pc'[q] \in FillSteps
    BY <1>1, <1>2 DEF FillSteps
  <2> QED
    BY <1>2, <1>4, <2>1, GatedStep DEF FillInv, GateInv
<1>8. Leaves(q, n) /\ LogGrows /\ \A r \in Procs \ {q} : pending'[r] = pending[r]
  BY <1>2, <1>4 DEF Leaves, LogGrows
<1> QED
  BY <1>5, <1>6, <1>7, <1>8, StepKeeps

\* A row about the fill: the process holds on to the fill, and to its place in the log.
LEMMA FillRowKeeps ==
  ASSUME TypeOK, TypeOK', FillInv, NEW q \in Procs, NEW g, g = task[q].fill, g \in DOMAIN fills,
         NEW next, pc[q] \in FillSteps, pc' = [pc EXCEPT ![q] = next],
         next \in FillSteps,
         UNCHANGED <<log, pending, task, crashes>>, shutdowns \subseteq shutdowns',
         NEW new, fills' = [fills EXCEPT ![g] = new], Progress(q)', next # "insert"
  PROVE  FillInv'
<1>1. pc \in [Procs -> PCs] /\ 0 \notin DOMAIN fills
  BY DEF TypeOK
<1>2. Touches(q, g)
  BY <1>1 DEF Touches, FillInv, HoldInv, Apart
<1>3. Holds(q)'
  BY <1>1 DEF Holds, FillSteps
<1>4. Gated(q)'
  BY <1>1, GatedStep DEF FillInv, GateInv
<1>5. Leaves(q, g) /\ LogGrows /\ \A r \in Procs \ {q} : pending'[r] = pending[r]
  BY DEF Leaves, LogGrows
<1> QED
  BY <1>2, <1>3, <1>4, <1>5, StepKeeps

\* What the process that records a fill holds, and the row of the fill it holds.
LEMMA HeldFill ==
  ASSUME TypeOK, FillInv, NEW q \in Procs, pc[q] \in FillSteps \ {"insert"}
  PROVE  /\ task[q] \in Task /\ task[q].fill \in DOMAIN fills /\ task[q].fill # 0
         /\ fills[task[q].fill] \in FillRecord /\ Progress(q) /\ Gated(q)
         /\ fills \in Seq(FillRecord) /\ pc \in [Procs -> PCs]
<1>1. /\ task[q] \in Task /\ task[q].fill \in DOMAIN fills /\ fills \in Seq(FillRecord)
      /\ pc \in [Procs -> PCs]
  BY DEF TypeOK, StepsOK
<1>2. fills[task[q].fill] \in FillRecord /\ task[q].fill # 0
  BY <1>1
<1> QED
  BY <1>1, <1>2 DEF FillInv, HoldInv, Holds, GateInv

\* The violations of a fill are a sequence.
LEMMA ViolationsType ==
  ASSUME NEW e
  PROVE  Len(Violations(e)) \in Nat /\ (Violations(e) # <<>> => Len(Violations(e)) > 0)
<1> DEFINE C == {"MANUAL_EXECUTION_ONLY", "ONE_LOT_ONLY", "SIZE_INCREASE_FORBIDDEN",
                 "MARKET_ORDERS_FORBIDDEN", "RED_BLACK_OVERRIDE_FORBIDDEN",
                 "CRITICAL_SYSTEM_ERROR", "RISK_RULE_VIOLATION"}
<1>1. ASSUME NEW a \in Seq(C), NEW b \in Seq(C) PROVE a \o b \in Seq(C)
  BY <1>1, ConcatProperties
<1>2. \A c \in C : <<c>> \in Seq(C)
  OBVIOUS
<1>3. \A c, d \in C : <<c, d>> \in Seq(C)
  OBVIOUS
<1>4. /\ <<>> \in Seq(C)
      /\ \A c \in {"MANUAL_EXECUTION_ONLY", "MARKET_ORDERS_FORBIDDEN",
                   "RED_BLACK_OVERRIDE_FORBIDDEN", "CRITICAL_SYSTEM_ERROR",
                   "RISK_RULE_VIOLATION"} : c \in C
      /\ "ONE_LOT_ONLY" \in C /\ "SIZE_INCREASE_FORBIDDEN" \in C
  OBVIOUS
<1>5. Violations(e) \in Seq(C)
  <2> HIDE DEF C
  <2> QED
    BY <1>1, <1>2, <1>3, <1>4, Zenon DEF Violations
<1>6. \A v \in Seq(C) : v # <<>> => Len(v) > 0
  <2> HIDE DEF C
  <2> QED
    BY EmptySeq
<1> QED
  BY <1>5, <1>6

\* The audit rows of a fill are written in their order.
LEMMA RecordKeeps ==
  ASSUME TypeOK, TypeOK', FillInv, NEW q \in Procs,
         RecordLiveFill(q) \/ RecordSlippage(q) \/ RecordViolation(q) \/ RecordShutdown(q)
           \/ Classify(q)
  PROVE  FillInv'
<1> DEFINE g == task[q].fill
           f == fills[g]
<1>0. pc[q] \in FillSteps \ {"insert"}
  BY DEF RecordLiveFill, RecordSlippage, RecordViolation, RecordShutdown, Classify, FillSteps
<1>1. /\ task[q] \in Task /\ g \in DOMAIN fills /\ f \in FillRecord /\ Progress(q)
      /\ fills \in Seq(FillRecord) /\ pc \in [Procs -> PCs]
  BY <1>0, HeldFill
<1>2. /\ f.violations \in Nat /\ f.activations \in Nat /\ Len(Violations(f.entry)) \in Nat
      /\ f.pilot = task[q].pilot /\ f.at = task[q].at /\ f.entry = task[q].entry
      /\ f.mark = task[q].mark
      /\ Written(f, pc[q], task[q], shutdowns)
  BY <1>1, ViolationsType DEF FillRecord, Progress, Written
<1>3. CASE RecordLiveFill(q)
  <2> DEFINE new == [f EXCEPT !.rows = @ \cup {"LIVE_FILL"}]
  <2>1. /\ pc[q] = "liveFill" /\ pc' = [pc EXCEPT ![q] = "slippage"]
        /\ fills' = [fills EXCEPT ![g] = new]
        /\ UNCHANGED <<now, log, shutdowns, pending, task, crashes>>
    BY <1>3 DEF RecordLiveFill, GoTo, WriteFillRow
  <2>2. fills'[g] = new /\ pc'[q] = "slippage" /\ task'[q] = task[q]
    BY <1>1, <2>1
  <2>f. /\ new.pilot = f.pilot /\ new.at = f.at /\ new.entry = f.entry /\ new.mark = f.mark
        /\ new.rows = f.rows \cup {"LIVE_FILL"} /\ new.violations = f.violations
        /\ new.activations = f.activations
    BY <1>1 DEF FillRecord
  <2>w. Written(new, "slippage", task[q], shutdowns')
    <3> HIDE DEF new, f
    <3> QED
      BY <1>2, <2>1, <2>f DEF Written
  <2>3. Progress(q)'
    <3> HIDE DEF new, f
    <3> QED
      BY <2>1, <2>2, <2>w DEF Progress
  <2> QED
    BY <1>0, <1>1, <2>1, <2>3, FillRowKeeps DEF FillSteps
<1>4. CASE RecordSlippage(q)
  <2> DEFINE new == [f EXCEPT !.rows = @ \cup {"SLIPPAGE"}]
             next == NextViolation(task[q].entry, 0)
  <2>1. /\ pc[q] = "slippage" /\ pc' = [pc EXCEPT ![q] = next]
        /\ fills' = [fills EXCEPT ![g] = new]
        /\ UNCHANGED <<now, log, shutdowns, pending, task, crashes>>
    BY <1>4 DEF RecordSlippage, GoTo, WriteFillRow
  <2>2. fills'[g] = new /\ pc'[q] = next /\ task'[q] = task[q]
    BY <1>1, <2>1
  <2>3. next \in {"violation", "classify"} /\ (next = "violation" <=> 0 < Len(Violations(f.entry)))
    BY <1>2 DEF NextViolation
  <2>f. /\ new.pilot = f.pilot /\ new.at = f.at /\ new.entry = f.entry /\ new.mark = f.mark
        /\ new.rows = f.rows \cup {"SLIPPAGE"} /\ new.violations = f.violations
        /\ new.activations = f.activations
    BY <1>1 DEF FillRecord
  <2>w. Written(new, next, task[q], shutdowns')
    <3> HIDE DEF new, next, f
    <3> QED
      BY <1>2, <2>1, <2>f, <2>3 DEF Written
  <2>4. Progress(q)'
    <3> HIDE DEF new, next, f
    <3> QED
      BY <2>1, <2>2, <2>w DEF Progress
  <2> QED
    BY <1>0, <1>1, <2>1, <2>3, <2>4, FillRowKeeps DEF FillSteps
<1>5. CASE RecordViolation(q)
  <2> DEFINE new == [f EXCEPT !.violations = @ + 1]
  <2>1. /\ pc[q] = "violation" /\ pc' = [pc EXCEPT ![q] = "shutdown"]
        /\ fills' = [fills EXCEPT ![g] = new]
        /\ UNCHANGED <<now, log, shutdowns, pending, task, crashes>>
    BY <1>5 DEF RecordViolation, GoTo
  <2>2. fills'[g] = new /\ pc'[q] = "shutdown" /\ task'[q] = task[q]
    BY <1>1, <2>1
  <2>f. /\ new.pilot = f.pilot /\ new.at = f.at /\ new.entry = f.entry /\ new.mark = f.mark
        /\ new.rows = f.rows /\ new.violations = f.violations + 1
        /\ new.activations = f.activations
    BY <1>1 DEF FillRecord
  <2>w. Written(new, "shutdown", task[q], shutdowns')
    <3> HIDE DEF new, f
    <3> QED
      BY <1>2, <2>1, <2>f DEF Written
  <2>3. Progress(q)'
    <3> HIDE DEF new, f
    <3> QED
      BY <2>1, <2>2, <2>w DEF Progress
  <2> QED
    BY <1>0, <1>1, <2>1, <2>3, FillRowKeeps DEF FillSteps
<1>6. CASE RecordShutdown(q)
  <2> DEFINE new == [f EXCEPT !.activations = @ + 1]
             next == NextViolation(task[q].entry, f.violations)
  <2>1. /\ pc[q] = "shutdown" /\ pc' = [pc EXCEPT ![q] = next]
        /\ fills' = [fills EXCEPT ![g] = new]
        /\ shutdowns' = shutdowns \cup {task[q].at}
        /\ UNCHANGED <<now, log, pending, task, crashes>>
    BY <1>6 DEF RecordShutdown, GoTo
  <2>2. fills'[g] = new /\ pc'[q] = next /\ task'[q] = task[q]
    BY <1>1, <2>1
  <2>3. /\ next \in {"violation", "classify"}
        /\ next = "violation" <=> f.violations < Len(Violations(f.entry))
    BY <1>2 DEF NextViolation
  <2>4. f.violations = f.activations + 1 /\ f.violations <= Len(Violations(f.entry))
    BY <1>2, <2>1 DEF Written
  <2>f. /\ new.pilot = f.pilot /\ new.at = f.at /\ new.entry = f.entry /\ new.mark = f.mark
        /\ new.rows = f.rows /\ new.violations = f.violations
        /\ new.activations = f.activations + 1
    BY <1>1 DEF FillRecord
  <2>w. Written(new, next, task[q], shutdowns')
    <3> HIDE DEF new, next, f
    <3> QED
      BY <1>2, <2>1, <2>f, <2>3, <2>4 DEF Written
  <2>5. Progress(q)'
    <3> HIDE DEF new, next, f
    <3> QED
      BY <2>1, <2>2, <2>w DEF Progress
  <2> QED
    BY <1>0, <1>1, <2>1, <2>3, <2>5, FillRowKeeps DEF FillSteps
<1>7. CASE Classify(q)
  <2> DEFINE new == [f EXCEPT !.rows = @ \cup {"CLASSIFIED"}]
  <2>1. /\ pc[q] = "classify" /\ pc' = [pc EXCEPT ![q] = "sessionFill"]
        /\ fills' = [fills EXCEPT ![g] = new]
        /\ UNCHANGED <<now, log, shutdowns, pending, task, crashes>>
    BY <1>7 DEF Classify, GoTo, WriteFillRow
  <2>2. fills'[g] = new /\ pc'[q] = "sessionFill" /\ task'[q] = task[q]
    BY <1>1, <2>1
  <2>f. /\ new.pilot = f.pilot /\ new.at = f.at /\ new.entry = f.entry /\ new.mark = f.mark
        /\ new.rows = f.rows \cup {"CLASSIFIED"} /\ new.violations = f.violations
        /\ new.activations = f.activations
    BY <1>1 DEF FillRecord
  <2>w. Written(new, "sessionFill", task[q], shutdowns')
    <3> HIDE DEF new, f
    <3> QED
      BY <1>2, <2>1, <2>f DEF Written
  <2>3. Progress(q)'
    <3> HIDE DEF new, f
    <3> QED
      BY <2>1, <2>2, <2>w DEF Progress
  <2> QED
    BY <1>0, <1>1, <2>1, <2>3, FillRowKeeps DEF FillSteps
<1> QED
  BY <1>3, <1>4, <1>5, <1>6, <1>7

\* Process q is through with its fill g, or holds none: g is 0.
Ends(q, g) ==
  /\ g = task[q].fill
  /\ pc' = [pc EXCEPT ![q] = "idle"]
  /\ task' = [task EXCEPT ![q] = NoTask]
  /\ \A r \in Procs \ {q} : pending'[r] = pending[r]
  /\ shutdowns' = shutdowns
  /\ DOMAIN fills' = DOMAIN fills
  /\ \A i \in DOMAIN fills \ {g} : fills'[i] = fills[i]

\* A process that is through lets go of a fill that is complete, and whose session was
\* stopped if it had to be.
LEMMA DoneKeeps ==
  ASSUME TypeOK, TypeOK', FillInv, NEW q \in Procs, NEW g, Ends(q, g), Leaves(q, g), LogGrows
  PROVE  FillInv'
<1>1. /\ pc \in [Procs -> PCs] /\ task \in [Procs -> Task \cup {NoTask}] /\ 0 \notin DOMAIN fills
      /\ g \in DOMAIN fills \cup {0}
  BY DEF TypeOK, FillInv, HoldInv, Holds, Ends
<1>2. /\ pc'[q] = "idle" /\ task'[q].fill = 0
      /\ \A r \in Procs \ {q} : pc'[r] = pc[r] /\ task'[r] = task[r] /\ pending'[r] = pending[r]
  BY <1>1 DEF NoTask, Ends
<1>3. Touches(q, g)
  BY <1>1, <1>2 DEF Touches, FillInv, HoldInv, Apart, Ends
<1>4. Holds(q)' /\ Gated(q)'
  BY <1>2 DEF Holds, Gated, FillSteps
<1> QED
  BY <1>2, <1>3, <1>4, StepKeeps

\* A complete fill has all its rows.
LEMMA WrittenComplete ==
  ASSUME NEW q \in Procs, Progress(q), pc[q] \in {"stop", "commit"},
         fills[task[q].fill].activations \in Nat
  PROVE  Complete(task[q].fill)
<1>1. Len(Violations(fills[task[q].fill].entry)) \in Nat
  BY ViolationsType
<1> QED
  BY <1>1 DEF Progress, Written, Complete

\* The row of a command is inserted; if it stops the session of a fill, the fill is done.
LEMMA CommitKeeps ==
  ASSUME TypeOK, TypeOK', FillInv, NEW q \in Procs, CommitRow(q)
  PROVE  FillInv'
<1>g. PICK g, r : g = task[q].fill /\ r = pending[q]
  OBVIOUS
<1>1. /\ pc[q] = "commit" /\ log' = Append(log, r) /\ r \in Row /\ log \in Seq(Row)
      /\ pc' = [pc EXCEPT ![q] = "idle"] /\ task' = [task EXCEPT ![q] = NoTask]
      /\ pending' = [pending EXCEPT ![q] = NoRow]
      /\ UNCHANGED <<now, fills, shutdowns, crashes>>
      /\ fills \in Seq(FillRecord)
  BY <1>g DEF CommitRow, TypeOK, StepsOK
<1>2. g \in DOMAIN fills \cup {0} /\ Gated(q) /\ (g # 0 => Progress(q))
  BY <1>g DEF FillInv, HoldInv, Holds, GateInv
<1>3. LogGrows
  BY <1>1 DEF LogGrows
<1>4. ASSUME g # 0
      PROVE  Complete(g)' /\ StoppedSince(g)'
  <2>1. fills[g] \in FillRecord
    BY <1>1, <1>2, <1>4
  <2>2. Complete(g)
    BY <1>g, <1>1, <1>2, <1>4, <2>1, WrittenComplete DEF FillRecord
  <2>3. /\ r.kind = "STOPPED" /\ r.pilot = task[q].pilot /\ task[q].mark <= Len(log)
        /\ fills[g].pilot = task[q].pilot /\ fills[g].mark = task[q].mark
        /\ task[q].mark \in Nat
    BY <1>g, <1>1, <1>2, <1>4 DEF Gated, Progress, Written, Task
  <2>4. Len(log') = Len(log) + 1 /\ log'[Len(log) + 1] = r /\ Len(log) \in Nat
        /\ Len(log) + 1 \in DOMAIN log'
    BY <1>1, AppendProperties
  <2>5. StoppedSince(g)'
    <3>1. fills'[g].pilot = fills[g].pilot /\ fills'[g].mark = fills[g].mark
      BY <1>1
    <3>2. Len(log) + 1 \in RowsOf(log', fills'[g].pilot, {"STOPPED"})
      BY <2>3, <2>4, <3>1 DEF RowsOf
    <3>3. Len(log) + 1 > fills'[g].mark
      BY <2>3, <2>4, <3>1
    <3> QED
      BY <3>2, <3>3 DEF StoppedSince
  <2> QED
    BY <1>1, <2>2, <2>5 DEF Complete
<1>5. Leaves(q, g)
  BY <1>1, <1>4, FillIds DEF Leaves
<1>6. Ends(q, g)
  BY <1>g, <1>1 DEF Ends, TypeOK
<1> QED
  BY <1>3, <1>5, <1>6, DoneKeeps

\* The fill is booked on its session; without a stop reason the command is over.
LEMMA SessionFillKeeps ==
  ASSUME TypeOK, TypeOK', FillInv, NEW q \in Procs, RecordSessionFill(q)
  PROVE  FillInv'
<1>g. PICK g, f : g = task[q].fill /\ f = fills[g]
  OBVIOUS
<1> DEFINE new == [f EXCEPT !.rows = @ \cup {"SESSION_FILL"}]
<1>0. pc[q] = "sessionFill" /\ pc[q] \in FillSteps \ {"insert"}
  BY DEF RecordSessionFill, FillSteps
<1>1. /\ task[q] \in Task /\ g \in DOMAIN fills /\ f \in FillRecord /\ Progress(q)
      /\ fills \in Seq(FillRecord) /\ pc \in [Procs -> PCs] /\ g # 0
  BY <1>g, <1>0, HeldFill
<1>2. /\ f.violations \in Nat /\ f.activations \in Nat
      /\ Written(f, "sessionFill", task[q], shutdowns)
  BY <1>g, <1>0, <1>1 DEF FillRecord, Progress
<1>3. /\ fills' = [fills EXCEPT ![g] = new] /\ fills'[g] = new
      /\ UNCHANGED <<now, log, shutdowns, pending, crashes>> /\ DOMAIN fills' = DOMAIN fills
      /\ \A i \in DOMAIN fills \ {g} : fills'[i] = fills[i]
  BY <1>g, <1>1 DEF RecordSessionFill
<1>f. /\ new.pilot = f.pilot /\ new.at = f.at /\ new.entry = f.entry /\ new.mark = f.mark
      /\ new.rows = f.rows \cup {"SESSION_FILL"} /\ new.violations = f.violations
      /\ new.activations = f.activations
  BY <1>1 DEF FillRecord
<1>w. /\ Written(new, "stop", task[q], shutdowns)
      /\ new.rows = FillRowKinds /\ new.violations = Len(Violations(new.entry))
      /\ new.activations = Len(Violations(new.entry))
      /\ new.activations > 0 => new.at \in shutdowns
  <2> HIDE DEF new
  <2> QED
    BY <1>2, <1>f DEF Written, FillRowKinds
<1>4. CASE StopsSession(task[q].entry)
  <2>1. pc' = [pc EXCEPT ![q] = "stop"] /\ task' = task /\ pc'[q] = "stop"
    BY <1>1, <1>4 DEF RecordSessionFill, GoTo
  <2>2. Progress(q)'
    <3> HIDE DEF new
    <3> QED
      BY <1>g, <1>3, <1>w, <2>1 DEF Progress
  <2>3. UNCHANGED <<log, pending, task, crashes>> /\ shutdowns \subseteq shutdowns'
    BY <1>3, <2>1
  <2> HIDE DEF new
  <2> QED
    BY <1>g, <1>0, <1>1, <1>3, <2>1, <2>2, <2>3, FillRowKeeps DEF FillSteps
<1>5. CASE ~StopsSession(task[q].entry)
  <2>1. pc' = [pc EXCEPT ![q] = "idle"] /\ task' = [task EXCEPT ![q] = NoTask]
    BY <1>1, <1>5 DEF RecordSessionFill, GoTo
  <2>2. Complete(g)'
    <3> HIDE DEF new
    <3> QED
      BY <1>3, <1>w DEF Complete
  <2>3. ~StopsSession(fills'[g].entry)
    BY <1>2, <1>3, <1>5, <1>f DEF Written
  <2>4. LogGrows
    BY <1>3 DEF LogGrows
  <2>5. Leaves(q, g)
    BY <1>3, <2>2, <2>3 DEF Leaves
  <2>6. Ends(q, g)
    BY <1>g, <1>1, <1>3, <2>1 DEF Ends
  <2> QED
    BY <2>4, <2>5, <2>6, DoneKeeps
<1> QED
  BY <1>4, <1>5

\* The stop of a session that is no longer active was done by another command.
LEMMA StopKeeps ==
  ASSUME TypeOK, TypeOK', FillInv, NEW q \in Procs, StopAfterFill(q)
  PROVE  FillInv'
<1>g. PICK g, t : t = task[q] /\ g = t.fill
  OBVIOUS
<1>0. pc[q] = "stop" /\ pc[q] \in FillSteps \ {"insert"}
  BY DEF StopAfterFill, FillSteps
<1>1. /\ t \in Task /\ g \in DOMAIN fills /\ fills[g] \in FillRecord /\ Progress(q) /\ Gated(q)
      /\ fills \in Seq(FillRecord) /\ pc \in [Procs -> PCs] /\ g # 0
      /\ pending \in [Procs -> Row \cup {NoRow}] /\ 0 \notin DOMAIN fills
  BY <1>g, <1>0, HeldFill DEF TypeOK
<1>2. UNCHANGED <<now, log, fills, shutdowns, crashes>> /\ LogGrows
  BY DEF StopAfterFill, LogGrows
<1>3. CASE Active(log, t.pilot)
  <2>1. /\ pc' = [pc EXCEPT ![q] = "commit"] /\ task' = task
        /\ pending' = [pending EXCEPT ![q] =
             [MkRow("STOPPED", t.pilot, t.at) EXCEPT !.reason = StopReason(t.entry)]]
    BY <1>g, <1>3 DEF StopAfterFill, GoTo
  <2>2. pending'[q].kind = "STOPPED" /\ pending'[q].pilot = t.pilot
    BY <1>1, <2>1 DEF MkRow
  <2>3. Touches(q, g)
    BY <1>g, <1>1, <1>2, <2>1 DEF Touches, FillInv, HoldInv, Apart
  <2>4. Progress(q)'
    BY <1>0, <1>1, <1>2, <2>1 DEF Progress, Written
  <2>5. Holds(q)'
    BY <1>g, <1>1, <1>2, <2>1, <2>4 DEF Holds
  <2>6. Gated(q)'
    BY <1>g, <1>0, <1>1, <1>2, <2>1, <2>2 DEF Gated, FillSteps
  <2>7. Leaves(q, g) /\ \A r \in Procs \ {q} : pending'[r] = pending[r]
    BY <1>g, <1>1, <1>2, <2>1 DEF Leaves
  <2> QED
    BY <1>2, <2>3, <2>5, <2>6, <2>7, StepKeeps
<1>4. CASE ~Active(log, t.pilot)
  <2>1. /\ pc' = [pc EXCEPT ![q] = "idle"] /\ task' = [task EXCEPT ![q] = NoTask]
        /\ pending' = pending
    BY <1>g, <1>4 DEF StopAfterFill, GoTo
  <2>2. Complete(g)
    BY <1>g, <1>0, <1>1, WrittenComplete DEF FillRecord
  <2>3. StoppedAfter(t.pilot, t.mark) /\ fills[g].pilot = t.pilot /\ fills[g].mark = t.mark
    BY <1>g, <1>0, <1>1, <1>4 DEF Gated, Progress, Written
  <2>4. Complete(g)'
    BY <1>2, <2>2 DEF Complete
  <2>5. StoppedSince(g)'
    BY <1>2, <2>3 DEF StoppedSince, StoppedAfter, RowsOf
  <2>6. Leaves(q, g)
    BY <1>2, <2>4, <2>5 DEF Leaves
  <2>7. Ends(q, g)
    BY <1>g, <1>1, <1>2, <2>1 DEF Ends
  <2> QED
    BY <1>2, <2>6, <2>7, DoneKeeps
<1> QED
  BY <1>3, <1>4

\* A process that is killed, or whose fill the database refuses.
LEMMA AbortKeeps ==
  ASSUME TypeOK, TypeOK', FillInv, NEW q \in Procs, Crash(q) \/ RejectFill(q)
  PROVE  FillInv'
<1>g. PICK g : g = task[q].fill
  OBVIOUS
<1>1. /\ g \in DOMAIN fills \cup {0} /\ (RejectFill(q) => g = 0) /\ 0 \notin DOMAIN fills
  BY <1>g DEF FillInv, HoldInv, Holds, RejectFill, TypeOK
<1>2. /\ pc' = [pc EXCEPT ![q] = "idle"] /\ task' = [task EXCEPT ![q] = NoTask]
      /\ pending' \in {pending, [pending EXCEPT ![q] = NoRow]}
      /\ UNCHANGED <<log, fills, shutdowns>>
      /\ \/ crashes' = crashes + 1
         \/ crashes' = crashes /\ g = 0
  BY <1>1 DEF Crash, RejectFill, GoTo
<1>3. Leaves(q, g) /\ LogGrows
  BY <1>1, <1>2 DEF Leaves, LogGrows
<1>4. Ends(q, g)
  BY <1>g, <1>2 DEF Ends, TypeOK
<1> QED
  BY <1>3, <1>4, DoneKeeps

\* Every step of the system keeps the invariant.
LEMMA NextKeepsFills == TypeOK /\ TypeOK' /\ FillInv /\ [Next]_vars => FillInv'
<1> SUFFICES ASSUME TypeOK, TypeOK', FillInv, [Next]_vars PROVE FillInv'
  OBVIOUS
<1>1. ASSUME NEW q \in Procs, NEW p, NEW v, NEW at,
             Start(q, p, v, at) \/ Resume(q, p, at) \/ (\E reason : Stop(q, p, at, reason))
      PROVE  FillInv'
  BY <1>1, DecideKeeps DEF Start, Resume, Stop
<1>2. ASSUME NEW q \in Procs, NEW p \in Pilots, NEW at \in Stamps, ResetReview(q, p, at)
      PROVE  FillInv'
  <2>1. MkRow("RESET_REVIEW", p, at) \in Row
    BY <1>2, StampsType DEF MkRow, Row, RowKinds, TypeOK
  <2>2. LogGrows /\ UNCHANGED <<fills, shutdowns, pc, pending, task, crashes>>
    BY <1>2, <2>1 DEF ResetReview, LogGrows
  <2> QED
    BY <2>2, IdleKeeps
<1>3. ASSUME NEW q \in Procs, NEW p, NEW v, NEW at, NEW e, FillGate(q, p, v, at, e)
      PROVE  FillInv'
  BY <1>3, FillGateKeeps
<1>4. ASSUME NEW q \in Procs, Continue(q) PROVE FillInv'
  BY <1>4, CommitKeeps, InsertFillKeeps, AbortKeeps, RecordKeeps, SessionFillKeeps, StopKeeps
     DEF Continue
<1>5. ASSUME NEW q \in Procs, Crash(q) PROVE FillInv'
  BY <1>5, AbortKeeps
<1>6. ASSUME Tick \/ UNCHANGED vars PROVE FillInv'
  BY <1>6, IdleKeeps DEF Tick, vars, LogGrows
<1> QED
  BY <1>1, <1>2, <1>3, <1>4, <1>5, <1>6 DEF Next, Command

\* Initially nothing is recorded, and nobody records.
LEMMA InitFills == Init => FillInv
<1> SUFFICES ASSUME Init PROVE FillInv
  OBVIOUS
<1>1. \A q \in Procs : task[q].fill = 0 /\ pc[q] = "idle"
  BY DEF Init, NoTask
<1>2. HoldInv /\ GateInv
  BY <1>1 DEF HoldInv, Apart, Holds, GateInv, Gated, FillSteps
<1>3. TornFills = {} /\ MissedStops = {} /\ crashes = 0
  BY DEF Init, TornFills, MissedStops
<1> QED
  BY <1>2, <1>3, FS_EmptySet DEF FillInv, TornInv, MissedInv

\* The audit rows of a fill are commits of their own, but only a kill leaves some of
\* them out, one fill each, however many commands run and whatever they do.
THEOREM TornFillsBound == Spec => []OneTornFillPerCrash
<1>1. FillInv => OneTornFillPerCrash
  BY DEF FillInv, TornInv, OneTornFillPerCrash
<1> QED
  BY <1>1, TypeCorrect, InitFills, NextKeepsFills, PTL DEF Spec

\* The stop after a hard violation reads the sessions again and raises when another
\* command was faster; only a kill leaves the session of such a fill without a stop row
\* inserted after its gate check.
THEOREM MissedStopsBound == Spec => []HardFillLeavesStopRow
<1>1. FillInv => HardFillLeavesStopRow
  BY DEF FillInv, MissedInv, HardFillLeavesStopRow
<1> QED
  BY <1>1, TypeCorrect, InitFills, NextKeepsFills, PTL DEF Spec

-----------------------------------------------------------------------------
(* The review point *)

\* The processes whose trade on p the gate let pass and that have not counted it yet.
Holders(p) ==
  {q \in Procs : /\ pc[q] \in FillSteps \ {"stop"}
                 /\ task[q].pilot = p /\ ~task[q].entry.dryRun}

\* Counted trades and those let pass: the gate saw less than the review point, and then
\* no more commands than there are processes.
ReviewInv ==
  \A p \in Pilots :
    /\ IsFiniteSet(CountedFills(p))
    /\ Cardinality(CountedFills(p)) + Cardinality(Holders(p))
         <= ReviewMin - 1 + Cardinality(Procs)

\* The processes are finitely many, so are the holders.
LEMMA HoldersFinite ==
  ASSUME NEW p
  PROVE  /\ IsFiniteSet(Holders(p)) /\ Cardinality(Holders(p)) \in Nat
         /\ Cardinality(Holders(p)) <= Cardinality(Procs) /\ Cardinality(Procs) \in Nat
BY ProcsAssumption, FS_Subset, FS_CardinalityType DEF Holders

\* A step that counts no trade and lets none pass keeps the bound.
LEMMA NothingCounted ==
  ASSUME ReviewInv, NEW p \in Pilots,
         CountedFills(p)' \subseteq CountedFills(p), Holders(p)' \subseteq Holders(p)
  PROVE  /\ IsFiniteSet(CountedFills(p)')
         /\ Cardinality(CountedFills(p)') + Cardinality(Holders(p)')
              <= ReviewMin - 1 + Cardinality(Procs)
<1>1. /\ IsFiniteSet(CountedFills(p)') /\ Cardinality(CountedFills(p)') \in Nat
      /\ Cardinality(CountedFills(p)) \in Nat
      /\ Cardinality(CountedFills(p)') <= Cardinality(CountedFills(p))
  BY FS_Subset, FS_CardinalityType DEF ReviewInv
<1>2. /\ Cardinality(Holders(p)') \in Nat /\ Cardinality(Holders(p)) \in Nat
      /\ Cardinality(Holders(p)') <= Cardinality(Holders(p))
  BY HoldersFinite, FS_Subset, FS_CardinalityType
<1>3. Cardinality(CountedFills(p)) + Cardinality(Holders(p)) <= ReviewMin - 1 + Cardinality(Procs)
  BY DEF ReviewInv
<1> QED
  BY <1>1, <1>2, <1>3, HoldersFinite, ReviewAssumption

\* A fill is let pass while the trades counted on its session are below the review point.
LEMMA GateBelowReview ==
  ASSUME NEW p, NEW v, NEW at, GateReason(p, v, at) = "PILOT_SESSION_ACTIVE",
         IsFiniteSet(CountedFills(TheActive(log)))
  PROVE  Cardinality(CountedFills(TheActive(log))) <= ReviewMin - 1
<1>1. ~(TradeCount(TheActive(log)) >= ReviewMin)
  BY DEF GateReason, NeedsReview
<1>2. Cardinality(CountedFills(TheActive(log))) \in Nat
  BY FS_CardinalityType
<1> QED
  BY <1>1, <1>2, ReviewAssumption DEF TradeCount

\* Every step of the system keeps the bound.
LEMMA NextKeepsReview == TypeOK /\ FillInv /\ ReviewInv /\ [Next]_vars => ReviewInv'
<1> SUFFICES ASSUME TypeOK, FillInv, ReviewInv, [Next]_vars, NEW s \in Pilots
             PROVE  /\ IsFiniteSet(CountedFills(s)')
                    /\ Cardinality(CountedFills(s)') + Cardinality(Holders(s)')
                         <= ReviewMin - 1 + Cardinality(Procs)
  BY DEF ReviewInv
<1> DEFINE Bound == /\ IsFiniteSet(CountedFills(s)')
                    /\ Cardinality(CountedFills(s)') + Cardinality(Holders(s)')
                         <= ReviewMin - 1 + Cardinality(Procs)
<1>t. /\ pc \in [Procs -> PCs] /\ task \in [Procs -> Task \cup {NoTask}]
      /\ fills \in Seq(FillRecord)
  BY DEF TypeOK
<1>q. ASSUME fills' = fills, Holders(s)' \subseteq Holders(s) PROVE Bound
  <2>1. CountedFills(s)' = CountedFills(s)
    BY <1>q DEF CountedFills
  <2> QED
    BY <1>q, <2>1, NothingCounted
<1>1. ASSUME NEW q \in Procs, NEW row, Decide(q, row), pc[q] = "idle" PROVE Bound
  <2>1. Holders(s)' \subseteq Holders(s)
    BY <1>1, <1>t DEF Decide, Holders, FillSteps
  <2> QED
    BY <1>1, <1>q, <2>1 DEF Decide
<1>2. ASSUME NEW q \in Procs, NEW p, NEW v, NEW at, NEW e, FillGate(q, p, v, at, e) PROVE Bound
  <2>1. PICK a : a = TheActive(log)
    OBVIOUS
  <2>2. /\ fills' = fills /\ CountedFills(s)' = CountedFills(s)
        /\ \A r \in Procs \ {q} : pc'[r] = pc[r] /\ task'[r] = task[r]
        /\ task'[q].pilot = a
    BY <1>2, <1>t, <2>1 DEF FillGate, CountedFills, GoTo
  <2>3. CASE s = a
    <3>1. IsFiniteSet(CountedFills(s)) /\ Cardinality(CountedFills(s)) \in Nat
      BY FS_CardinalityType DEF ReviewInv
    <3>2. Cardinality(CountedFills(s)) <= ReviewMin - 1
      BY <1>2, <2>1, <2>3, <3>1, GateBelowReview DEF FillGate
    <3>3. IsFiniteSet(Holders(s)') /\ Cardinality(Holders(s)') <= Cardinality(Procs)
          /\ Cardinality(Holders(s)') \in Nat /\ Cardinality(Procs) \in Nat
      <4>1. Holders(s)' \subseteq Procs
        BY DEF Holders
      <4> QED
        BY <4>1, ProcsAssumption, FS_Subset, FS_CardinalityType
    <3> QED
      BY <2>2, <3>1, <3>2, <3>3, ReviewAssumption
  <2>4. CASE s # a
    <3>1. Holders(s)' \subseteq Holders(s)
      BY <2>2, <2>4 DEF Holders
    <3> QED
      BY <1>q, <2>2, <3>1
  <2> QED
    BY <2>3, <2>4
<1>3. ASSUME NEW q \in Procs, pc' = [pc EXCEPT ![q] = "idle"] \/ pc' = [pc EXCEPT ![q] = "commit"],
             task' \in {task, [task EXCEPT ![q] = NoTask]}, fills' = fills
      PROVE  Bound
  <2>1. \A r \in Procs \ {q} : pc'[r] = pc[r] /\ task'[r] = task[r]
    BY <1>3, <1>t
  <2>2. pc'[q] \notin FillSteps
    BY <1>3, <1>t DEF FillSteps
  <2>3. Holders(s)' \subseteq Holders(s)
    BY <2>1, <2>2 DEF Holders
  <2> QED
    BY <1>3, <1>q, <2>3
<1>4. ASSUME NEW q \in Procs, InsertFill(q) PROVE Bound
  <2> DEFINE f == [pilot |-> task[q].pilot, at |-> task[q].at, entry |-> task[q].entry,
                   rows |-> {}, violations |-> 0, activations |-> 0, mark |-> task[q].mark]
  <2>1. task[q] \in Task /\ pc[q] = "insert" /\ fills' = Append(fills, f)
    BY <1>4 DEF InsertFill, TypeOK, StepsOK, FillSteps
  <2>2. CountedFills(s)' \subseteq CountedFills(s)
    <3>1. /\ \A i \in DOMAIN fills : fills'[i] = fills[i] /\ i \in DOMAIN fills'
          /\ \A i \in DOMAIN fills' \ DOMAIN fills : fills'[i].rows = {}
      BY <1>t, <2>1
    <3> QED
      BY <3>1 DEF CountedFills
  <2>3. /\ task'[q].pilot = task[q].pilot /\ task'[q].entry = task[q].entry
        /\ \A r \in Procs \ {q} : pc'[r] = pc[r] /\ task'[r] = task[r]
    BY <1>4, <1>t, <2>1 DEF InsertFill, GoTo, Task
  <2>4. Holders(s)' \subseteq Holders(s)
    BY <2>1, <2>3 DEF Holders, FillSteps
  <2> QED
    BY <2>2, <2>4, NothingCounted
<1>5. ASSUME NEW q \in Procs,
             RecordLiveFill(q) \/ RecordSlippage(q) \/ RecordViolation(q) \/ RecordShutdown(q)
               \/ Classify(q)
      PROVE  Bound
  <2>1. pc[q] \in FillSteps \ {"insert", "stop"} /\ task' = task
        /\ \A r \in Procs \ {q} : pc'[r] = pc[r]
    BY <1>5, <1>t
       DEF RecordLiveFill, RecordSlippage, RecordViolation, RecordShutdown, Classify,
           WriteFillRow, GoTo, FillSteps
  <2>2. PICK g : g = task[q].fill /\ g \in DOMAIN fills /\ fills[g] \in FillRecord
    BY <2>1, HeldFill
  <2>r. \/ \E kind \in FillRowKinds \ {"SESSION_FILL"} :
             fills' = [fills EXCEPT ![g].rows = @ \cup {kind}]
        \/ fills' = [fills EXCEPT ![g].violations = @ + 1]
        \/ fills' = [fills EXCEPT ![g].activations = @ + 1]
    BY <1>5, <2>2
       DEF RecordLiveFill, RecordSlippage, RecordViolation, RecordShutdown, Classify,
           WriteFillRow, FillRowKinds
  <2>3. /\ DOMAIN fills' = DOMAIN fills /\ \A i \in DOMAIN fills \ {g} : fills'[i] = fills[i]
        /\ fills'[g].pilot = fills[g].pilot /\ fills'[g].entry = fills[g].entry
        /\ fills'[g].rows \subseteq fills[g].rows \cup (FillRowKinds \ {"SESSION_FILL"})
    <3>1. ASSUME NEW new, fills' = [fills EXCEPT ![g] = new],
                 new.pilot = fills[g].pilot, new.entry = fills[g].entry,
                 new.rows \subseteq fills[g].rows \cup (FillRowKinds \ {"SESSION_FILL"})
          PROVE  /\ DOMAIN fills' = DOMAIN fills
                 /\ \A i \in DOMAIN fills \ {g} : fills'[i] = fills[i]
                 /\ fills'[g].pilot = fills[g].pilot /\ fills'[g].entry = fills[g].entry
                 /\ fills'[g].rows
                      \subseteq fills[g].rows \cup (FillRowKinds \ {"SESSION_FILL"})
      BY <1>t, <2>2, <3>1
    <3>2. ASSUME NEW kind \in FillRowKinds \ {"SESSION_FILL"}
          PROVE  LET new == [fills[g] EXCEPT !.rows = @ \cup {kind}] IN
                 /\ new.pilot = fills[g].pilot /\ new.entry = fills[g].entry
                 /\ new.rows \subseteq fills[g].rows \cup (FillRowKinds \ {"SESSION_FILL"})
      BY <2>2, <3>2 DEF FillRecord
    <3>3. /\ LET new == [fills[g] EXCEPT !.violations = @ + 1] IN
             new.pilot = fills[g].pilot /\ new.entry = fills[g].entry /\ new.rows = fills[g].rows
          /\ LET new == [fills[g] EXCEPT !.activations = @ + 1] IN
             new.pilot = fills[g].pilot /\ new.entry = fills[g].entry /\ new.rows = fills[g].rows
      BY <2>2 DEF FillRecord
    <3>4. CASE \E kind \in FillRowKinds \ {"SESSION_FILL"} :
                 fills' = [fills EXCEPT ![g].rows = @ \cup {kind}]
      BY <3>1, <3>2, <3>4
    <3>5. CASE fills' = [fills EXCEPT ![g].violations = @ + 1]
      BY <3>1, <3>3, <3>5
    <3>6. CASE fills' = [fills EXCEPT ![g].activations = @ + 1]
      BY <3>1, <3>3, <3>6
    <3> QED
      BY <2>r, <3>4, <3>5, <3>6
  <2>4. CountedFills(s)' \subseteq CountedFills(s)
    BY <2>2, <2>3 DEF CountedFills
  <2>5. Holders(s)' \subseteq Holders(s)
    BY <2>1 DEF Holders
  <2> QED
    BY <2>4, <2>5, NothingCounted
<1>6. ASSUME NEW q \in Procs, RecordSessionFill(q) PROVE Bound
  <2>0. pc[q] = "sessionFill" /\ pc[q] \in FillSteps \ {"insert", "stop"}
    BY <1>6 DEF RecordSessionFill, FillSteps
  <2>1. PICK g : /\ g = task[q].fill /\ g \in DOMAIN fills /\ fills[g] \in FillRecord
                 /\ Progress(q)
    BY <2>0, HeldFill
  <2>2. /\ fills[g].pilot = task[q].pilot /\ fills[g].entry = task[q].entry
        /\ "SESSION_FILL" \notin fills[g].rows
    BY <2>0, <2>1 DEF Progress, Written
  <2>3. /\ DOMAIN fills' = DOMAIN fills /\ \A i \in DOMAIN fills \ {g} : fills'[i] = fills[i]
        /\ fills'[g].pilot = fills[g].pilot /\ fills'[g].entry = fills[g].entry
    BY <1>6, <1>t, <2>1 DEF RecordSessionFill, FillRecord
  <2>4. /\ pc'[q] \in {"stop", "idle"}
        /\ \A r \in Procs \ {q} : pc'[r] = pc[r] /\ task'[r] = task[r]
    BY <1>6, <1>t DEF RecordSessionFill, GoTo
  <2>5. Holders(s)' \subseteq Holders(s) \ {q}
    BY <2>4 DEF Holders, FillSteps
  <2>6. CASE s = task[q].pilot /\ ~task[q].entry.dryRun
    <3>1. q \in Holders(s)
      BY <2>0, <2>6 DEF Holders
    <3>2. CountedFills(s)' \subseteq CountedFills(s) \cup {g}
      BY <2>3 DEF CountedFills
    <3>3. /\ IsFiniteSet(CountedFills(s)) /\ Cardinality(CountedFills(s)) \in Nat
          /\ Cardinality(CountedFills(s)) + Cardinality(Holders(s))
               <= ReviewMin - 1 + Cardinality(Procs)
      BY FS_CardinalityType DEF ReviewInv
    <3>4. /\ IsFiniteSet(CountedFills(s) \cup {g})
          /\ Cardinality(CountedFills(s) \cup {g}) <= Cardinality(CountedFills(s)) + 1
          /\ Cardinality(CountedFills(s) \cup {g}) \in Nat
      <4>1. /\ IsFiniteSet(CountedFills(s) \cup {g})
            /\ Cardinality(CountedFills(s) \cup {g}) =
                 IF g \in CountedFills(s) THEN Cardinality(CountedFills(s))
                 ELSE Cardinality(CountedFills(s)) + 1
        BY <3>3, FS_AddElement
      <4> QED
        BY <3>3, <4>1, FS_CardinalityType
    <3>5. /\ IsFiniteSet(CountedFills(s)') /\ Cardinality(CountedFills(s)') \in Nat
          /\ Cardinality(CountedFills(s)') <= Cardinality(CountedFills(s) \cup {g})
      BY <3>2, <3>4, FS_Subset, FS_CardinalityType
    <3>6. /\ IsFiniteSet(Holders(s) \ {q}) /\ Cardinality(Holders(s)) \in Nat
          /\ Cardinality(Holders(s) \ {q}) = Cardinality(Holders(s)) - 1
      BY <3>1, HoldersFinite, FS_RemoveElement
    <3>7. /\ Cardinality(Holders(s)') \in Nat
          /\ Cardinality(Holders(s)') <= Cardinality(Holders(s)) - 1
      BY <2>5, <3>6, FS_Subset, FS_CardinalityType
    <3> QED
      BY <3>3, <3>4, <3>5, <3>6, <3>7, HoldersFinite, ReviewAssumption
  <2>7. CASE ~(s = task[q].pilot /\ ~task[q].entry.dryRun)
    <3>1. CountedFills(s)' \subseteq CountedFills(s)
      BY <2>2, <2>3, <2>7 DEF CountedFills
    <3> QED
      BY <2>5, <3>1, NothingCounted
  <2> QED
    BY <2>6, <2>7
<1>7. ASSUME UNCHANGED <<fills, pc, task>> PROVE Bound
  BY <1>7, <1>q DEF Holders
<1>8. ASSUME NEW q \in Procs, Continue(q) PROVE Bound
  BY <1>3, <1>4, <1>5, <1>6, <1>8
     DEF Continue, CommitRow, RejectFill, StopAfterFill, GoTo
<1> QED
  BY <1>1, <1>2, <1>3, <1>7, <1>8
     DEF Next, Command, Start, Stop, Resume, ResetReview, Crash, Tick, vars

\* The elements of two finite sets together.
LEMMA UnionBound ==
  ASSUME NEW S, NEW T, IsFiniteSet(S), IsFiniteSet(T)
  PROVE  /\ IsFiniteSet(S \cup T) /\ Cardinality(S \cup T) \in Nat
         /\ Cardinality(S \cup T) <= Cardinality(S) + Cardinality(T)
<1>1. IsFiniteSet(S \cap T) /\ Cardinality(S \cap T) \in Nat
  BY FS_Subset, FS_CardinalityType
<1>2. /\ IsFiniteSet(S \cup T) /\ Cardinality(S) \in Nat /\ Cardinality(T) \in Nat
      /\ Cardinality(S \cup T) = Cardinality(S) + Cardinality(T) - Cardinality(S \cap T)
  BY FS_Union, FS_CardinalityType
<1> QED
  BY <1>1, <1>2, FS_CardinalityType

\* Initially no trade is counted and no process holds one.
LEMMA InitReview == Init => ReviewInv
<1> SUFFICES ASSUME Init, NEW p \in Pilots
             PROVE  /\ IsFiniteSet(CountedFills(p))
                    /\ Cardinality(CountedFills(p)) + Cardinality(Holders(p))
                         <= ReviewMin - 1 + Cardinality(Procs)
  BY DEF ReviewInv
<1>1. CountedFills(p) = {} /\ Holders(p) = {}
  BY DEF Init, CountedFills, Holders, FillSteps
<1> QED
  BY <1>1, HoldersFinite, FS_EmptySet, ReviewAssumption

\* A trade is counted, held by a process the gate let pass, or torn.
LEMMA TradesAccounted ==
  ASSUME TypeOK, FillInv, ReviewInv, NEW p \in Pilots
  PROVE  Cardinality(TradesOf(p)) <= ReviewMin - 1 + Cardinality(Procs) + crashes
<1> DEFINE C == CountedFills(p)
           H == Holders(p)
           U == {task[q].fill : q \in H}
<1>1. TradesOf(p) \subseteq (C \cup U) \cup TornFills
  <2> SUFFICES ASSUME NEW f \in TradesOf(p), f \notin C, f \notin TornFills PROVE f \in U
    OBVIOUS
  <2>1. /\ f \in DOMAIN fills /\ fills[f].pilot = p /\ ~fills[f].entry.dryRun
        /\ "SESSION_FILL" \notin fills[f].rows /\ f # 0
    BY DEF TradesOf, CountedFills, TypeOK
  <2>2. ~Complete(f)
    BY <2>1 DEF Complete, FillRowKinds
  <2>3. PICK q \in Procs : task[q].fill = f
    BY <2>1, <2>2 DEF TornFills, InFlight
  <2>4. Holds(q) /\ Written(fills[f], pc[q], task[q], shutdowns) /\ pc[q] \in PCs
    BY <2>1, <2>3 DEF FillInv, HoldInv, Holds, Progress, TypeOK
  <2>5. pc[q] \in FillSteps \ {"stop"} /\ task[q].pilot = p /\ ~task[q].entry.dryRun
    BY <2>1, <2>3, <2>4 DEF Holds, Written, FillRowKinds, PCs
  <2> QED
    BY <2>3, <2>5 DEF Holders
<1>2. /\ IsFiniteSet(C) /\ Cardinality(C) \in Nat
      /\ Cardinality(C) + Cardinality(H) <= ReviewMin - 1 + Cardinality(Procs)
  BY FS_CardinalityType DEF ReviewInv
<1>3. IsFiniteSet(U) /\ Cardinality(U) <= Cardinality(H) /\ Cardinality(U) \in Nat
  <2>1. [q \in H |-> task[q].fill] \in Surjection(H, U)
    BY DEF Surjection
  <2>2. IsFiniteSet(U) /\ Cardinality(U) <= Cardinality(H)
    <3> HIDE DEF H, U
    <3> QED
      BY <2>1, HoldersFinite, FS_Surjection DEF H
  <2> QED
    BY <2>2, FS_CardinalityType
<1>4. /\ IsFiniteSet(TornFills) /\ Cardinality(TornFills) <= crashes
      /\ Cardinality(TornFills) \in Nat /\ crashes \in Nat
  BY FS_CardinalityType, BoundsAssumption DEF FillInv, TornInv, TypeOK
<1> HIDE DEF C, H, U
<1>5. /\ IsFiniteSet(C \cup U) /\ Cardinality(C \cup U) <= Cardinality(C) + Cardinality(U)
      /\ Cardinality(C \cup U) \in Nat
  BY <1>2, <1>3, UnionBound
<1>6. /\ IsFiniteSet((C \cup U) \cup TornFills)
      /\ Cardinality((C \cup U) \cup TornFills) <= Cardinality(C \cup U) + Cardinality(TornFills)
      /\ Cardinality((C \cup U) \cup TornFills) \in Nat
  BY <1>4, <1>5, UnionBound
<1>7. Cardinality(TradesOf(p)) <= Cardinality((C \cup U) \cup TornFills)
      /\ Cardinality(TradesOf(p)) \in Nat
  BY <1>1, <1>6, FS_Subset, FS_CardinalityType
<1>8. Cardinality(H) \in Nat /\ Cardinality(Procs) \in Nat
  BY HoldersFinite DEF H
<1> QED
  BY <1>2, <1>3, <1>4, <1>5, <1>6, <1>7, <1>8, ReviewAssumption

\* The gate reads the trade count long before the trade it lets pass is counted.  The
\* review point is passed by at most one trade per other running command and one per kill.
THEOREM TradeOverrunBound == Spec => []TradeOverrunBounded
<1>1. TypeOK /\ FillInv /\ ReviewInv => TradeOverrunBounded
  BY TradesAccounted DEF TradeOverrunBounded
<1> QED
  BY <1>1, TypeCorrect, InitFills, NextKeepsFills, InitReview, NextKeepsReview, PTL DEF Spec
-----------------------------------------------------------------------------
(* The log implements the machine of PilotLifecycle *)

\* The rows of a log are in the order of their instants.
Ordered(l) == \A i, j \in DOMAIN l : i <= j => l[i].at.instant <= l[j].at.instant

\* Row k is the last of session p's rows, by id.
LastRow(l, p, k) ==
  k \in RowsOf(l, p, Lifecycle) /\ \A j \in RowsOf(l, p, Lifecycle) : j <= k

\* An ordered log of one offset is read in the order of its ids.
LEMMA LastById ==
  ASSUME OneHonestOperator, NEW l \in Seq(Row), Ordered(l), NEW p, NEW k
  PROVE  IsLast(l, k, RowsOf(l, p, Lifecycle)) <=> LastRow(l, p, k)
<1>1. ASSUME NEW i \in DOMAIN l, NEW j \in DOMAIN l
      PROVE  NotBefore(l, i, j) <=> j <= i
  <2>1. l[i] \in Row /\ l[j] \in Row /\ i \in Int /\ j \in Int
    OBVIOUS
  <2>2. /\ l[i].at.instant \in Times /\ l[j].at.instant \in Times
        /\ l[i].at.offset \in Offsets /\ l[j].at.offset \in Offsets
    BY <2>1 DEF Row, Stamp
  <2>3. l[i].at.offset = l[j].at.offset /\ l[i].at.offset \in Int
    <3>1. l[i].at.offset = l[j].at.offset
      BY <2>2, Zenon DEF OneHonestOperator
    <3>2. l[i].at.offset \in Nat
      BY <2>2, ClockAssumption
    <3> QED
      BY <3>1, <3>2
  <2>4. l[i].at.instant \in Int /\ l[j].at.instant \in Int
    BY <2>2, ClockAssumption DEF Times
  <2>5. /\ i <= j => l[i].at.instant <= l[j].at.instant
        /\ j <= i => l[j].at.instant <= l[i].at.instant
    BY DEF Ordered
  <2> QED
    BY <2>1, <2>3, <2>4, <2>5 DEF NotBefore, Text
<1>2. RowsOf(l, p, Lifecycle) \subseteq DOMAIN l
  BY DEF RowsOf
<1> QED
  BY <1>1, <1>2 DEF IsLast, LastRow

\* So its last row says whether a session is active, and which row stopped it.
LEMMA ReadById ==
  ASSUME OneHonestOperator, NEW l \in Seq(Row), Ordered(l), NEW p
  PROVE  /\ Active(l, p) <=> /\ Exists(l, p)
                             /\ \E k \in DOMAIN l : LastRow(l, p, k) /\ l[k].kind # "STOPPED"
         /\ \A i : IsStopRow(l, i, p) <=>
              LastRow(l, p, i) /\ l[i].kind = "STOPPED" /\ Exists(l, p)
<1>1. \A k : IsLast(l, k, RowsOf(l, p, Lifecycle)) <=> LastRow(l, p, k)
  BY LastById
<1> QED
  BY <1>1 DEF Active, IsStopRow

\* There is one last row.
LEMMA OneLastRow ==
  ASSUME NEW l \in Seq(Row), NEW p, NEW i, NEW j, LastRow(l, p, i), LastRow(l, p, j)
  PROVE  i = j
<1>1. i \in Nat /\ j \in Nat /\ i <= j /\ j <= i
  BY DEF LastRow, RowsOf
<1> QED
  BY <1>1

\* The hard stop row by which session p is stopped.
HardStopRow(l, i, p) == IsStopRow(l, i, p) /\ l[i].reason \in HardCodes

\* The abstract state of a log, for the log of this state and of the next.
StatusIn(l, p) ==
  IF ~Exists(l, p) THEN "ABSENT"
  ELSE IF Active(l, p) THEN "ACTIVE"
  ELSE IF \E i \in DOMAIN l : HardStopRow(l, i, p) THEN "HARD_STOPPED"
  ELSE "STOPPED"

ReviewedIn(l, p) == \E i \in DOMAIN l : HardStopRow(l, i, p) /\ ReviewedSince(l, p, l[i].at)

OnFileIn(l, p) == RowsOf(l, p, {"RESET_REVIEW"}) # {}

\* It is the refinement mapping.
LEMMA AbstractState ==
  /\ \A p : StatusOf(p) = StatusIn(log, p)
  /\ ReviewedStops = {p \in Pilots : ReviewedIn(log, p)}
<1>1. ASSUME NEW p, NEW i
      PROVE  i \in HardStops(p) /\ IsStopRow(log, i, p) <=> i \in DOMAIN log /\ HardStopRow(log, i, p)
  BY DEF HardStops, HardStopRow, IsStopRow, IsLast, RowsOf
<1>2. ASSUME NEW p
      PROVE  (\E i \in HardStops(p) : IsStopRow(log, i, p)) <=> \E i \in DOMAIN log : HardStopRow(log, i, p)
  BY <1>1
<1>3. \A p : StatusOf(p) = StatusIn(log, p)
  BY <1>2 DEF StatusOf, StatusIn
<1>4. \A p : (\E i \in HardStops(p) : IsStopRow(log, i, p) /\ ReviewedSince(log, p, log[i].at))
               <=> ReviewedIn(log, p)
  BY <1>1 DEF ReviewedIn
<1> QED
  BY <1>3, <1>4 DEF ReviewedStops

\* An active session has no row it is stopped by.
LEMMA ActiveNotStopped ==
  ASSUME OneHonestOperator, NEW l \in Seq(Row), Ordered(l), NEW p, Active(l, p), NEW i
  PROVE  ~IsStopRow(l, i, p)
<1>1. PICK k \in DOMAIN l : LastRow(l, p, k) /\ l[k].kind # "STOPPED"
  BY ReadById
<1>2. IsStopRow(l, i, p) => i = k /\ l[i].kind = "STOPPED"
  BY <1>1, ReadById, OneLastRow
<1> QED
  BY <1>1, <1>2

\* A further row is the next in the log.
LEMMA NextRow ==
  ASSUME NEW l \in Seq(Row), NEW r \in Row, NEW l2, l2 = Append(l, r), NEW n, n = Len(l) + 1
  PROVE  /\ l2 \in Seq(Row) /\ DOMAIN l2 = DOMAIN l \cup {n} /\ l2[n] = r /\ n \in Nat
         /\ n \notin DOMAIN l /\ Len(l2) = n
         /\ \A i \in DOMAIN l : l2[i] = l[i] /\ i < n /\ i \in Nat
BY AppendProperties

\* It leaves the other sessions as they are.
LEMMA OthersStay ==
  ASSUME NEW l \in Seq(Row), NEW r \in Row, NEW l2, l2 = Append(l, r), NEW p, p # r.pilot
  PROVE  /\ StatusIn(l2, p) = StatusIn(l, p) /\ (ReviewedIn(l2, p) <=> ReviewedIn(l, p))
         /\ OnFileIn(l2, p) <=> OnFileIn(l, p)
<1>0. PICK n : n = Len(l) + 1
  OBVIOUS
<1>1. /\ DOMAIN l2 = DOMAIN l \cup {n} /\ l2[n] = r /\ n \notin DOMAIN l
      /\ \A i \in DOMAIN l : l2[i] = l[i]
  BY <1>0, NextRow
<1>2. \A kinds : RowsOf(l2, p, kinds) = RowsOf(l, p, kinds)
  BY <1>1 DEF RowsOf
<1>3. RowsOf(l, p, Lifecycle) \subseteq DOMAIN l
  BY DEF RowsOf
<1>4. \A i \in DOMAIN l : IsLast(l2, i, RowsOf(l2, p, Lifecycle)) <=> IsLast(l, i, RowsOf(l, p, Lifecycle))
  BY <1>1, <1>2, <1>3 DEF IsLast, NotBefore
<1>5. ~IsLast(l2, n, RowsOf(l2, p, Lifecycle))
  BY <1>1, <1>2, <1>3 DEF IsLast
<1>6. Exists(l2, p) <=> Exists(l, p)
  BY <1>2 DEF Exists
<1>7. Active(l2, p) <=> Active(l, p)
  BY <1>1, <1>4, <1>5, <1>6 DEF Active
<1>8. /\ \A i \in DOMAIN l : HardStopRow(l2, i, p) <=> HardStopRow(l, i, p)
      /\ ~HardStopRow(l2, n, p)
  BY <1>1, <1>4, <1>5, <1>6 DEF HardStopRow, IsStopRow
<1>9. \A t : ReviewedSince(l2, p, t) <=> ReviewedSince(l, p, t)
  <2>1. RowsOf(l, p, {"RESET_REVIEW"}) \subseteq DOMAIN l
    BY DEF RowsOf
  <2> QED
    BY <1>1, <1>2, <2>1 DEF ReviewedSince
<1>10. (\E i \in DOMAIN l2 : HardStopRow(l2, i, p)) <=> \E i \in DOMAIN l : HardStopRow(l, i, p)
  BY <1>1, <1>8
<1>11. ReviewedIn(l2, p) <=> ReviewedIn(l, p)
  BY <1>1, <1>8, <1>9 DEF ReviewedIn
<1> QED
  BY <1>2, <1>6, <1>7, <1>10, <1>11 DEF StatusIn, OnFileIn

\* A lifecycle row is the last of its session.
LEMMA NewLast ==
  ASSUME NEW l \in Seq(Row), NEW r \in Row, r.kind \in Lifecycle
  PROVE  LET l2 == Append(l, r)
             n == Len(l) + 1
         IN /\ LastRow(l2, r.pilot, n) /\ n \in DOMAIN l2 /\ l2[n] = r
            /\ Exists(l2, r.pilot) <=> (Exists(l, r.pilot) \/ r.kind = "STARTED")
            /\ \A p : OnFileIn(l2, p) <=> OnFileIn(l, p)
<1>0. PICK l2, n : l2 = Append(l, r) /\ n = Len(l) + 1
  OBVIOUS
<1>1. /\ l2 \in Seq(Row) /\ DOMAIN l2 = DOMAIN l \cup {n} /\ l2[n] = r /\ n \in Nat
      /\ n \notin DOMAIN l
      /\ \A i \in DOMAIN l : l2[i] = l[i] /\ i < n /\ i \in Nat
  BY <1>0, NextRow
<1>2. \A i \in DOMAIN l2 : i <= n
  BY <1>1
<1>3. LastRow(l2, r.pilot, n)
  BY <1>1, <1>2 DEF LastRow, RowsOf
<1>4. Exists(l2, r.pilot) <=> (Exists(l, r.pilot) \/ r.kind = "STARTED")
  BY <1>1 DEF Exists, RowsOf
<1>5. \A p : RowsOf(l2, p, {"RESET_REVIEW"}) = RowsOf(l, p, {"RESET_REVIEW"})
  BY <1>1 DEF RowsOf, Lifecycle
<1> QED
  BY <1>0, <1>1, <1>3, <1>4, <1>5 DEF OnFileIn

\* A session is active, or stopped, by its last row.
LEMMA ReadLast ==
  ASSUME OneHonestOperator, NEW l \in Seq(Row), Ordered(l), NEW p, NEW n \in DOMAIN l,
         LastRow(l, p, n), Exists(l, p)
  PROVE  /\ l[n].kind # "STOPPED" => StatusIn(l, p) = "ACTIVE" /\ ~ReviewedIn(l, p)
         /\ l[n].kind = "STOPPED" =>
              /\ StatusIn(l, p) = IF l[n].reason \in HardCodes THEN "HARD_STOPPED" ELSE "STOPPED"
              /\ ReviewedIn(l, p) => l[n].reason \in HardCodes /\ OnFileIn(l, p)
<1>1. \A i : LastRow(l, p, i) <=> i = n
  BY OneLastRow
<1>2. Active(l, p) <=> l[n].kind # "STOPPED"
  BY <1>1, ReadById
<1>3. \A i : IsStopRow(l, i, p) <=> i = n /\ l[n].kind = "STOPPED"
  BY <1>1, ReadById
<1>4. \A i \in DOMAIN l : HardStopRow(l, i, p) <=>
        i = n /\ l[n].kind = "STOPPED" /\ l[n].reason \in HardCodes
  BY <1>3 DEF HardStopRow
<1>5. ReviewedIn(l, p) => l[n].kind = "STOPPED" /\ l[n].reason \in HardCodes /\ OnFileIn(l, p)
  BY <1>4 DEF ReviewedIn, ReviewedSince, OnFileIn
<1> QED
  BY <1>2, <1>4, <1>5 DEF StatusIn

\* A session that is started or resumed is active, with no stop to review.
LEMMA RevivedIn ==
  ASSUME OneHonestOperator, NEW l \in Seq(Row), NEW r \in Row, NEW l2, l2 = Append(l, r),
         Ordered(l2), r.kind \in Revivals, r.kind = "STARTED" \/ Exists(l, r.pilot)
  PROVE  StatusIn(l2, r.pilot) = "ACTIVE" /\ ~ReviewedIn(l2, r.pilot)
<1>1. PICK n : n = Len(l) + 1
  OBVIOUS
<1>2. l2 \in Seq(Row)
  BY NextRow
<1>3. r.kind \in Lifecycle /\ r.kind # "STOPPED"
  BY DEF Revivals, Lifecycle
<1>4. LastRow(l2, r.pilot, n) /\ n \in DOMAIN l2 /\ l2[n] = r /\ Exists(l2, r.pilot)
  BY <1>1, <1>3, NewLast
<1> QED
  BY <1>2, <1>3, <1>4, ReadLast, Zenon

\* A session that is stopped is so by this row, and was reviewed if a review on file
\* carries an instant no earlier.
LEMMA StoppedIn ==
  ASSUME OneHonestOperator, NEW l \in Seq(Row), NEW r \in Row, NEW l2, l2 = Append(l, r),
         Ordered(l2), r.kind = "STOPPED", Exists(l, r.pilot)
  PROVE  /\ StatusIn(l2, r.pilot) = IF r.reason \in HardCodes THEN "HARD_STOPPED" ELSE "STOPPED"
         /\ ReviewedIn(l2, r.pilot) => r.reason \in HardCodes /\ OnFileIn(l, r.pilot)
<1>1. PICK n : n = Len(l) + 1
  OBVIOUS
<1>2. l2 \in Seq(Row)
  BY NextRow
<1>3. r.kind \in Lifecycle
  BY DEF Lifecycle
<1>4. /\ LastRow(l2, r.pilot, n) /\ n \in DOMAIN l2 /\ l2[n] = r /\ Exists(l2, r.pilot)
      /\ OnFileIn(l2, r.pilot) <=> OnFileIn(l, r.pilot)
  BY <1>1, <1>3, NewLast
<1>5. /\ StatusIn(l2, r.pilot) = IF l2[n].reason \in HardCodes THEN "HARD_STOPPED" ELSE "STOPPED"
      /\ ReviewedIn(l2, r.pilot) => l2[n].reason \in HardCodes /\ OnFileIn(l2, r.pilot)
  BY <1>2, <1>4, ReadLast, Zenon
<1> QED
  BY <1>4, <1>5, Zenon

\* A review counts for the hard stop its session is under, and changes nothing else.
LEMMA ReviewedNow ==
  ASSUME OneHonestOperator, NEW l \in Seq(Row), NEW r \in Row, NEW l2, l2 = Append(l, r),
         Ordered(l2), r.kind = "RESET_REVIEW"
  PROVE  /\ StatusIn(l2, r.pilot) = StatusIn(l, r.pilot) /\ OnFileIn(l2, r.pilot)
         /\ ReviewedIn(l2, r.pilot) <=> StatusIn(l, r.pilot) = "HARD_STOPPED"
         /\ ReviewedIn(l, r.pilot) => StatusIn(l, r.pilot) = "HARD_STOPPED"
<1> DEFINE p == r.pilot
<1>0. PICK n : n = Len(l) + 1
  OBVIOUS
<1>1. /\ l2 \in Seq(Row) /\ DOMAIN l2 = DOMAIN l \cup {n} /\ l2[n] = r /\ n \in Nat
      /\ n \notin DOMAIN l
      /\ \A i \in DOMAIN l : l2[i] = l[i] /\ i < n /\ i \in Nat
  BY <1>0, NextRow
<1>2. /\ RowsOf(l2, p, {"STARTED"}) = RowsOf(l, p, {"STARTED"})
      /\ RowsOf(l2, p, Lifecycle) = RowsOf(l, p, Lifecycle)
  BY <1>1 DEF RowsOf, Lifecycle
<1>3. RowsOf(l, p, Lifecycle) \subseteq DOMAIN l /\ (Exists(l2, p) <=> Exists(l, p))
  BY <1>2 DEF RowsOf, Exists
<1>4. /\ \A i \in DOMAIN l : IsLast(l2, i, RowsOf(l2, p, Lifecycle)) <=> IsLast(l, i, RowsOf(l, p, Lifecycle))
      /\ ~IsLast(l2, n, RowsOf(l2, p, Lifecycle))
  BY <1>1, <1>2, <1>3 DEF IsLast, NotBefore
<1>5. Active(l2, p) <=> Active(l, p)
  BY <1>1, <1>3, <1>4 DEF Active
<1>6. \A i \in DOMAIN l : HardStopRow(l2, i, p) <=> HardStopRow(l, i, p)
  BY <1>1, <1>3, <1>4 DEF HardStopRow, IsStopRow
<1>7. ~HardStopRow(l2, n, p)
  BY <1>4 DEF HardStopRow, IsStopRow
<1>8. \A i \in DOMAIN l : ReviewedSince(l2, p, l2[i].at)
  <2>1. n \in RowsOf(l2, p, {"RESET_REVIEW"})
    BY <1>1 DEF RowsOf
  <2>2. \A i \in DOMAIN l : l2[i].at.instant <= l2[n].at.instant
    BY <1>1 DEF Ordered
  <2>3. \A i \in DOMAIN l2 : l2[i].at.instant \in Int
    <3>1. \A i \in DOMAIN l2 : l2[i] \in Row
      BY <1>1
    <3>2. \A i \in DOMAIN l2 : l2[i].at \in Stamp
      BY <3>1 DEF Row
    <3>3. \A i \in DOMAIN l2 : l2[i].at.instant \in Times
      BY <3>2 DEF Stamp
    <3> QED
      BY <3>3, ClockAssumption DEF Times
  <2>4. \A i \in DOMAIN l : l2[n].at.instant >= l2[i].at.instant
    BY <1>1, <2>2, <2>3
  <2> QED
    BY <2>1, <2>4 DEF ReviewedSince
<1>9. (\E i \in DOMAIN l2 : HardStopRow(l2, i, p)) <=> \E i \in DOMAIN l : HardStopRow(l, i, p)
  BY <1>1, <1>6, <1>7
<1>10. (\E i \in DOMAIN l : HardStopRow(l, i, p)) <=> StatusIn(l, p) = "HARD_STOPPED"
  <2>1. Ordered(l)
    BY <1>1 DEF Ordered
  <2>2. ASSUME NEW i, IsStopRow(l, i, p) PROVE ~Active(l, p) /\ Exists(l, p)
    BY <2>1, <2>2, ActiveNotStopped DEF IsStopRow
  <2> QED
    BY <2>2, Zenon DEF StatusIn, HardStopRow
<1>11. ReviewedIn(l2, p) <=> \E i \in DOMAIN l : HardStopRow(l, i, p)
  BY <1>1, <1>6, <1>7, <1>8 DEF ReviewedIn
<1>12. OnFileIn(l2, p)
  BY <1>1 DEF OnFileIn, RowsOf
<1>13. StatusIn(l2, p) = StatusIn(l, p)
  BY <1>3, <1>5, <1>9 DEF StatusIn
<1> QED
  BY <1>10, <1>11, <1>12, <1>13 DEF ReviewedIn

\* The abstract state, as a function of the log.
StatusMap(l) == [p \in Pilots |-> StatusIn(l, p)]
ReviewedSet(l) == {p \in Pilots : ReviewedIn(l, p)}
OnFileSet(l) == {p \in Pilots : OnFileIn(l, p)}

Mapped ==
  /\ [p \in Pilots |-> StatusOf(p)] = StatusMap(log)
  /\ ReviewedStops = ReviewedSet(log)
  /\ {p \in Pilots : RowsOf(log, p, {"RESET_REVIEW"}) # {}} = OnFileSet(log)

\* It is that of the refinement mapping, before a step and after it.
LEMMA MappedNow == Mapped
BY AbstractState DEF Mapped, StatusMap, ReviewedSet, OnFileSet, OnFileIn

LEMMA MappedThen == Mapped'
<1>1. ASSUME NEW p, NEW i
      PROVE  (i \in HardStops(p) /\ IsStopRow(log, i, p))' <=> i \in DOMAIN log' /\ HardStopRow(log', i, p)
  BY DEF HardStops, HardStopRow, IsStopRow, IsLast, RowsOf
<1>2. ASSUME NEW p
      PROVE  (\E i \in HardStops(p) : IsStopRow(log, i, p))' <=> \E i \in DOMAIN log' : HardStopRow(log', i, p)
  BY <1>1
<1>3. \A p : StatusOf(p)' = StatusIn(log', p)
  BY <1>2 DEF StatusOf, StatusIn
<1>4. \A p : (\E i \in HardStops(p) : IsStopRow(log, i, p) /\ ReviewedSince(log, p, log[i].at))'
               <=> ReviewedIn(log', p)
  BY <1>1 DEF ReviewedIn
<1>5. ReviewedStops' = ReviewedSet(log')
  BY <1>4 DEF ReviewedStops, ReviewedSet
<1> QED
  BY <1>3, <1>5 DEF Mapped, StatusMap, OnFileSet, OnFileIn

\* A row changes the state of its own session.
LEMMA MapsStep ==
  ASSUME NEW l \in Seq(Row), NEW r \in Row, NEW l2, l2 = Append(l, r)
  PROVE  /\ StatusMap(l2) = [StatusMap(l) EXCEPT ![r.pilot] = StatusIn(l2, r.pilot)]
         /\ ReviewedSet(l2) = IF ReviewedIn(l2, r.pilot) THEN ReviewedSet(l) \cup {r.pilot}
                              ELSE ReviewedSet(l) \ {r.pilot}
         /\ OnFileSet(l2) = IF OnFileIn(l2, r.pilot) THEN OnFileSet(l) \cup {r.pilot}
                            ELSE OnFileSet(l) \ {r.pilot}
<1>1. \A p \in Pilots \ {r.pilot} :
        /\ StatusIn(l2, p) = StatusIn(l, p) /\ (ReviewedIn(l2, p) <=> ReviewedIn(l, p))
        /\ OnFileIn(l2, p) <=> OnFileIn(l, p)
  BY OthersStay, ZenonT(40)
<1>2. r.pilot \in Pilots
  BY DEF Row
<1> QED
  BY <1>1, <1>2 DEF StatusMap, ReviewedSet, OnFileSet

\* What the command that inserts row r found in log l.
Sound(l, r) ==
  /\ r.kind \in Revivals => \A p \in Pilots : ~Active(l, p)
  /\ r.kind = "RESUMED" => Exists(l, r.pilot) /\ MayResume(l, r.pilot)
  /\ r.kind = "STOPPED" => Active(l, r.pilot)

\* The step of the machine from one abstract state to another, for session p.
Steps(p, s, v, o, s2, v2, o2) ==
  \/ /\ \A b \in Pilots : s[b] # "ACTIVE"
     /\ s2 = [s EXCEPT ![p] = "ACTIVE"] /\ v2 = v \ {p} /\ o2 = o
  \/ s[p] = "ACTIVE" /\ s2 = [s EXCEPT ![p] = "STOPPED"] /\ v2 = v /\ o2 = o
  \/ /\ s[p] = "ACTIVE" /\ s2 = [s EXCEPT ![p] = "HARD_STOPPED"] /\ o2 = o
     /\ v2 = v \/ (p \in o /\ v2 = v \cup {p})
  \/ o2 = o \cup {p} /\ v2 = (IF s[p] = "HARD_STOPPED" THEN v \cup {p} ELSE v) /\ s2 = s
  \/ /\ \A b \in Pilots : s[b] # "ACTIVE"
     /\ s[p] = "STOPPED" \/ (s[p] = "HARD_STOPPED" /\ p \in v)
     /\ s2 = [s EXCEPT ![p] = "ACTIVE"] /\ v2 = v \ {p} /\ o2 = o

\* A row that its command found sound is a step of the machine.
LEMMA RowIsStep ==
  ASSUME OneHonestOperator, NEW l \in Seq(Row), NEW r \in Row, NEW l2, l2 = Append(l, r),
         Ordered(l2), Sound(l, r)
  PROVE  Steps(r.pilot, StatusMap(l), ReviewedSet(l), OnFileSet(l),
               StatusMap(l2), ReviewedSet(l2), OnFileSet(l2))
<1>p. PICK p, s, v, o, s2, v2, o2 :
        /\ p = r.pilot /\ s = StatusMap(l) /\ v = ReviewedSet(l) /\ o = OnFileSet(l)
        /\ s2 = StatusMap(l2) /\ v2 = ReviewedSet(l2) /\ o2 = OnFileSet(l2)
  OBVIOUS
<1> SUFFICES Steps(p, s, v, o, s2, v2, o2)
  BY <1>p, Zenon
<1>0. p \in Pilots /\ r.kind \in RowKinds
  BY <1>p DEF Row
<1>1. /\ s[p] = StatusIn(l, p) /\ (p \in v <=> ReviewedIn(l, p)) /\ (p \in o <=> OnFileIn(l, p))
      /\ s = [b \in Pilots |-> StatusIn(l, b)]
  BY <1>0, <1>p DEF StatusMap, ReviewedSet, OnFileSet
<1>2. /\ s2 = [s EXCEPT ![p] = StatusIn(l2, p)]
      /\ v2 = IF ReviewedIn(l2, p) THEN v \cup {p} ELSE v \ {p}
      /\ o2 = IF OnFileIn(l2, p) THEN o \cup {p} ELSE o \ {p}
  <2>1. /\ StatusMap(l2) = [StatusMap(l) EXCEPT ![r.pilot] = StatusIn(l2, r.pilot)]
        /\ ReviewedSet(l2) = IF ReviewedIn(l2, r.pilot) THEN ReviewedSet(l) \cup {r.pilot}
                             ELSE ReviewedSet(l) \ {r.pilot}
        /\ OnFileSet(l2) = IF OnFileIn(l2, r.pilot) THEN OnFileSet(l) \cup {r.pilot}
                           ELSE OnFileSet(l) \ {r.pilot}
    BY MapsStep
  <2> QED
    BY <1>p, <2>1, Zenon
<1>3. Ordered(l)
  <2>1. PICK n : n = Len(l) + 1
    OBVIOUS
  <2>2. DOMAIN l \subseteq DOMAIN l2 /\ \A i \in DOMAIN l : l2[i] = l[i]
    BY <2>1, NextRow
  <2> QED
    BY <2>2 DEF Ordered
<1>4. r.kind \in Lifecycle => (OnFileIn(l2, p) <=> OnFileIn(l, p))
  BY <1>p, NewLast
<1>5. \A b : Active(l, b) <=> StatusIn(l, b) = "ACTIVE"
  BY DEF StatusIn, Active
<1>6. CASE r.kind = "STARTED"
  <2>1. StatusIn(l2, p) = "ACTIVE" /\ ~ReviewedIn(l2, p)
    BY <1>p, <1>6, RevivedIn DEF Revivals
  <2>2. o2 = o
    BY <1>1, <1>2, <1>4, <1>6 DEF Lifecycle
  <2>3. \A b \in Pilots : s[b] # "ACTIVE"
    BY <1>1, <1>5, <1>6 DEF Sound, Revivals
  <2>4. s2 = [s EXCEPT ![p] = "ACTIVE"] /\ v2 = v \ {p}
    BY <1>2, <2>1
  <2> QED
    BY <2>2, <2>3, <2>4, Zenon DEF Steps
<1>7. CASE r.kind = "RESUMED"
  <2>1. StatusIn(l2, p) = "ACTIVE" /\ ~ReviewedIn(l2, p)
    BY <1>p, <1>7, RevivedIn DEF Revivals, Sound
  <2>2. o2 = o
    BY <1>1, <1>2, <1>4, <1>7 DEF Lifecycle
  <2>3. \A b \in Pilots : s[b] # "ACTIVE"
    BY <1>1, <1>5, <1>7 DEF Sound, Revivals
  <2>4. StatusIn(l, p) = "STOPPED" \/ (StatusIn(l, p) = "HARD_STOPPED" /\ ReviewedIn(l, p))
    BY <1>0, <1>7, <1>p DEF Sound, Revivals, StatusIn, ReviewedIn, MayResume, HardStopRow
  <2> QED
    <3>1. s2 = [s EXCEPT ![p] = "ACTIVE"] /\ v2 = v \ {p}
      BY <1>2, <2>1
    <3>2. s[p] = "STOPPED" \/ (s[p] = "HARD_STOPPED" /\ p \in v)
      BY <1>1, <2>4
    <3> QED
      BY <2>2, <2>3, <3>1, <3>2, Zenon DEF Steps
<1>8. CASE r.kind = "STOPPED"
  <2>1. Active(l, p) /\ Exists(l, p)
    BY <1>p, <1>8 DEF Sound, Active
  <2>2. StatusIn(l, p) = "ACTIVE" /\ ~ReviewedIn(l, p)
    <3>1. \A i : ~IsStopRow(l, i, p)
      BY <1>3, <2>1, ActiveNotStopped
    <3> QED
      BY <1>5, <2>1, <3>1 DEF ReviewedIn, HardStopRow
  <2>3. /\ StatusIn(l2, p) = IF r.reason \in HardCodes THEN "HARD_STOPPED" ELSE "STOPPED"
        /\ ReviewedIn(l2, p) => r.reason \in HardCodes /\ OnFileIn(l, p)
    BY <1>p, <1>8, <2>1, StoppedIn
  <2>4. o2 = o
    BY <1>1, <1>2, <1>4, <1>8 DEF Lifecycle
  <2>5. v \ {p} = v
    BY <1>1, <2>2
  <2> QED
    <3>1. s[p] = "ACTIVE"
      BY <1>1, <2>2
    <3>2. CASE r.reason \in HardCodes
      <4>1. s2 = [s EXCEPT ![p] = "HARD_STOPPED"]
        BY <1>2, <2>3, <3>2
      <4>2. v2 = v \/ (p \in o /\ v2 = v \cup {p})
        BY <1>1, <1>2, <2>3, <2>5
      <4> QED
        BY <2>4, <3>1, <4>1, <4>2, Zenon DEF Steps
    <3>3. CASE r.reason \notin HardCodes
      <4>1. s2 = [s EXCEPT ![p] = "STOPPED"] /\ v2 = v
        BY <1>2, <2>3, <2>5, <3>3
      <4> QED
        BY <2>4, <3>1, <4>1, Zenon DEF Steps
    <3> QED
      BY <3>2, <3>3
<1>9. CASE r.kind = "RESET_REVIEW"
  <2>1. /\ StatusIn(l2, p) = StatusIn(l, p) /\ OnFileIn(l2, p)
        /\ ReviewedIn(l2, p) <=> StatusIn(l, p) = "HARD_STOPPED"
        /\ ReviewedIn(l, p) => StatusIn(l, p) = "HARD_STOPPED"
    BY <1>p, <1>9, ReviewedNow
  <2>2. [s EXCEPT ![p] = StatusIn(l2, p)] = s
    BY <1>1, <2>1
  <2>3. StatusIn(l, p) # "HARD_STOPPED" => v \ {p} = v
    BY <1>1, <2>1
  <2> QED
    <3>1. s2 = s
      BY <1>2, <2>2, Zenon
    <3>2. o2 = o \cup {p}
      BY <1>2, <2>1
    <3>3. v2 = IF s[p] = "HARD_STOPPED" THEN v \cup {p} ELSE v
      BY <1>1, <1>2, <2>1, <2>3
    <3> QED
      BY <3>1, <3>2, <3>3, Zenon DEF Steps
<1> QED
  BY <1>0, <1>6, <1>7, <1>8, <1>9 DEF RowKinds

\* So a step that inserts one is a step of the machine.
LEMMA InsertIsStep ==
  ASSUME OneHonestOperator, TypeOK, NEW r \in Row, log' = Append(log, r), Ordered(log'), Sound(log, r)
  PROVE  Lifecycles!Next
<1>1. Steps(r.pilot, StatusMap(log), ReviewedSet(log), OnFileSet(log),
            StatusMap(log'), ReviewedSet(log'), OnFileSet(log'))
  BY RowIsStep DEF TypeOK
<1>2. Len(log') = Len(log) + 1
  BY DEF TypeOK
<1>3. r.pilot \in Pilots
  BY DEF Row
<1>4. Mapped /\ Mapped'
  BY MappedNow, MappedThen
<1> DEFINE p == r.pilot
<1>5. \/ Lifecycles!StartSession(p) \/ Lifecycles!StopSession(p) \/ Lifecycles!HardStopSession(p)
      \/ Lifecycles!ReviewSession(p) \/ Lifecycles!ResumeSession(p)
  BY <1>1, <1>4, Zenon
     DEF Steps, Mapped, Lifecycles!StartSession, Lifecycles!StopSession, Lifecycles!HardStopSession,
         Lifecycles!ReviewSession, Lifecycles!ResumeSession, Lifecycles!NoneActive
<1> QED
  BY <1>2, <1>3, <1>5 DEF Lifecycles!Next

\* One operator at a time decides on a row in the absence of any active session, and
\* there is still none when he inserts it.
LEMMA NoneActiveYet ==
  ASSUME OneHonestOperator, ActiveInv, NEW q \in Deciders
  PROVE  \A p \in Pilots : ~Active(log, p)
<1>1. q \in Procs /\ Procs = {q} /\ Deciders = {q}
  BY DEF Deciders, OneHonestOperator
<1>2. Cardinality(Procs) = 1 /\ Cardinality(Deciders) = 1
  BY <1>1, FS_Singleton
<1>3. IsFiniteSet(ActiveSessions(log)) /\ Cardinality(ActiveSessions(log)) \in Nat
  BY FS_CardinalityType DEF ActiveInv
<1>4. ActiveSessions(log) = {}
  BY <1>2, <1>3, FS_EmptySet DEF ActiveInv
<1> QED
  BY <1>4 DEF ActiveSessions

\* Without a further row the machine stutters.
LEMMA SameLogStutters ==
  ASSUME log' = log
  PROVE  UNCHANGED Lifecycles!abstractVars
<1>1. Mapped /\ Mapped'
  BY MappedNow, MappedThen
<1> QED
  BY <1>1 DEF Mapped, Lifecycles!abstractVars

\* What the refinement is proved from.
LifecycleInv == TypeOK /\ ActiveInv /\ StopInv

\* Every step of one honest operator is a step of the machine, or none.
LEMMA NextIsStep ==
  ASSUME OneHonestOperator, LifecycleInv, LifecycleInv', [Next]_vars
  PROVE  [Lifecycles!Next]_(Lifecycles!abstractVars)
<1>o. Ordered(log')
  BY DEF LifecycleInv, StopInv, InTime, Ordered
<1>1. ASSUME NEW q \in Procs, CommitRow(q) PROVE Lifecycles!Next
  <2>1. PICK r : r = pending[q] /\ r \in Row
    BY <1>1 DEF CommitRow, LifecycleInv, TypeOK, StepsOK
  <2>2. pc[q] = "commit" /\ log' = Append(log, r)
    BY <1>1, <2>1 DEF CommitRow
  <2>3. r.kind \in Revivals => \A p \in Pilots : ~Active(log, p)
    <3>1. r.kind \in Revivals => q \in Deciders
      BY <2>1, <2>2 DEF Deciders, Revivals
    <3> QED
      BY <3>1, NoneActiveYet DEF LifecycleInv
  <2>4. Sound(log, r)
    BY <2>1, <2>2, <2>3 DEF Sound, LifecycleInv, StopInv, Decided
  <2> QED
    BY <1>o, <2>1, <2>2, <2>4, InsertIsStep DEF LifecycleInv
<1>2. ASSUME NEW q \in Procs, NEW p \in Pilots, NEW at \in Stamps, ResetReview(q, p, at)
      PROVE  Lifecycles!Next
  <2>1. PICK r : r = MkRow("RESET_REVIEW", p, at)
    OBVIOUS
  <2>2. r \in Row /\ r.kind = "RESET_REVIEW"
    BY <2>1, StampsType DEF MkRow, Row, RowKinds, LifecycleInv, TypeOK
  <2>3. log' = Append(log, r)
    BY <1>2, <2>1 DEF ResetReview
  <2>4. Sound(log, r)
    BY <2>2 DEF Sound, Revivals
  <2> QED
    BY <1>o, <2>2, <2>3, <2>4, InsertIsStep DEF LifecycleInv
<1>3. ASSUME ~\E q \in Procs : CommitRow(q) \/ \E p \in Pilots, at \in Stamps : ResetReview(q, p, at)
      PROVE  log' = log
  BY <1>3, ZenonT(40)
     DEF Next, Continue, Command, vars, Start, Stop, Resume, Decide, FillGate, InsertFill,
         RejectFill, RecordLiveFill, RecordSlippage, RecordViolation, RecordShutdown, Classify,
         RecordSessionFill, StopAfterFill, WriteFillRow, Crash, Tick
<1> QED
  BY <1>1, <1>2, <1>3, SameLogStutters

\* Before the first command there is no session.
LEMMA InitIsInit == Init => Lifecycles!Init
<1> SUFFICES ASSUME Init PROVE Lifecycles!Init
  OBVIOUS
<1>1. log = <<>>
  BY DEF Init
<1>2. \A p, kinds : RowsOf(log, p, kinds) = {}
  BY <1>1 DEF RowsOf
<1>3. \A p : StatusOf(p) = "ABSENT" /\ HardStops(p) = {}
  BY <1>2 DEF StatusOf, Exists, HardStops
<1>4. ReviewedStops = {} /\ Len(log) = 0
  BY <1>1, <1>3 DEF ReviewedStops
<1> QED
  BY <1>2, <1>3, <1>4 DEF Lifecycles!Init

\* With one command at a time and honest clocks, a command that reports success has taken
\* effect: the sessions derived from the log are started, stopped, reviewed and resumed
\* as the lifecycle of operations.py promises, one per row, for every number of sessions
\* and every length of the log.
THEOREM LogImplementsLifecycle ==
  ASSUME OneHonestOperator
  PROVE  Spec => ImplementsLifecycle
<1>1. Init => LifecycleInv
  BY InitType, InitBound, InitStops DEF LifecycleInv
<1>2. LifecycleInv /\ [Next]_vars => LifecycleInv'
  BY NextType, NextKeepsBound, NextKeepsStops DEF LifecycleInv
<1>3. LifecycleInv /\ LifecycleInv' /\ [Next]_vars => [Lifecycles!Next]_(Lifecycles!abstractVars)
  BY NextIsStep
<1> QED
  BY <1>1, <1>2, <1>3, InitIsInit, PTL DEF Spec, ImplementsLifecycle, Lifecycles!Spec

-----------------------------------------------------------------------------
(* The pass over the rows, and what it comes to *)

\* Rows with integer ids, finitely many of them: what has been read of a log.
PartOfLog(m) ==
  /\ IsFiniteSet(DOMAIN m) /\ DOMAIN m \subseteq Int
  /\ \A i \in DOMAIN m : m[i] \in Row

\* The order of two rows is one of whole numbers.
LEMMA RowTextType ==
  ASSUME NEW m, PartOfLog(m), NEW i \in DOMAIN m
  PROVE  i \in Int /\ Text(m[i].at) \in Int
<1>1. i \in Int /\ m[i].at \in Stamp
  BY DEF PartOfLog, Row
<1> QED
  BY <1>1, TextType

\* The order of reading is one after the other.
LEMMA ReadingOrder ==
  ASSUME NEW m, PartOfLog(m), NEW i \in DOMAIN m, NEW j \in DOMAIN m
  PROVE  /\ NotBefore(m, i, j) \/ NotBefore(m, j, i)
         /\ NotBefore(m, i, j) /\ NotBefore(m, j, i) => i = j
         /\ NotBefore(m, i, i)
         /\ \A k \in DOMAIN m : NotBefore(m, i, j) /\ NotBefore(m, j, k) => NotBefore(m, i, k)
<1>1. \A k \in DOMAIN m : k \in Int /\ Text(m[k].at) \in Int
  BY RowTextType
<1> QED
  BY <1>1 DEF NotBefore

\* So there is one last row at most of any rows.
LEMMA LastIsOne ==
  ASSUME NEW m, PartOfLog(m), NEW S, S \subseteq DOMAIN m, NEW i, NEW j, IsLast(m, i, S), IsLast(m, j, S)
  PROVE  i = j
BY ReadingOrder DEF IsLast

\* And there is one.
LEMMA LastOfRows ==
  ASSUME NEW m, PartOfLog(m), NEW S, S \subseteq DOMAIN m, S # {}
  PROVE  \E i \in DOMAIN m : IsLast(m, i, S)
<1> DEFINE Q == {e \in S \X S : NotBefore(m, e[1], e[2])}
<1>1. \A x, y \in S : <<x, y>> \in Q <=> NotBefore(m, x, y)
  OBVIOUS
<1> HIDE DEF Q
<1>2. IsFiniteSet(S)
  BY FS_Subset DEF PartOfLog
<1>3. ASSUME NEW x \in S, NEW y \in S PROVE <<x, y>> \in Q \/ <<y, x>> \in Q
  BY <1>1, ReadingOrder
<1>4. ASSUME NEW x \in S, NEW y \in S, NEW z \in S, <<x, y>> \in Q, <<y, z>> \in Q PROVE <<x, z>> \in Q
  BY <1>1, <1>4, ReadingOrder
<1>5. PICK x \in S : \A y \in S : <<x, y>> \in Q
  BY <1>2, <1>3, <1>4, GreatestExists
<1> QED
  BY <1>1, <1>5 DEF IsLast

\* The session that a start begins, and the session that a row then stops.
SessionBegun(r) ==
  [status |-> "ACTIVE", version |-> r.version, due |-> r.due, reason |-> "NONE", stoppedAt |-> Utc(0)]
SessionEnded(r, stop) ==
  [status |-> "STOPPED", version |-> r.version, due |-> r.due, reason |-> stop.reason, stoppedAt |-> stop.at]

\* Overwriting the status, the reason and the stop of a session leaves the rest.
LEMMA Overwrite ==
  ASSUME NEW s1, NEW v, NEW w, NEW x, NEW y, NEW s2, NEW x2, NEW y2
  PROVE  [[status |-> s1, version |-> v, due |-> w, reason |-> x, stoppedAt |-> y]
            EXCEPT !.status = s2, !.reason = x2, !.stoppedAt = y2]
          = [status |-> s2, version |-> v, due |-> w, reason |-> x2, stoppedAt |-> y2]
<1> DEFINE d == [status |-> s1, version |-> v, due |-> w, reason |-> x, stoppedAt |-> y]
           e == [d EXCEPT !.status = s2, !.reason = x2, !.stoppedAt = y2]
           f == [status |-> s2, version |-> v, due |-> w, reason |-> x2, stoppedAt |-> y2]
<1>1. DOMAIN d = {"status", "version", "due", "reason", "stoppedAt"} /\ DOMAIN f = DOMAIN d
  OBVIOUS
<1>2. e = [n \in DOMAIN d |-> e[n]] /\ f = [n \in DOMAIN d |-> f[n]]
  BY <1>1
<1>3. e.status = s2 /\ e.version = v /\ e.due = w /\ e.reason = x2 /\ e.stoppedAt = y2
  OBVIOUS
<1>4. f.status = s2 /\ f.version = v /\ f.due = w /\ f.reason = x2 /\ f.stoppedAt = y2
  OBVIOUS
<1> HIDE DEF d, e, f
<1>5. \A n \in DOMAIN d : e[n] = f[n]
  BY <1>1, <1>3, <1>4
<1>6. e = f
  BY <1>2, <1>5
<1> QED
  BY <1>6 DEF d, e, f

\* What the loop body does to a session that was begun, stopped or not.
LEMMA AppliesToSession ==
  ASSUME NEW a, NEW d, NEW r, d = SessionBegun(a) \/ \E b \in Row : d = SessionEnded(a, b)
  PROVE  /\ r.kind = "STOPPED" => Apply(d, r) = SessionEnded(a, r)
         /\ r.kind = "RESUMED" => Apply(d, r) = SessionBegun(a)
<1>1. CASE d = SessionBegun(a)
  BY <1>1, Overwrite DEF Apply, SessionBegun, SessionEnded
<1>2. ASSUME NEW b, d = SessionEnded(a, b)
      PROVE  /\ r.kind = "STOPPED" => Apply(d, r) = SessionEnded(a, r)
             /\ r.kind = "RESUMED" => Apply(d, r) = SessionBegun(a)
  BY <1>2, Overwrite DEF Apply, SessionBegun, SessionEnded
<1> QED
  BY <1>1, <1>2

\* The last start and the last row of its session say what a log holds of it.
LEMMA DerivedFromLast ==
  ASSUME NEW m, PartOfLog(m), NEW p, NEW s, NEW k,
         IsLast(m, s, RowsOf(m, p, {"STARTED"})), IsLast(m, k, RowsOf(m, p, Lifecycle))
  PROVE  Derived(m, p) = IF m[k].kind # "STOPPED" THEN SessionBegun(m[s]) ELSE SessionEnded(m[s], m[k])
<1>1. /\ RowsOf(m, p, {"STARTED"}) \subseteq DOMAIN m /\ RowsOf(m, p, Lifecycle) \subseteq DOMAIN m
      /\ s \in DOMAIN m /\ k \in DOMAIN m
  BY DEF RowsOf, IsLast
<1>2. Exists(m, p)
  BY DEF Exists, IsLast
<1>3. StartRow(m, p) = s
  <2>1. IsLast(m, StartRow(m, p), RowsOf(m, p, {"STARTED"}))
    BY <1>1 DEF StartRow
  <2> QED
    BY <1>1, <2>1, LastIsOne
<1>4. Active(m, p) <=> m[k].kind # "STOPPED"
  <2>1. \A i : IsLast(m, i, RowsOf(m, p, Lifecycle)) <=> i = k
    BY <1>1, LastIsOne
  <2> QED
    BY <1>1, <1>2, <2>1 DEF Active
<1>5. CASE m[k].kind # "STOPPED"
  BY <1>2, <1>3, <1>4, <1>5 DEF Derived, SessionBegun
<1>6. CASE m[k].kind = "STOPPED"
  <2> DEFINE c == CHOOSE i \in DOMAIN m : IsStopRow(m, i, p)
  <2>1. IsStopRow(m, k, p)
    BY <1>2, <1>6 DEF IsStopRow
  <2>2. IsStopRow(m, c, p)
    BY <1>1, <2>1
  <2> HIDE DEF c
  <2>3. c = k
    BY <1>1, <2>2, LastIsOne DEF IsStopRow
  <2>4. Derived(m, p) =
          [[status |-> "ACTIVE", version |-> m[s].version, due |-> m[s].due,
            reason |-> "NONE", stoppedAt |-> Utc(0)]
             EXCEPT !.status = "STOPPED", !.reason = m[c].reason, !.stoppedAt = m[c].at]
    BY <1>2, <1>3, <1>4, <1>6 DEF Derived, c
  <2> QED
    BY <1>6, <2>3, <2>4 DEF SessionEnded
<1> QED
  BY <1>5, <1>6

\* A session that was started has both rows.
LEMMA LastRowsExist ==
  ASSUME NEW m, PartOfLog(m), NEW p, Exists(m, p)
  PROVE  \E s, k \in DOMAIN m : /\ IsLast(m, s, RowsOf(m, p, {"STARTED"}))
                                /\ IsLast(m, k, RowsOf(m, p, Lifecycle))
<1>1. /\ RowsOf(m, p, {"STARTED"}) \subseteq DOMAIN m /\ RowsOf(m, p, Lifecycle) \subseteq DOMAIN m
      /\ RowsOf(m, p, {"STARTED"}) # {} /\ RowsOf(m, p, Lifecycle) # {}
  BY DEF RowsOf, Exists, Lifecycle
<1> QED
  BY <1>1, LastOfRows

\* Row k of l is read next after the rows of m.
ReadNext(m, k, m2) ==
  /\ PartOfLog(m) /\ PartOfLog(m2)
  /\ k \notin DOMAIN m /\ DOMAIN m2 = DOMAIN m \cup {k}
  /\ \A i \in DOMAIN m : m2[i] = m[i] /\ NotBefore(m2, k, i)

\* The last of rows that the new one is none of stays the last.
LEMMA LastStays ==
  ASSUME NEW m, NEW k, NEW m2, ReadNext(m, k, m2), NEW S, S \subseteq DOMAIN m, NEW i
  PROVE  IsLast(m, i, S) <=> IsLast(m2, i, S)
<1>1. \A a, b \in DOMAIN m : NotBefore(m, a, b) <=> NotBefore(m2, a, b)
  BY DEF ReadNext, NotBefore
<1> QED
  BY <1>1 DEF IsLast

\* A row that is about another session, or a reset review, changes nothing.
LEMMA DerivedStays ==
  ASSUME NEW m, NEW k, NEW m2, ReadNext(m, k, m2), NEW p,
         m2[k].pilot # p \/ m2[k].kind = "RESET_REVIEW"
  PROVE  Derived(m2, p) = Derived(m, p)
<1>1. /\ RowsOf(m2, p, {"STARTED"}) = RowsOf(m, p, {"STARTED"})
      /\ RowsOf(m2, p, Lifecycle) = RowsOf(m, p, Lifecycle)
  BY DEF RowsOf, ReadNext, Lifecycle
<1>2. CASE Exists(m, p)
  <2>1. PICK s, j \in DOMAIN m : /\ IsLast(m, s, RowsOf(m, p, {"STARTED"}))
                                 /\ IsLast(m, j, RowsOf(m, p, Lifecycle))
    BY <1>2, LastRowsExist DEF ReadNext
  <2>2. RowsOf(m, p, {"STARTED"}) \subseteq DOMAIN m /\ RowsOf(m, p, Lifecycle) \subseteq DOMAIN m
    BY DEF RowsOf
  <2>3. IsLast(m2, s, RowsOf(m2, p, {"STARTED"})) /\ IsLast(m2, j, RowsOf(m2, p, Lifecycle))
    BY <1>1, <2>1, <2>2, LastStays
  <2>4. m2[s] = m[s] /\ m2[j] = m[j] /\ PartOfLog(m) /\ PartOfLog(m2)
    BY DEF ReadNext
  <2>5. Derived(m, p) = IF m[j].kind # "STOPPED" THEN SessionBegun(m[s]) ELSE SessionEnded(m[s], m[j])
    BY <2>1, <2>4, DerivedFromLast
  <2>6. Derived(m2, p) = IF m2[j].kind # "STOPPED" THEN SessionBegun(m2[s]) ELSE SessionEnded(m2[s], m2[j])
    BY <2>3, <2>4, DerivedFromLast
  <2> QED
    BY <2>4, <2>5, <2>6
<1>3. CASE ~Exists(m, p)
  <2>1. ~Exists(m2, p)
    BY <1>1, <1>3 DEF Exists
  <2> QED
    BY <1>3, <2>1 DEF Derived
<1> QED
  BY <1>2, <1>3

\* The loop body does to the session of its row what one more row of the log means for it.
LEMMA DerivedApplies ==
  ASSUME NEW m, NEW k, NEW m2, ReadNext(m, k, m2), NEW p, m2[k].pilot = p
  PROVE  Derived(m2, p) = Apply(Derived(m, p), m2[k])
<1> DEFINE r == m2[k]
<1>1. /\ PartOfLog(m) /\ PartOfLog(m2) /\ r.kind \in RowKinds
      /\ RowsOf(m, p, {"STARTED"}) \subseteq DOMAIN m /\ RowsOf(m, p, Lifecycle) \subseteq DOMAIN m
      /\ NotBefore(m2, k, k)
  BY ReadingOrder DEF ReadNext, PartOfLog, Row, RowsOf
<1>2. RowsOf(m2, p, Lifecycle) =
        IF r.kind \in Lifecycle THEN RowsOf(m, p, Lifecycle) \cup {k} ELSE RowsOf(m, p, Lifecycle)
  BY DEF RowsOf, ReadNext
<1>3. RowsOf(m2, p, {"STARTED"}) =
        IF r.kind = "STARTED" THEN RowsOf(m, p, {"STARTED"}) \cup {k} ELSE RowsOf(m, p, {"STARTED"})
  BY DEF RowsOf, ReadNext
<1>4. ASSUME r.kind \in Lifecycle PROVE IsLast(m2, k, RowsOf(m2, p, Lifecycle))
  BY <1>1, <1>2, <1>4 DEF IsLast, ReadNext
<1> DEFINE d == Derived(m, p)
<1>5. ASSUME ~Exists(m, p), r.kind # "STARTED" PROVE Derived(m2, p) = d /\ d = NoSession /\ d.status = "ABSENT"
  BY <1>3, <1>5 DEF Exists, Derived, NoSession
<1>6. ASSUME Exists(m, p), r.kind # "STARTED", r.kind \in Lifecycle
      PROVE  \E a \in Row : /\ d \in {SessionBegun(a)} \cup {SessionEnded(a, b) : b \in Row}
                            /\ Derived(m2, p) = IF r.kind = "STOPPED" THEN SessionEnded(a, r) ELSE SessionBegun(a)
  <2>1. PICK s, j \in DOMAIN m : /\ IsLast(m, s, RowsOf(m, p, {"STARTED"}))
                                 /\ IsLast(m, j, RowsOf(m, p, Lifecycle))
    BY <1>1, <1>6, LastRowsExist
  <2>2. IsLast(m2, s, RowsOf(m2, p, {"STARTED"})) /\ m2[s] = m[s]
    BY <1>1, <1>3, <1>6, <2>1, LastStays DEF ReadNext
  <2>3. m[s] \in Row /\ m[j] \in Row
    BY <1>1 DEF PartOfLog
  <2>4. d = IF m[j].kind # "STOPPED" THEN SessionBegun(m[s]) ELSE SessionEnded(m[s], m[j])
    BY <1>1, <2>1, DerivedFromLast
  <2>5. Derived(m2, p) = IF r.kind # "STOPPED" THEN SessionBegun(m2[s]) ELSE SessionEnded(m2[s], r)
    BY <1>1, <1>4, <1>6, <2>2, DerivedFromLast
  <2> HIDE DEF d, r
  <2>6. d \in {SessionBegun(m[s])} \cup {SessionEnded(m[s], b) : b \in Row}
    BY <2>3, <2>4
  <2> QED
    BY <2>2, <2>3, <2>5, <2>6
<1>7. CASE r.kind = "STARTED"
  <2>1. r.kind \in Lifecycle
    BY <1>7 DEF Lifecycle
  <2>2. IsLast(m2, k, RowsOf(m2, p, {"STARTED"}))
    BY <1>1, <1>3, <1>7 DEF IsLast, ReadNext
  <2>3. Derived(m2, p) = SessionBegun(r)
    BY <1>1, <1>4, <1>7, <2>1, <2>2, DerivedFromLast
  <2> QED
    BY <1>7, <2>3 DEF Apply, SessionBegun
<1>8. CASE r.kind = "STOPPED"
  <2>1. r.kind \in Lifecycle
    BY <1>8 DEF Lifecycle
  <2>2. CASE Exists(m, p)
    <3>1. PICK a \in Row : /\ d \in {SessionBegun(a)} \cup {SessionEnded(a, b) : b \in Row}
                           /\ Derived(m2, p) = SessionEnded(a, r)
      BY <1>6, <1>8, <2>1, <2>2
    <3> HIDE DEF d, r
    <3>2. Apply(d, r) = SessionEnded(a, r)
      BY <1>8, <3>1, AppliesToSession
    <3> QED
      BY <3>1, <3>2 DEF d, r
  <2>3. CASE ~Exists(m, p)
    <3>1. Derived(m2, p) = d /\ d.status = "ABSENT"
      BY <1>5, <1>8, <2>3
    <3> HIDE DEF d, r
    <3>2. Apply(d, r) = d
      BY <1>8, <3>1 DEF Apply
    <3> QED
      BY <3>1, <3>2 DEF d, r
  <2> QED
    BY <2>2, <2>3
<1>9. CASE r.kind = "RESUMED"
  <2>1. r.kind \in Lifecycle
    BY <1>9 DEF Lifecycle
  <2>2. CASE Exists(m, p)
    <3>1. PICK a \in Row : /\ d \in {SessionBegun(a)} \cup {SessionEnded(a, b) : b \in Row}
                           /\ Derived(m2, p) = SessionBegun(a)
      BY <1>6, <1>9, <2>1, <2>2
    <3> HIDE DEF d, r
    <3>2. Apply(d, r) = SessionBegun(a)
      BY <1>9, <3>1, AppliesToSession
    <3> QED
      BY <3>1, <3>2 DEF d, r
  <2>3. CASE ~Exists(m, p)
    <3>1. Derived(m2, p) = d /\ d.status = "ABSENT"
      BY <1>5, <1>9, <2>3
    <3> HIDE DEF d, r
    <3>2. Apply(d, r) = d
      BY <1>9, <3>1 DEF Apply
    <3> QED
      BY <3>1, <3>2 DEF d, r
  <2> QED
    BY <2>2, <2>3
<1>10. CASE r.kind = "RESET_REVIEW"
  <2>1. Derived(m2, p) = d
    BY <1>10, DerivedStays
  <2> HIDE DEF d, r
  <2>2. Apply(d, r) = d
    BY <1>10 DEF Apply
  <2> QED
    BY <2>1, <2>2 DEF d, r
<1> QED
  BY <1>1, <1>7, <1>8, <1>9, <1>10 DEF RowKinds

\* What the query reads first of a log.
FirstRows(l, n) == {i \in DOMAIN l : Cardinality(ReadEarlier(l, i)) < n}
FirstPart(l, n) == [i \in FirstRows(l, n) |-> l[i]]

\* A log is a part of itself.
LEMMA WholeLog ==
  ASSUME NEW l \in Seq(Row)
  PROVE  PartOfLog(l) /\ IsFiniteSet(DOMAIN l) /\ Cardinality(DOMAIN l) = Len(l) /\ Len(l) \in Nat
<1>1. DOMAIN l = 1 .. Len(l) /\ Len(l) \in Nat /\ \A i \in DOMAIN l : l[i] \in Row
  OBVIOUS
<1>2. IsFiniteSet(1 .. Len(l)) /\ Cardinality(1 .. Len(l)) = Len(l)
  BY <1>1, FS_Interval
<1>3. DOMAIN l \subseteq Int
  BY <1>1
<1> QED
  BY <1>1, <1>2, <1>3 DEF PartOfLog

\* An earlier row has fewer rows before it.
LEMMA EarlierRanks ==
  ASSUME NEW l \in Seq(Row), NEW i \in DOMAIN l
  PROVE  /\ IsFiniteSet(ReadEarlier(l, i)) /\ Cardinality(ReadEarlier(l, i)) \in Nat
         /\ \A j \in ReadEarlier(l, i) : Cardinality(ReadEarlier(l, j)) < Cardinality(ReadEarlier(l, i))
<1>1. \A j \in DOMAIN l : IsFiniteSet(ReadEarlier(l, j)) /\ Cardinality(ReadEarlier(l, j)) \in Nat
  <2> TAKE j \in DOMAIN l
  <2>1. ReadEarlier(l, j) \subseteq DOMAIN l
    BY DEF ReadEarlier
  <2>2. IsFiniteSet(ReadEarlier(l, j))
    BY <2>1, WholeLog, FS_Subset
  <2> QED
    BY <2>2, FS_CardinalityType
<1>2. ASSUME NEW j \in ReadEarlier(l, i)
      PROVE  Cardinality(ReadEarlier(l, j)) < Cardinality(ReadEarlier(l, i))
  <2>1. j \in DOMAIN l /\ ~NotBefore(l, j, i)
    BY DEF ReadEarlier
  <2>2. /\ \A k \in DOMAIN l : ~NotBefore(l, k, j) => ~NotBefore(l, k, i)
        /\ NotBefore(l, j, j)
    <3>1. ASSUME NEW k \in DOMAIN l, ~NotBefore(l, k, j), NotBefore(l, k, i) PROVE FALSE
      <4>1. NotBefore(l, j, k) /\ NotBefore(l, k, i) => NotBefore(l, j, i)
        BY <2>1, WholeLog, ReadingOrder
      <4>2. NotBefore(l, j, k)
        BY <2>1, <3>1, WholeLog, ReadingOrder
      <4> QED
        BY <2>1, <3>1, <4>1, <4>2
    <3> QED
      BY <2>1, <3>1, WholeLog, ReadingOrder
  <2>3. ReadEarlier(l, j) \subseteq ReadEarlier(l, i) /\ j \notin ReadEarlier(l, j)
    BY <2>2 DEF ReadEarlier
  <2>4. /\ Cardinality(ReadEarlier(l, j)) <= Cardinality(ReadEarlier(l, i))
        /\ Cardinality(ReadEarlier(l, i)) = Cardinality(ReadEarlier(l, j)) => ReadEarlier(l, i) = ReadEarlier(l, j)
    BY <1>1, <2>3, FS_Subset
  <2> QED
    BY <1>1, <2>1, <2>3, <2>4
<1> QED
  BY <1>1, <1>2

\* The query reads one row after the other, and all of them.
LEMMA FirstRowsAre ==
  ASSUME NEW l \in Seq(Row)
  PROVE  /\ FirstRows(l, 0) = {} /\ FirstRows(l, Len(l)) = DOMAIN l
         /\ \A n \in 1 .. Len(l) :
              /\ RowAt(l, n) \in DOMAIN l \ FirstRows(l, n - 1)
              /\ FirstRows(l, n) = FirstRows(l, n - 1) \cup {RowAt(l, n)}
              /\ \A i \in FirstRows(l, n - 1) : NotBefore(l, RowAt(l, n), i)
<1> DEFINE D == DOMAIN l
           R == {e \in D \X D : ~NotBefore(l, e[1], e[2])}
<1>1. /\ PartOfLog(l) /\ IsFiniteSet(D) /\ Cardinality(D) = Len(l) /\ Len(l) \in Nat
  BY WholeLog
<1>2. \A i, j \in D : <<i, j>> \in R <=> ~NotBefore(l, i, j)
  OBVIOUS
<1>3. \A i \in D : Cardinality(ReadEarlier(l, i)) \in Nat
  BY EarlierRanks
<1> HIDE DEF R
<1>4. Orders(R, D)
  <2>1. ASSUME NEW i \in D, NEW j \in D PROVE i = j \/ <<i, j>> \in R \/ <<j, i>> \in R
    BY <1>1, <1>2, ReadingOrder
  <2>2. ASSUME NEW i \in D, NEW j \in D, NEW k \in D, <<i, j>> \in R, <<j, k>> \in R PROVE <<i, k>> \in R
    <3>1. ~NotBefore(l, i, j) /\ ~NotBefore(l, j, k)
      BY <1>2, <2>2
    <3>2. NotBefore(l, j, i) /\ NotBefore(l, i, k) => NotBefore(l, j, k)
      BY <1>1, ReadingOrder
    <3>3. NotBefore(l, j, i)
      BY <1>1, <3>1, ReadingOrder
    <3> QED
      BY <1>2, <3>1, <3>2, <3>3
  <2>3. \A i \in D : <<i, i>> \notin R
    BY <1>1, <1>2, ReadingOrder
  <2> QED
    BY <2>1, <2>2, <2>3 DEF Orders
<1>5. \A i \in D : Before(R, D, i) = ReadEarlier(l, i)
  BY <1>2 DEF Before, ReadEarlier
<1>6. \A n \in Nat : Foremost(R, D, n) = FirstRows(l, n)
  BY <1>5 DEF Foremost, FirstRows
<1>7. \A n \in Nat : n <= Len(l) => Cardinality(FirstRows(l, n)) = n
  BY <1>1, <1>4, <1>6, FirstMany
<1>8. \A n : FirstRows(l, n) \subseteq D /\ IsFiniteSet(FirstRows(l, n))
  <2> TAKE n
  <2>1. FirstRows(l, n) \subseteq D
    BY DEF FirstRows
  <2> QED
    BY <1>1, <2>1, FS_Subset
<1>9. FirstRows(l, 0) = {}
  BY <1>3 DEF FirstRows
<1>10. FirstRows(l, Len(l)) = D
  <2>1. Cardinality(FirstRows(l, Len(l))) = Cardinality(D)
    BY <1>1, <1>7
  <2> QED
    BY <1>1, <1>8, <2>1, FS_Subset
<1>11. ASSUME NEW n \in 1 .. Len(l)
       PROVE  /\ RowAt(l, n) \in DOMAIN l \ FirstRows(l, n - 1)
              /\ FirstRows(l, n) = FirstRows(l, n - 1) \cup {RowAt(l, n)}
              /\ \A i \in FirstRows(l, n - 1) : NotBefore(l, RowAt(l, n), i)
  <2>1. n \in Nat /\ n - 1 \in Nat /\ n <= Len(l) /\ n - 1 <= Len(l)
    BY <1>1
  <2>2. Cardinality(FirstRows(l, n)) = n /\ Cardinality(FirstRows(l, n - 1)) = n - 1
    BY <1>7, <2>1
  <2>3. ~(FirstRows(l, n) \subseteq FirstRows(l, n - 1))
    <3>1. FirstRows(l, n) \subseteq FirstRows(l, n - 1)
            => Cardinality(FirstRows(l, n)) <= Cardinality(FirstRows(l, n - 1))
      BY <1>8, FS_Subset
    <3> QED
      BY <2>1, <2>2, <3>1
  <2>4. \E i \in D : Cardinality(ReadEarlier(l, i)) = n - 1
    BY <1>3, <2>1, <2>3 DEF FirstRows
  <2> DEFINE k == RowAt(l, n)
  <2>5. k \in D /\ Cardinality(ReadEarlier(l, k)) = n - 1
    BY <2>4 DEF RowAt
  <2> HIDE DEF k
  <2>6. \A i \in D : Cardinality(ReadEarlier(l, i)) = n - 1 => i = k
    <3> TAKE i \in D
    <3> HAVE Cardinality(ReadEarlier(l, i)) = n - 1
    <3>1. i \notin ReadEarlier(l, k) /\ k \notin ReadEarlier(l, i)
      BY <2>1, <2>5, EarlierRanks
    <3>2. NotBefore(l, i, k) /\ NotBefore(l, k, i)
      BY <2>5, <3>1 DEF ReadEarlier
    <3> QED
      BY <1>1, <2>5, <3>2, ReadingOrder
  <2>7. k \in D \ FirstRows(l, n - 1)
    BY <2>1, <2>5 DEF FirstRows
  <2>8. FirstRows(l, n) = FirstRows(l, n - 1) \cup {k}
    <3>1. ASSUME NEW i \in D PROVE i \in FirstRows(l, n) <=> i \in FirstRows(l, n - 1) \/ i = k
      BY <1>3, <2>1, <2>5, <2>6 DEF FirstRows
    <3> QED
      BY <1>8, <2>5, <3>1
  <2>9. ASSUME NEW i \in FirstRows(l, n - 1) PROVE NotBefore(l, k, i)
    <3>1. i \in D /\ Cardinality(ReadEarlier(l, i)) < n - 1 /\ Cardinality(ReadEarlier(l, i)) \in Nat
      BY <1>3 DEF FirstRows
    <3>2. k \notin ReadEarlier(l, i)
      BY <2>1, <2>5, <3>1, EarlierRanks
    <3> QED
      BY <2>5, <3>1, <3>2 DEF ReadEarlier
  <2> QED
    BY <2>7, <2>8, <2>9 DEF k
<1> QED
  BY <1>9, <1>10, <1>11

\* One turn of the loop reads one row more.
LEMMA PartGoesOn ==
  ASSUME NEW l \in Seq(Row), NEW n \in 1 .. Len(l)
  PROVE  /\ ReadNext(FirstPart(l, n - 1), RowAt(l, n), FirstPart(l, n))
         /\ FirstPart(l, n)[RowAt(l, n)] = l[RowAt(l, n)] /\ l[RowAt(l, n)].pilot \in Pilots
<1> DEFINE k == RowAt(l, n)
           m == FirstPart(l, n - 1)
           m2 == FirstPart(l, n)
<1>1. /\ k \in DOMAIN l \ FirstRows(l, n - 1) /\ FirstRows(l, n) = FirstRows(l, n - 1) \cup {k}
      /\ \A i \in FirstRows(l, n - 1) : NotBefore(l, k, i)
  BY FirstRowsAre
<1>2. /\ DOMAIN m = FirstRows(l, n - 1) /\ DOMAIN m2 = FirstRows(l, n)
      /\ \A i \in DOMAIN m : m[i] = l[i]
      /\ \A i \in DOMAIN m2 : m2[i] = l[i]
  BY DEF FirstPart
<1>3. \A j : FirstRows(l, j) \subseteq DOMAIN l
  BY DEF FirstRows
<1>4. PartOfLog(l) /\ l[k] \in Row
  BY <1>1, WholeLog
<1> HIDE DEF k, m, m2
<1>5. PartOfLog(m) /\ PartOfLog(m2)
  <2>1. IsFiniteSet(DOMAIN m) /\ IsFiniteSet(DOMAIN m2)
    BY <1>2, <1>3, <1>4, FS_Subset DEF PartOfLog
  <2>2. DOMAIN m \subseteq DOMAIN l /\ DOMAIN m2 \subseteq DOMAIN l
    BY <1>2, <1>3
  <2> QED
    BY <1>2, <1>4, <2>1, <2>2 DEF PartOfLog
<1>6. \A i \in DOMAIN m : m2[i] = m[i] /\ NotBefore(m2, k, i)
  <2> TAKE i \in DOMAIN m
  <2>1. m2[k] = l[k] /\ m2[i] = l[i] /\ m[i] = l[i] /\ NotBefore(l, k, i)
    BY <1>1, <1>2
  <2> QED
    BY <2>1 DEF NotBefore
<1>7. ReadNext(m, k, m2)
  BY <1>1, <1>2, <1>5, <1>6 DEF ReadNext
<1>8. m2[k] = l[k] /\ l[k].pilot \in Pilots
  BY <1>1, <1>2, <1>4 DEF Row
<1> QED
  BY <1>7, <1>8 DEF k, m, m2

\* The dictionary after n rows is read off those n rows.
ReadOff(l) == [n \in 0 .. Len(l) |-> [p \in Pilots |-> Derived(FirstPart(l, n), p)]]

\* One turn of the loop, for a dictionary of sessions.
Turn(l, n, s) == [s EXCEPT ![l[RowAt(l, n)].pilot] = Apply(@, l[RowAt(l, n)])]

\* A function is the pass over the log.
IsPass(l, g) ==
  g = [n \in 0 .. Len(l) |-> IF n = 0 THEN [p \in Pilots |-> NoSession] ELSE Turn(l, n, g[n - 1])]

\* That is the pass.
LEMMA ReadOffIsPass ==
  ASSUME NEW l \in Seq(Row)
  PROVE  IsPass(l, ReadOff(l))
<1> DEFINE N == Len(l)
           g == ReadOff(l)
           State(n) == [p \in Pilots |-> Derived(FirstPart(l, n), p)]
<1>1. N \in Nat /\ g = [n \in 0 .. N |-> State(n)]
  BY DEF ReadOff
<1>2. State(0) = [p \in Pilots |-> NoSession]
  <2>1. FirstRows(l, 0) = {}
    BY FirstRowsAre
  <2>2. DOMAIN FirstPart(l, 0) = {}
    BY <2>1 DEF FirstPart
  <2>3. \A p : Derived(FirstPart(l, 0), p) = NoSession
    BY <2>2 DEF Derived, Exists, RowsOf
  <2> QED
    BY <2>3
<1>3. ASSUME NEW n \in 1 .. N PROVE State(n) = Turn(l, n, State(n - 1))
  <2> DEFINE k == RowAt(l, n)
             m == FirstPart(l, n - 1)
             m2 == FirstPart(l, n)
  <2>1. ReadNext(m, k, m2) /\ m2[k] = l[k] /\ l[k].pilot \in Pilots
    BY PartGoesOn
  <2> DEFINE r == l[k]
  <2>2. Turn(l, n, State(n - 1)) = [State(n - 1) EXCEPT ![r.pilot] = Apply(@, r)]
    BY DEF Turn
  <2> HIDE DEF m, m2, k
  <2>3. \A p \in Pilots : p # r.pilot => Derived(m2, p) = Derived(m, p)
    BY <2>1, DerivedStays
  <2>4. Derived(m2, r.pilot) = Apply(Derived(m, r.pilot), r)
    BY <2>1, DerivedApplies
  <2>5. State(n) = [p \in Pilots |-> Derived(m2, p)] /\ State(n - 1) = [p \in Pilots |-> Derived(m, p)]
    BY DEF m, m2
  <2> HIDE DEF State, r
  <2>6. State(n) = [State(n - 1) EXCEPT ![r.pilot] = Apply(@, r)]
    BY <2>1, <2>3, <2>4, <2>5 DEF r
  <2> QED
    BY <2>2, <2>6
<1> HIDE DEF State, g
<1>4. \A n \in 0 .. N : g[n] = IF n = 0 THEN [p \in Pilots |-> NoSession] ELSE Turn(l, n, g[n - 1])
  <2> TAKE n \in 0 .. N
  <2>1. CASE n = 0
    BY <1>1, <1>2, <2>1
  <2>2. CASE n # 0
    <3>1. n \in 1 .. N /\ n - 1 \in 0 .. N
      BY <1>1, <2>2
    <3>2. g[n] = State(n) /\ g[n - 1] = State(n - 1)
      BY <1>1, <3>1
    <3> QED
      BY <1>3, <2>2, <3>1, <3>2
  <2> QED
    BY <2>1, <2>2
<1> DEFINE E(n) == IF n = 0 THEN [p \in Pilots |-> NoSession] ELSE Turn(l, n, g[n - 1])
<1> HIDE DEF E
<1>5. g = [n \in 0 .. N |-> E(n)]
  BY <1>1, <1>4 DEF E
<1> QED
  BY <1>5 DEF IsPass, E, g

\* There is one pass.
LEMMA OnePass ==
  ASSUME NEW l \in Seq(Row), NEW g, NEW h, IsPass(l, g), IsPass(l, h)
  PROVE  \A n \in 0 .. Len(l) : g[n] = h[n]
<1> DEFINE N == Len(l)
           Bad == {n \in Nat : n <= N /\ g[n] # h[n]}
<1>1. N \in Nat
  OBVIOUS
<1>2. SUFFICES ASSUME Bad # {} PROVE FALSE
  BY <1>1
<1>3. Bad \subseteq Nat
  OBVIOUS
<1> HIDE DEF Bad
<1>4. PICK n \in Bad : \A e \in Bad : ~(<<e, n>> \in OpToRel(<, Nat))
  BY <1>2, <1>3, NatLessThanWellFounded, WFMin, Zenon
<1>5. \A e \in Bad : ~(e < n)
  BY <1>3, <1>4, Zenon DEF OpToRel
<1>6. n \in Nat /\ n <= N /\ g[n] # h[n]
  BY DEF Bad
<1>7. ASSUME NEW f, IsPass(l, f)
      PROVE  f[n] = IF n = 0 THEN [p \in Pilots |-> NoSession] ELSE Turn(l, n, f[n - 1])
  <2> DEFINE E(i) == IF i = 0 THEN [p \in Pilots |-> NoSession] ELSE Turn(l, i, f[i - 1])
  <2>1. f = [i \in 0 .. N |-> E(i)]
    BY <1>7 DEF IsPass
  <2> HIDE DEF E
  <2>2. f[n] = E(n)
    BY <1>1, <1>6, <2>1
  <2> QED
    BY <2>2 DEF E
<1>8. CASE n = 0
  BY <1>6, <1>7, <1>8
<1>9. CASE n # 0
  <2>1. n - 1 \in Nat /\ n - 1 <= N /\ n - 1 < n
    BY <1>1, <1>6, <1>9
  <2>2. g[n - 1] = h[n - 1]
    <3>1. n - 1 \notin Bad
      BY <1>5, <2>1
    <3> QED
      BY <2>1, <3>1 DEF Bad
  <2>3. g[n] = Turn(l, n, g[n - 1]) /\ h[n] = Turn(l, n, h[n - 1])
    BY <1>7, <1>9
  <2> QED
    BY <1>6, <2>2, <2>3
<1> QED
  BY <1>8, <1>9

\* For any log whatever.
LEMMA FoldOfLog ==
  ASSUME NEW l \in Seq(Row), NEW p \in Pilots
  PROVE  Sessions(l)[p] = Derived(l, p)
<1> DEFINE N == Len(l)
           g == CHOOSE f : IsPass(l, f)
<1>1. N \in Nat /\ N \in 0 .. N
  OBVIOUS
<1>2. IsPass(l, g)
  BY ReadOffIsPass
<1>3. Sessions(l) = g[N]
  BY DEF Sessions, IsPass, Turn
<1> HIDE DEF g
<1>4. g[N] = ReadOff(l)[N]
  BY <1>1, <1>2, ReadOffIsPass, OnePass
<1>5. ReadOff(l)[N] = [q \in Pilots |-> Derived(FirstPart(l, N), q)]
  BY <1>1 DEF ReadOff
<1>6. FirstPart(l, N) = l
  <2>1. FirstRows(l, N) = DOMAIN l
    BY FirstRowsAre
  <2>2. l = [i \in DOMAIN l |-> l[i]]
    OBVIOUS
  <2> QED
    BY <2>1, <2>2 DEF FirstPart
<1> QED
  BY <1>3, <1>4, <1>5, <1>6

\* load_pilot_sessions goes over the rows in the order of the query and overwrites a
\* dictionary; what it returns of a session is what its last start and its last row say,
\* whatever rows the commands have written and under whatever timestamps.
THEOREM FoldIsOutcome == Spec => []FoldAgrees
<1>1. TypeOK => FoldAgrees
  BY FoldOfLog DEF TypeOK, FoldAgrees
<1> QED
  BY <1>1, TypeCorrect, PTL

=============================================================================
