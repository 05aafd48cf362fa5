--------------------------- MODULE PaperDesk_proofs ---------------------------
(***************************************************************************)
(* Proofs about PaperDesk, for any number of workers, runs and kills, and  *)
(* any chains, markets and limits: its types, the trail that explains each *)
(* row, that torn positions do not pile up, and how far workers that       *)
(* overlap can exceed a limit of the portfolio.                            *)
(***************************************************************************)
EXTENDS PaperDesk, SumLemmas, FiniteSetTheorems, SequenceTheorems, WellFoundedInduction, TLAPS

-----------------------------------------------------------------------------
(* The inductive invariant *)

\* The steps of a run from each commit on, until it goes on to its report.
FromExitAudit == {"exitAudit"}
FromExit == FromExitAudit \cup {"exit"}
FromMarkAudit == FromExit \cup {"markAudit"}
FromPositionAudit == FromMarkAudit \cup {"positionAudit"}
FromFill == FromPositionAudit \cup {"fill"}
FromPosition == FromFill \cup {"position"}
FromFillAudit == FromPosition \cup {"fillAudit"}
FromTicketAudit == FromFillAudit \cup {"ticketAudit"}
FromTicket == FromTicketAudit \cup {"ticket"}

\* What worker w holds in memory fits its step.
Memory(w) ==
  /\ pc[w] \in Steps
  /\ pc[w] = "idle" => run[w] = None
  /\ pc[w] = "assess" => run[w] \in Reconciled
  /\ pc[w] \notin {"idle", "assess"} => run[w] \in Judged
  /\ pc[w] # "idle" => run[w].id \in 1 .. started
  /\ pc[w] = "candidate" => run[w].written < Len(run[w].scan)
  /\ pc[w] \in FromTicket =>
       run[w].status = "APPROVED" /\ Selected(run[w]) \in 1 .. run[w].written

\* What the tables hold of run id.
HasCandidates(id, numbers) ==
  \A n \in numbers : \E c \in candidates : c.run = id /\ c.number = n
HasTicket(id) == \E t \in tickets : t.run = id
HasPosition(id) == \E p \in positions : p.run = id
HasFilledPosition(id) == \E p \in Priced : p.run = id

\* What worker w has committed so far is in the tables.
Committed(w) ==
  LET id == run[w].id IN
  /\ pc[w] \notin {"idle", "assess"} => HasCandidates(id, 1 .. run[w].written)
  /\ pc[w] \in FromTicketAudit => HasTicket(id)
  /\ pc[w] \in FromFillAudit => Logged(id, {"TICKET_CREATED"})
  /\ pc[w] \in FromPosition => Logged(id, {"FILLED"})
  /\ pc[w] \in FromFill => HasPosition(id)
  /\ pc[w] \in FromPositionAudit => HasFilledPosition(id)
  /\ pc[w] \in FromMarkAudit => Logged(id, {"POSITION_RECORDED"})
  /\ pc[w] \in FromExit => Logged(id, {"MARK_UPDATED"})

\* The rows of the tables refer to each other.
Rows ==
  /\ \A c \in candidates : c.run \in 1 .. started /\ c.number \in Nat \ {0}
  /\ \A t \in tickets : /\ t.contracts \in Nat \ {0}
                        /\ \E c \in candidates : c.run = t.run /\ c.number = t.candidate
  /\ \A p \in positions : p.run \in 1 .. started /\ p.quantity \in Nat \ {0}
  /\ \A f \in fills : HasTicket(f.ticket)
  /\ \A x \in exits : HasPosition(x.position)
  /\ \A a \in audit : a.run \in 1 .. started /\ a.kind \in Kinds

\* Functions over the workers, and the counters within their bounds.
Shape ==
  /\ pc = [w \in Workers |-> pc[w]] /\ run = [w \in Workers |-> run[w]]
  /\ started \in 0 .. MaxRuns /\ crashes \in 0 .. MaxCrashes

IInv ==
  /\ Shape /\ Rows /\ TrailLeadsRows
  /\ \A w \in Workers : Memory(w) /\ Committed(w)

\* Positions without their fill.
Torn == positions \ Priced

\* Worker w opens no further position while position t is torn: it is about to insert
\* the fill of t, it is over, or its reconciliation sees t.
Spent(w, t) ==
  \/ pc[w] \in {"idle", "report"}
  \/ pc[w] = "assess" /\ t.run \in run[w].open
  \/ pc[w] = "candidate" /\ run[w].status # "APPROVED"
  \/ pc[w] = "fill" /\ run[w].id = t.run

\* Each torn position has used up a worker of its own.
TornHaveWorkers ==
  \E owner \in Injection(Torn, Workers) : \A t \in Torn : Spent(owner[t], t)

-----------------------------------------------------------------------------
(* Rows are only added *)

Grown ==
  /\ candidates \subseteq candidates' /\ tickets \subseteq tickets'
  /\ positions \subseteq positions' /\ fills \subseteq fills' /\ audit \subseteq audit'
  /\ started \in Nat /\ started' \in Nat /\ started <= started'

\* What the tables hold of a run they go on holding.
LEMMA StillThere ==
  ASSUME Grown, NEW id
  PROVE  /\ \A numbers : HasCandidates(id, numbers) => HasCandidates(id, numbers)'
         /\ HasTicket(id) => HasTicket(id)'
         /\ HasPosition(id) => HasPosition(id)'
         /\ HasFilledPosition(id) => HasFilledPosition(id)'
         /\ \A kinds : Logged(id, kinds) => Logged(id, kinds)'
<1>1. \A numbers : HasCandidates(id, numbers) => HasCandidates(id, numbers)'
  BY DEF Grown, HasCandidates
<1>2. (HasTicket(id) => HasTicket(id)') /\ (HasPosition(id) => HasPosition(id)')
  BY DEF Grown, HasTicket, HasPosition
<1>3. HasFilledPosition(id) => HasFilledPosition(id)'
  BY DEF Grown, HasFilledPosition, Priced
<1>4. \A kinds : Logged(id, kinds) => Logged(id, kinds)'
  <2> TAKE kinds
  <2>1. {a.kind : a \in {b \in audit : b.run = id}}
          \subseteq {a.kind : a \in {b \in audit' : b.run = id}}
    BY DEF Grown
  <2> QED
    BY <2>1 DEF Logged
<1> QED
  BY <1>1, <1>2, <1>3, <1>4

\* A worker that takes no step keeps its part of the invariant.
LEMMA OthersKeep ==
  ASSUME NEW v \in Workers, Memory(v), Committed(v), Grown,
         pc'[v] = pc[v], run'[v] = run[v]
  PROVE  Memory(v)' /\ Committed(v)'
<1>1. Memory(v)'
  BY DEF Memory, Grown
<1>2. Committed(v)'
  BY StillThere DEF Committed
<1> QED
  BY <1>1, <1>2

\* Two sets of kinds are logged when each is.
LEMMA LoggedTogether ==
  ASSUME NEW id, NEW a, NEW b
  PROVE  Logged(id, {a, b}) <=> Logged(id, {a}) /\ Logged(id, {b})
BY DEF Logged


\* The step of one worker: what is left to show is about its own run and the new rows.
LEMMA OneWorker ==
  ASSUME IInv, NEW w \in Workers, NEW step, NEW new,
         pc' = [pc EXCEPT ![w] = step], run' \in {run, [run EXCEPT ![w] = new]},
         Grown, started' \in 0 .. MaxRuns, crashes' \in 0 .. MaxCrashes,
         Memory(w)', Committed(w)', Rows', TrailLeadsRows'
  PROVE  IInv'
<1>1. \A v \in Workers : v # w => pc'[v] = pc[v] /\ run'[v] = run[v]
  BY DEF IInv, Shape
<1>2. Shape'
  BY DEF IInv, Shape
<1>3. \A v \in Workers : Memory(v)' /\ Committed(v)'
  BY <1>1, OthersKeep DEF IInv
<1> QED
  BY <1>2, <1>3 DEF IInv

-----------------------------------------------------------------------------
(* One action after the other *)

\* Before the first run nothing is in memory or in the tables.
LEMMA InitHolds == Init => IInv
<1> SUFFICES ASSUME Init PROVE IInv
  OBVIOUS
<1>1. Shape
  BY DeskAssumption DEF Init, Shape
<1>2. Rows /\ TrailLeadsRows
  BY DEF Init, Rows, TrailLeadsRows
<1>3. ASSUME NEW w \in Workers PROVE Memory(w) /\ Committed(w)
  BY <1>3 DEF Init, Memory, Committed, Steps, FromTicket, FromTicketAudit, FromFillAudit,
     FromPosition, FromFill, FromPositionAudit, FromMarkAudit, FromExit, FromExitAudit
<1> QED
  BY <1>1, <1>2, <1>3 DEF IInv

\* The end of a run, whatever the reason: the tables stay.
LEMMA RunEnds ==
  ASSUME IInv, NEW w \in Workers, Goto(w, "idle"), run' = [run EXCEPT ![w] = None],
         UNCHANGED <<tables, started>>, crashes' \in 0 .. MaxCrashes
  PROVE  IInv'
<1>1. /\ UNCHANGED <<candidates, tickets, positions, fills, exits, audit, started>>
      /\ pc'[w] = "idle" /\ run'[w] = None
  BY DEF tables, Goto, IInv, Shape
<1>2. Grown /\ started' \in 0 .. MaxRuns
  BY <1>1 DEF Grown, IInv, Shape
<1>3. Memory(w)' /\ Committed(w)'
  BY <1>1 DEF Memory, Committed, Steps, FromTicket, FromTicketAudit, FromFillAudit,
     FromPosition, FromFill, FromPositionAudit, FromMarkAudit, FromExit, FromExitAudit
<1>4. Rows' /\ TrailLeadsRows'
  BY <1>1 DEF IInv, Rows, HasTicket, HasPosition, TrailLeadsRows, Logged, Priced
<1> QED
  BY <1>2, <1>3, <1>4, OneWorker DEF Goto

\* A row of the trail.
LEMMA LogHolds ==
  ASSUME IInv, NEW w \in Workers, pc[w] # "idle", NEW kind \in Kinds, NEW credit,
         Log(w, kind, credit), UNCHANGED <<candidates, tickets, positions, fills, exits, started>>
  PROVE  /\ Grown /\ Rows' /\ TrailLeadsRows'
         /\ run' = run => Logged(run[w].id, {kind})'
<1> DEFINE row == [run |-> run[w].id, kind |-> kind, credit |-> credit]
<1>1. audit' = audit \cup {row}
  BY DEF Log
<1>2. Grown
  BY <1>1 DEF Grown, IInv, Shape
<1>3. run[w].id \in 1 .. started
  BY DEF IInv, Memory
<1>4. Rows'
  BY <1>1, <1>3 DEF IInv, Rows, HasTicket, HasPosition
<1>5. Priced' = Priced
  BY DEF Priced
<1>6. TrailLeadsRows'
  BY <1>2, <1>5, StillThere DEF IInv, TrailLeadsRows
<1>7. ASSUME run' = run PROVE Logged(run[w].id, {kind})'
  <2>1. row \in audit' /\ row.run = run[w].id /\ row.kind = kind
    BY <1>1
  <2>2. kind \in {a.kind : a \in {b \in audit' : b.run = run[w].id}}
    BY <2>1
  <2> QED
    BY <1>7, <2>2 DEF Logged
<1> QED
  BY <1>2, <1>4, <1>6, <1>7

\* The four steps that only log: the ticket, the position, its mark and its exit.
LEMMA AuditHolds ==
  ASSUME IInv, NEW w \in Workers,
         AuditTicket(w) \/ AuditPosition(w) \/ AuditMark(w) \/ AuditExit(w)
  PROVE  IInv'
<1> USE DEF FromTicket, FromTicketAudit, FromFillAudit, FromPosition, FromFill,
            FromPositionAudit, FromMarkAudit, FromExit, FromExitAudit
<1> DEFINE id == run[w].id
<1>1. ASSUME NEW kind \in Kinds, NEW step \in Steps \ {"idle", "assess", "candidate"},
             pc[w] \in FromTicketAudit, Log(w, kind, 0), Goto(w, step),
             step \in FromTicket => step \in FromTicketAudit,
             Committed(w)',
             UNCHANGED <<run, candidates, tickets, positions, fills, exits, started, crashes>>
      PROVE  IInv'
  <2>1. pc' = [pc EXCEPT ![w] = step] /\ pc'[w] = step /\ run' = run
    BY <1>1 DEF Goto, IInv, Shape
  <2>2. Grown /\ Rows' /\ TrailLeadsRows'
    BY <1>1, LogHolds
  <2>3. Memory(w)'
    BY <1>1, <2>1 DEF IInv, Memory
  <2> QED
    BY <1>1, <2>1, <2>2, <2>3, OneWorker DEF IInv, Shape
<1>2. ASSUME NEW step, Goto(w, step) PROVE pc'[w] = step
  BY <1>2 DEF Goto, IInv, Shape
<1>3. Committed(w)
  BY DEF IInv
<1>4. CASE AuditTicket(w)
  <2>1. Grown /\ Logged(id, {"TICKET_CREATED"})'
    BY <1>4, LogHolds DEF AuditTicket, Kinds
  <2>2. Committed(w)'
    BY <1>2, <1>3, <1>4, <2>1, StillThere DEF AuditTicket, Committed
  <2> QED
    BY <1>1, <1>4, <2>2 DEF AuditTicket, Kinds, Steps
<1>5. CASE AuditPosition(w)
  <2>1. Grown /\ Logged(id, {"POSITION_RECORDED"})'
    BY <1>5, LogHolds DEF AuditPosition, Kinds
  <2>2. Committed(w)'
    BY <1>2, <1>3, <1>5, <2>1, StillThere DEF AuditPosition, Committed
  <2> QED
    BY <1>1, <1>5, <2>2 DEF AuditPosition, Kinds, Steps
<1>6. CASE AuditMark(w)
  <2>1. Grown /\ Logged(id, {"MARK_UPDATED"})'
    BY <1>6, LogHolds DEF AuditMark, Kinds
  <2>2. Committed(w)'
    BY <1>2, <1>3, <1>6, <2>1, StillThere DEF AuditMark, Committed
  <2> QED
    BY <1>1, <1>6, <2>2 DEF AuditMark, Kinds, Steps
<1>7. CASE AuditExit(w)
  <2>1. Grown
    BY <1>7, LogHolds DEF AuditExit, Kinds
  <2>2. Committed(w)'
    BY <1>2, <1>3, <1>7, <2>1, StillThere DEF AuditExit, Committed
  <2> QED
    BY <1>1, <1>7, <2>2 DEF AuditExit, Kinds, Steps
<1> QED
  BY <1>4, <1>5, <1>6, <1>7

\* A run takes the next number and notes what is open.
LEMMA ReconcileHolds ==
  ASSUME IInv, NEW w \in Workers, Reconcile(w)
  PROVE  IInv'
<1> DEFINE new == [id |-> started + 1, open |-> {p.run : p \in positions}]
<1>1. /\ pc' = [pc EXCEPT ![w] = "assess"] /\ pc'[w] = "assess"
      /\ run' = [run EXCEPT ![w] = new] /\ run'[w] = new
      /\ UNCHANGED <<candidates, tickets, positions, fills, exits, audit, crashes>>
      /\ started < MaxRuns /\ started' = started + 1
  BY DEF Reconcile, Goto, IInv, Shape, tables
<1>2. Grown /\ started' \in 0 .. MaxRuns
  BY <1>1, DeskAssumption DEF Grown, IInv, Shape
<1>3. new \in Reconciled
  BY DEF IInv, Shape, Rows, Reconciled
<1>4. Memory(w)' /\ Committed(w)'
  <2> HIDE DEF new
  <2>1. run'[w] \in Reconciled /\ run'[w].id \in 1 .. started'
    BY <1>1, <1>2, <1>3 DEF new, Grown
  <2> QED
    BY <1>1, <2>1 DEF Memory, Committed, Steps, FromTicket, FromTicketAudit, FromFillAudit,
       FromPosition, FromFill, FromPositionAudit, FromMarkAudit, FromExit, FromExitAudit
<1>5. Rows' /\ TrailLeadsRows'
  BY <1>1, <1>2 DEF IInv, Shape, Rows, HasTicket, HasPosition, TrailLeadsRows, Logged, Priced, Grown
<1> QED
  BY <1>1, <1>2, <1>4, <1>5, OneWorker DEF IInv, Shape

\* The verdicts of scanner and eligibility are among their statuses.
LEMMA VerdictTypes ==
  /\ \A e : Regime(e) \in States /\ \A regime : KillSwitch(e, regime) \in States
  /\ \A spread, regime, budget, kill : ScanStatus(spread, regime, budget, kill) \in ScanStatuses
  /\ \A scan, data, regime, risk, size, kill :
       TradeStatus(scan, data, regime, risk, size, kill) \in TradeStatuses
BY DEF Regime, KillSwitch, States, ScanStatus, ScanStatuses, TradeStatus, TradeStatuses

\* The trade a run was judged by.
TradeOf(r) ==
  LET best == r.chain.spreads[IF Selected(r) = 0 THEN 1 ELSE Selected(r)] IN
  [underlying |-> r.chain.underlying, expiration |-> r.chain.expiration,
   loss |-> r.size * MaxLossPerSpread(best.width, best.credit)]

\* What Assess leaves in memory.
LEMMA AssessFinds ==
  ASSUME IInv, NEW w \in Workers, Assess(w)
  PROVE  /\ pc' = [pc EXCEPT ![w] = "candidate"]
         /\ \E new \in Judged :
              /\ run' = [run EXCEPT ![w] = new]
              /\ new.id = run[w].id /\ new.written = 0 /\ Len(new.scan) > 0
              /\ DOMAIN new.scan = DOMAIN new.chain.spreads
              /\ Unverified(run[w].open) # {} => new.status # "APPROVED"
              /\ new.status = "APPROVED" =>
                   \E e : /\ e.equity \in {0, Equity}
                          /\ PortfolioRiskPasses(Book, TradeOf(new), e)
<1>1. PICK day \in Days, chain \in Chains, size \in Sizes, asked \in BOOLEAN :
       LET e == [day EXCEPT !.verified = Unverified(run[w].open) = {}]
           regime == Regime(e)
           kill == IF asked THEN KillSwitch(e, regime) ELSE None
           scan == [n \in DOMAIN chain.spreads |-> ScanStatus(chain.spreads[n], regime, None, kill)]
           found == Selected([scan |-> scan])
           best == chain.spreads[IF found = 0 THEN 1 ELSE found]
           trade == [underlying |-> chain.underlying, expiration |-> chain.expiration,
                     loss |-> size * MaxLossPerSpread(best.width, best.credit)]
           status == TradeStatus("WATCHLIST", DataPassed(e), regime,
                                 PortfolioRiskPasses(Book, trade, e), size, kill)
       IN run' = [run EXCEPT ![w] =
            [id |-> run[w].id, chain |-> chain, size |-> size, regime |-> regime,
             kill |-> kill, scan |-> scan, status |-> status, written |-> 0]]
  BY DEF Assess
<1> DEFINE e == [day EXCEPT !.verified = Unverified(run[w].open) = {}]
           regime == Regime(e)
           kill == IF asked THEN KillSwitch(e, regime) ELSE None
           scan == [n \in DOMAIN chain.spreads |-> ScanStatus(chain.spreads[n], regime, None, kill)]
           found == Selected([scan |-> scan])
           best == chain.spreads[IF found = 0 THEN 1 ELSE found]
           trade == [underlying |-> chain.underlying, expiration |-> chain.expiration,
                     loss |-> size * MaxLossPerSpread(best.width, best.credit)]
           risk == PortfolioRiskPasses(Book, trade, e)
           status == TradeStatus("WATCHLIST", DataPassed(e), regime, risk, size, kill)
           new == [id |-> run[w].id, chain |-> chain, size |-> size, regime |-> regime,
                   kill |-> kill, scan |-> scan, status |-> status, written |-> 0]
<1>2. run' = [run EXCEPT ![w] = new]
  BY <1>1
<1>3. regime \in States /\ kill \in States \cup {None} /\ status \in TradeStatuses
  BY VerdictTypes, ZenonT(40)
<1>4. scan \in Seq(ScanStatuses) /\ Len(scan) > 0
  <2> HIDE DEF regime, kill
  <2>1. chain.spreads # <<>> /\ chain.spreads \in Seq(Range(chain.spreads))
    BY DeskAssumption
  <2>2. DOMAIN chain.spreads = 1 .. Len(chain.spreads) /\ Len(chain.spreads) \in Nat \ {0}
    BY <2>1, LenProperties, EmptySeq
  <2> QED
    BY <2>2, VerdictTypes
<1>5. run[w].id \in Nat
  <2>1. pc[w] = "assess"
    BY DEF Assess
  <2> QED
    BY <2>1 DEF IInv, Memory, Reconciled
<1>6. ASSUME Unverified(run[w].open) # {} PROVE status # "APPROVED"
  <2>1. e.verified = FALSE
    BY <1>6, DeskAssumption
  <2> HIDE DEF e
  <2>2. regime = "BLACK"
    BY <2>1 DEF Regime, BlackRegime
  <2> HIDE DEF regime, risk
  <2> QED
    BY <2>2 DEF TradeStatus
<1>7. DOMAIN new.scan = DOMAIN new.chain.spreads
  OBVIOUS
<1>8. ASSUME status = "APPROVED" PROVE e.equity \in {0, Equity} /\ risk
  <2>1. e.equity = day.equity
    BY MarketAssumption
  <2> HIDE DEF e, risk, regime, kill
  <2> QED
    BY <1>8, <2>1, MarketAssumption DEF TradeStatus
<1>9. Selected(new) = found
  BY DEF Selected
<1> HIDE DEF e, regime, kill, scan, found, risk, status
<1>10. TradeOf(new) = trade
  <2>1. new.chain = chain /\ new.size = size
    OBVIOUS
  <2> HIDE DEF new
  <2> QED
    BY <1>9, <2>1 DEF TradeOf
<1> HIDE DEF best, trade
<1>11. new \in Judged
  BY <1>3, <1>4, <1>5 DEF Judged
<1>12. pc' = [pc EXCEPT ![w] = "candidate"]
  BY DEF Assess, Goto
<1>13. ASSUME new.status = "APPROVED"
       PROVE  \E d : d.equity \in {0, Equity} /\ PortfolioRiskPasses(Book, TradeOf(new), d)
  <2>1. e.equity \in {0, Equity} /\ PortfolioRiskPasses(Book, TradeOf(new), e)
    BY <1>8, <1>10, <1>13 DEF risk
  <2> QED
    BY <2>1
<1>14. /\ new.id = run[w].id /\ new.written = 0 /\ Len(new.scan) > 0
       /\ Unverified(run[w].open) # {} => new.status # "APPROVED"
  BY <1>4, <1>6
<1> HIDE DEF new
<1> QED
  BY <1>2, <1>7, <1>11, <1>12, <1>13, <1>14

\* A run that was judged starts with no candidate written.
LEMMA AssessHolds ==
  ASSUME IInv, NEW w \in Workers, Assess(w)
  PROVE  IInv'
<1>1. PICK new \in Judged :
        /\ run' = [run EXCEPT ![w] = new]
        /\ new.id = run[w].id /\ new.written = 0 /\ Len(new.scan) > 0
  BY AssessFinds
<1>2. /\ pc' = [pc EXCEPT ![w] = "candidate"]
      /\ UNCHANGED <<candidates, tickets, positions, fills, exits, audit, started, crashes>>
  BY AssessFinds DEF Assess, tables
<1>3. pc[w] = "assess"
  BY DEF Assess
<1>4. pc'[w] = "candidate" /\ run'[w] = new
  BY <1>1, <1>2 DEF IInv, Shape
<1>5. run[w].id \in 1 .. started
  BY <1>3 DEF IInv, Memory
<1>6. Memory(w)' /\ Committed(w)'
  BY <1>1, <1>2, <1>4, <1>5 DEF Memory, Committed, HasCandidates, Steps, FromTicket,
     FromTicketAudit, FromFillAudit, FromPosition, FromFill, FromPositionAudit, FromMarkAudit,
     FromExit, FromExitAudit
<1>7. Grown /\ Rows' /\ TrailLeadsRows'
  BY <1>2 DEF IInv, Shape, Rows, HasTicket, HasPosition, TrailLeadsRows, Logged, Priced, Grown
<1> QED
  BY <1>1, <1>2, <1>6, <1>7, OneWorker DEF IInv, Shape

\* The run goes for a spread that was scanned.
LEMMA SelectedIsScanned ==
  ASSUME NEW r, r.scan \in Seq(ScanStatuses), Selected(r) # 0
  PROVE  Selected(r) \in 1 .. Len(r.scan)
<1> DEFINE eligible == {n \in DOMAIN r.scan : r.scan[n] = "WATCHLIST"}
<1>1. eligible # {} /\ Selected(r) = Min(eligible)
  BY DEF Selected
<1>2. eligible \subseteq 1 .. Len(r.scan) /\ eligible \subseteq Nat
  BY LenProperties
<1> HIDE DEF eligible
<1>3. PICK n \in eligible : \A m \in eligible : ~(<<m, n>> \in OpToRel(<, Nat))
  BY <1>1, <1>2, NatLessThanWellFounded, WFMin, Zenon
<1>4. \A m \in eligible : ~(m < n)
  BY <1>2, <1>3, Zenon DEF OpToRel
<1>5. \A m \in eligible : n <= m
  BY <1>2, <1>4
<1>6. Min(eligible) \in eligible
  BY <1>5 DEF Min
<1> QED
  BY <1>1, <1>2, <1>6

\* One more candidate; the ticket comes after the last one.
LEMMA CandidateHolds ==
  ASSUME IInv, NEW w \in Workers, PersistCandidate(w)
  PROVE  IInv'
<1> DEFINE r == run[w]
           n == r.written + 1
           row == [run |-> r.id, number |-> n, status |-> r.scan[n]]
           step == IF n < Len(r.scan) THEN "candidate"
                   ELSE IF Selected(r) # 0 /\ r.status = "APPROVED" THEN "ticket" ELSE "report"
           new == [r EXCEPT !.written = n]
<1>1. /\ pc[w] = "candidate" /\ candidates' = candidates \cup {row}
      /\ run' = [run EXCEPT ![w].written = n] /\ pc' = [pc EXCEPT ![w] = step]
      /\ UNCHANGED <<tickets, positions, fills, exits, audit, started, crashes>>
  BY DEF PersistCandidate, Goto
<1>2. r \in Judged /\ r.id \in 1 .. started /\ r.written < Len(r.scan)
  BY <1>1 DEF IInv, Memory
<1>3. r.scan \in Seq(ScanStatuses) /\ Len(r.scan) \in Nat /\ r.written \in Nat /\ n <= Len(r.scan)
  BY <1>2, LenProperties DEF Judged
<1>4. /\ new \in Judged /\ new.id = r.id /\ new.written = n /\ new.scan = r.scan
      /\ new.status = r.status
  BY <1>2, <1>3 DEF Judged
<1>5. run' = [run EXCEPT ![w] = new] /\ run'[w] = new /\ pc'[w] = step
  BY <1>1 DEF IInv, Shape
<1>6. Selected(new) = Selected(r)
  BY <1>4 DEF Selected
<1>7. Selected(r) # 0 => Selected(r) \in 1 .. Len(r.scan)
  BY <1>3, SelectedIsScanned
<1>8. Memory(w)'
  <2> HIDE DEF new, n, row
  <2>1. /\ step = "candidate" => n < Len(new.scan)
        /\ step = "ticket" => new.status = "APPROVED" /\ Selected(new) \in 1 .. new.written
        /\ step \in {"candidate", "ticket", "report"}
    BY <1>2, <1>3, <1>4, <1>6, <1>7 DEF n
  <2> HIDE DEF step, r
  <2>2. new \in Judged /\ new.id \in 1 .. started'
    BY <1>1, <1>2, <1>4
  <2> QED
    BY <1>4, <1>5, <2>1, <2>2 DEF Memory, Steps, FromTicket, FromTicketAudit, FromFillAudit,
       FromPosition, FromFill, FromPositionAudit, FromMarkAudit, FromExit, FromExitAudit
<1>9. Committed(w)'
  <2>1. HasCandidates(r.id, 1 .. r.written)
    BY <1>1 DEF IInv, Committed
  <2>2. \A m \in 1 .. n : \E c \in candidates' : c.run = r.id /\ c.number = m
    <3> TAKE m \in 1 .. n
    <3>1. CASE m = n
      <4>1. row \in candidates' /\ row.run = r.id /\ row.number = m
        BY <1>1, <3>1
      <4> QED
        BY <4>1
    <3>2. CASE m \in 1 .. r.written
      BY <1>1, <2>1, <3>2 DEF HasCandidates
    <3> QED
      BY <1>3, <3>1, <3>2
  <2>3. HasCandidates(run[w].id, 1 .. run[w].written)'
    BY <1>4, <1>5, <2>2 DEF HasCandidates
  <2>4. pc'[w] \in {"candidate", "ticket", "report"}
    BY <1>5
  <2> QED
    BY <2>3, <2>4 DEF Committed, FromTicket, FromTicketAudit, FromFillAudit,
       FromPosition, FromFill, FromPositionAudit, FromMarkAudit, FromExit, FromExitAudit
<1>10. Grown /\ Rows' /\ TrailLeadsRows'
  <2>1. row.run \in 1 .. started /\ row.number \in Nat \ {0}
    BY <1>2, <1>3
  <2> HIDE DEF row
  <2> QED
    BY <1>1, <2>1 DEF IInv, Shape, Rows, HasTicket, HasPosition, TrailLeadsRows, Logged, Priced, Grown
<1> QED
  <2> HIDE DEF step, new
  <2> QED
    BY <1>1, <1>5, <1>8, <1>9, <1>10, OneWorker DEF IInv, Shape

\* A ticket is for a candidate on record.
LEMMA TicketHolds ==
  ASSUME IInv, NEW w \in Workers, InsertTicket(w)
  PROVE  IInv'
<1> DEFINE r == run[w]
<1>1. PICK worst \in WorstCredits :
        tickets' = tickets \cup {[run |-> r.id, candidate |-> Selected(r), contracts |-> r.size,
                                  target |-> Spread(r).credit, worst |-> worst]}
  BY DEF InsertTicket
<1> DEFINE row == [run |-> r.id, candidate |-> Selected(r), contracts |-> r.size,
                   target |-> Spread(r).credit, worst |-> worst]
<1>2. /\ pc[w] = "ticket" /\ pc' = [pc EXCEPT ![w] = "ticketAudit"] /\ pc'[w] = "ticketAudit"
      /\ UNCHANGED <<run, candidates, positions, fills, exits, audit, started, crashes>>
  BY DEF InsertTicket, Goto, IInv, Shape
<1>3. r \in Judged /\ Selected(r) \in 1 .. r.written /\ HasCandidates(r.id, 1 .. r.written)
  BY <1>2 DEF IInv, Memory, Committed, FromTicket
<1>4. /\ row.contracts \in Nat \ {0} /\ row.run = r.id
      /\ \E c \in candidates : c.run = row.run /\ c.number = row.candidate
  BY <1>3, DeskAssumption DEF Judged, HasCandidates
<1>5. row \in tickets' /\ tickets' = tickets \cup {row}
  BY <1>1
<1> HIDE DEF row
<1>6. Grown
  BY <1>2, <1>5 DEF Grown, IInv, Shape
<1>7. Memory(w)' /\ Committed(w)'
  <2>1. HasTicket(r.id)'
    BY <1>2, <1>4, <1>5 DEF HasTicket
  <2>2. HasCandidates(r.id, 1 .. r.written)'
    BY <1>2, <1>3 DEF HasCandidates
  <2> QED
    BY <1>2, <2>1, <2>2 DEF IInv, Memory, Committed, Steps, FromTicket, FromTicketAudit,
       FromFillAudit, FromPosition, FromFill, FromPositionAudit, FromMarkAudit, FromExit,
       FromExitAudit
<1>8. Rows' /\ TrailLeadsRows'
  BY <1>2, <1>4, <1>5 DEF IInv, Rows, HasTicket, HasPosition, TrailLeadsRows, Logged, Priced
<1> QED
  BY <1>2, <1>6, <1>7, <1>8, OneWorker DEF IInv, Shape

\* The simulated fill is on record before the run goes on to a position.
LEMMA SimulateHolds ==
  ASSUME IInv, NEW w \in Workers, SimulateFill(w)
  PROVE  IInv'
<1> DEFINE t == TicketOf(run[w].id)
<1>0. PICK natural \in Naturals, expired \in BOOLEAN :
        LET filled == natural >= t.worst IN
        /\ Log(w, IF filled THEN "FILLED" ELSE "NOT_FILLED",
               IF ~filled THEN 0 ELSE IF natural < t.target THEN natural ELSE t.target)
        /\ IF filled /\ expired
           THEN Goto(w, "idle") /\ run' = [run EXCEPT ![w] = None]
           ELSE Goto(w, IF filled THEN "position" ELSE "report") /\ run' = run
  BY DEF SimulateFill
<1> DEFINE filled == natural >= t.worst
           result == IF filled THEN "FILLED" ELSE "NOT_FILLED"
           price == IF ~filled THEN 0 ELSE IF natural < t.target THEN natural ELSE t.target
           next == IF filled /\ expired THEN "idle" ELSE IF filled THEN "position" ELSE "report"
<1>1. PICK kind \in {"FILLED", "NOT_FILLED"}, step \in {"idle", "position", "report"} :
        /\ \E credit : Log(w, kind, credit)
        /\ Goto(w, step)
        /\ IF step = "idle" THEN run' = [run EXCEPT ![w] = None] ELSE run' = run
        /\ step = "position" => kind = "FILLED"
  <2> HIDE DEF t
  <2>1. /\ Log(w, result, price) /\ Goto(w, next)
        /\ IF next = "idle" THEN run' = [run EXCEPT ![w] = None] ELSE run' = run
        /\ next = "position" => result = "FILLED"
        /\ result \in {"FILLED", "NOT_FILLED"} /\ next \in {"idle", "position", "report"}
    <3>1. CASE filled
      BY <1>0, <3>1
    <3>2. CASE ~filled
      BY <1>0, <3>2
    <3> QED
      BY <3>1, <3>2
  <2> HIDE DEF filled, result, price, next
  <2> QED
    BY <2>1
<1> HIDE DEF t, filled, result, price, next
<1>2. /\ pc[w] = "fillAudit" /\ pc' = [pc EXCEPT ![w] = step] /\ pc'[w] = step
      /\ UNCHANGED <<candidates, tickets, positions, fills, exits, started, crashes>>
      /\ run'[w] = IF step = "idle" THEN None ELSE run[w]
  BY <1>1 DEF SimulateFill, Goto, IInv, Shape
<1>3. /\ Grown /\ Rows' /\ TrailLeadsRows'
      /\ run' = run => Logged(run[w].id, {kind})'
  <2>1. kind \in Kinds /\ pc[w] # "idle"
    BY <1>1, <1>2 DEF Kinds
  <2> QED
    BY <1>1, <1>2, <2>1, LogHolds
<1>4. Memory(w)'
  BY <1>1, <1>2 DEF IInv, Memory, Steps, FromTicket, FromTicketAudit, FromFillAudit, FromPosition,
     FromFill, FromPositionAudit, FromMarkAudit, FromExit, FromExitAudit
<1>5. Committed(w)'
  <2>1. CASE step = "idle"
    BY <1>2, <2>1 DEF Committed, FromTicketAudit, FromFillAudit, FromPosition, FromFill,
       FromPositionAudit, FromMarkAudit, FromExit, FromExitAudit
  <2>2. CASE step # "idle"
    <3>1. /\ run' = run /\ pc'[w] \in {"position", "report"}
          /\ pc'[w] = "position" => Logged(run[w].id, {"FILLED"})'
      BY <1>1, <1>2, <1>3, <2>2
    <3> QED
      BY <1>2, <1>3, <3>1, StillThere DEF IInv, Committed, FromTicketAudit, FromFillAudit,
         FromPosition, FromFill, FromPositionAudit, FromMarkAudit, FromExit, FromExitAudit
  <2> QED
    BY <2>1, <2>2
<1> QED
  BY <1>1, <1>2, <1>3, <1>4, <1>5, OneWorker DEF IInv, Shape

\* The ticket of a run is one of the tickets.
LEMMA TicketOfRun ==
  ASSUME NEW id, HasTicket(id)
  PROVE  TicketOf(id) \in tickets /\ TicketOf(id).run = id
BY DEF HasTicket, TicketOf

\* A position has its ticket and its fill on the trail.
LEMMA PositionHolds ==
  ASSUME IInv, NEW w \in Workers, InsertPosition(w)
  PROVE  IInv'
<1> DEFINE r == run[w]
           row == [run |-> r.id, underlying |-> r.chain.underlying, expiration |-> r.chain.expiration,
                   width |-> Spread(r).width, quantity |-> TicketOf(r.id).contracts]
<1>1. /\ positions' = positions \cup {row}
      /\ pc[w] = "position" /\ pc' = [pc EXCEPT ![w] = "fill"] /\ pc'[w] = "fill"
      /\ UNCHANGED <<run, candidates, tickets, fills, exits, audit, started, crashes>>
  BY DEF InsertPosition, Goto, IInv, Shape
<1>2. /\ r.id \in 1 .. started /\ HasTicket(r.id)
      /\ Logged(r.id, {"TICKET_CREATED"}) /\ Logged(r.id, {"FILLED"})
  BY <1>1 DEF IInv, Memory, Committed, FromTicketAudit, FromFillAudit, FromPosition
<1>3. row.run = r.id /\ row.quantity \in Nat \ {0}
  BY <1>2, TicketOfRun DEF IInv, Rows
<1> HIDE DEF row
<1>4. Grown
  BY <1>1 DEF Grown, IInv, Shape
<1>5. Memory(w)' /\ Committed(w)'
  <2>1. HasPosition(r.id)'
    BY <1>1, <1>3 DEF HasPosition
  <2> QED
    BY <1>1, <1>4, <2>1, StillThere DEF IInv, Memory, Committed, Steps, FromTicket,
       FromTicketAudit, FromFillAudit, FromPosition, FromFill, FromPositionAudit, FromMarkAudit,
       FromExit, FromExitAudit
<1>6. Rows'
  BY <1>1, <1>2, <1>3 DEF IInv, Rows, HasTicket, HasPosition
<1>7. TrailLeadsRows'
  <2>1. Logged(row.run, {"TICKET_CREATED", "FILLED"})
    BY <1>2, <1>3, LoggedTogether
  <2>2. \A p \in positions' : Logged(p.run, {"TICKET_CREATED", "FILLED"})
    BY <1>1, <2>1 DEF IInv, TrailLeadsRows
  <2>3. Priced \subseteq Priced'
    BY <1>1 DEF Priced
  <2> QED
    BY <1>1, <2>2, <2>3 DEF IInv, TrailLeadsRows, Logged
<1> QED
  BY <1>1, <1>4, <1>5, <1>6, <1>7, OneWorker DEF IInv, Shape

\* The fill completes the position.
LEMMA FillHolds ==
  ASSUME IInv, NEW w \in Workers, InsertFill(w)
  PROVE  IInv'
<1> DEFINE r == run[w]
           row == [ticket |-> r.id, position |-> r.id, price |-> CreditOf(r.id)]
<1>1. /\ fills' = fills \cup {row}
      /\ pc[w] = "fill" /\ pc' = [pc EXCEPT ![w] = "positionAudit"] /\ pc'[w] = "positionAudit"
      /\ UNCHANGED <<run, candidates, tickets, positions, exits, audit, started, crashes>>
  BY DEF InsertFill, Goto, IInv, Shape
<1>2. HasTicket(r.id) /\ HasPosition(r.id)
  BY <1>1 DEF IInv, Committed, FromTicketAudit, FromFillAudit, FromPosition, FromFill
<1>3. row \in fills' /\ row.ticket = r.id /\ row.position = r.id
  BY <1>1
<1> HIDE DEF row
<1>4. Grown
  BY <1>1 DEF Grown, IInv, Shape
<1>5. Memory(w)' /\ Committed(w)'
  <2>1. HasFilledPosition(r.id)'
    BY <1>1, <1>2, <1>3 DEF HasPosition, HasFilledPosition, Priced
  <2> QED
    BY <1>1, <1>4, <2>1, StillThere DEF IInv, Memory, Committed, Steps, FromTicket,
       FromTicketAudit, FromFillAudit, FromPosition, FromFill, FromPositionAudit, FromMarkAudit,
       FromExit, FromExitAudit
<1>6. Rows'
  BY <1>1, <1>2, <1>3 DEF IInv, Rows, HasTicket, HasPosition
<1>7. TrailLeadsRows'
  <2>1. Priced \subseteq Priced'
    BY <1>1 DEF Priced
  <2> QED
    BY <1>1, <2>1 DEF IInv, TrailLeadsRows, Logged
<1> QED
  BY <1>1, <1>4, <1>5, <1>6, <1>7, OneWorker DEF IInv, Shape

\* Advice comes after the mark of a position that has its fill.
LEMMA ExitHolds ==
  ASSUME IInv, NEW w \in Workers, InsertExit(w)
  PROVE  IInv'
<1> DEFINE r == run[w]
<1>0. PICK market \in ExitMarkets :
        LET p == [market EXCEPT !.credit = CreditOf(r.id), !.width = Spread(r).width,
                                !.delta0 = Spread(r).shortDelta] IN
        exits' = exits \cup {[position |-> r.id,
                              action |-> Recommendation(p, r.regime, RiskOffReview(r.kill))]}
  BY DEF InsertExit
<1> DEFINE p0 == [market EXCEPT !.credit = CreditOf(r.id), !.width = Spread(r).width,
                                !.delta0 = Spread(r).shortDelta]
           row == [position |-> r.id,
                   action |-> Recommendation(p0, r.regime, RiskOffReview(r.kill))]
<1>1. exits' = exits \cup {row} /\ row.position = r.id
  BY <1>0
<1> HIDE DEF row, p0
<1>2. /\ pc[w] = "exit" /\ pc' = [pc EXCEPT ![w] = "exitAudit"] /\ pc'[w] = "exitAudit"
      /\ UNCHANGED <<run, candidates, tickets, positions, fills, audit, started, crashes>>
  BY DEF InsertExit, Goto, IInv, Shape
<1>3. /\ HasPosition(r.id) /\ HasFilledPosition(r.id)
      /\ Logged(r.id, {"POSITION_RECORDED"}) /\ Logged(r.id, {"MARK_UPDATED"})
  BY <1>2 DEF IInv, Committed, FromFill, FromPositionAudit, FromMarkAudit, FromExit
<1>4. Grown
  BY <1>2 DEF Grown, IInv, Shape
<1>5. Memory(w)' /\ Committed(w)'
  BY <1>2, <1>4, StillThere DEF IInv, Memory, Committed, Steps, FromTicket, FromTicketAudit,
     FromFillAudit, FromPosition, FromFill, FromPositionAudit, FromMarkAudit, FromExit,
     FromExitAudit
<1>6. Rows'
  BY <1>1, <1>2, <1>3 DEF IInv, Rows, HasTicket, HasPosition
<1>7. TrailLeadsRows'
  <2>1. Logged(r.id, {"POSITION_RECORDED", "MARK_UPDATED"})
    BY <1>3, LoggedTogether
  <2>2. \A x \in exits' : /\ Logged(x.position, {"POSITION_RECORDED", "MARK_UPDATED"})
                          /\ \E p \in Priced : p.run = x.position
    BY <1>1, <1>3, <2>1 DEF IInv, TrailLeadsRows, HasFilledPosition
  <2> QED
    BY <1>2, <2>2 DEF IInv, TrailLeadsRows, Logged, Priced
<1> QED
  BY <1>2, <1>4, <1>5, <1>6, <1>7, OneWorker DEF IInv, Shape

-----------------------------------------------------------------------------
(* The theorems *)

\* The invariant is inductive.
LEMMA IInvInductive == IInv /\ [Next]_vars => IInv'
<1> SUFFICES ASSUME IInv, [Next]_vars PROVE IInv'
  OBVIOUS
<1>1. CASE UNCHANGED vars
  <2>1. /\ UNCHANGED <<pc, run, candidates, tickets, positions, fills, exits, audit>>
        /\ UNCHANGED <<started, crashes>>
    BY <1>1 DEF vars
  <2>2. Grown /\ Shape' /\ Rows' /\ TrailLeadsRows'
    BY <2>1 DEF IInv, Shape, Rows, HasTicket, HasPosition, TrailLeadsRows, Logged, Priced, Grown
  <2> QED
    BY <2>1, <2>2, OthersKeep DEF IInv
<1>2. CASE Next
  <2>1. PICK w \in Workers :
          \/ Reconcile(w) \/ Assess(w)
          \/ PersistCandidate(w) \/ InsertTicket(w) \/ RefuseTicket(w) \/ AuditTicket(w)
          \/ SimulateFill(w) \/ InsertPosition(w) \/ InsertFill(w) \/ AuditPosition(w)
          \/ AuditMark(w) \/ InsertExit(w) \/ AuditExit(w) \/ Report(w)
          \/ Crash(w)
    BY <1>2 DEF Next
  <2>2. crashes \in 0 .. MaxCrashes
    BY DEF IInv, Shape
  <2>3. CASE RefuseTicket(w) \/ Report(w)
    BY <2>2, <2>3, RunEnds DEF RefuseTicket, Report
  <2>4. CASE Crash(w)
    <3>1. crashes' \in 0 .. MaxCrashes
      BY <2>2, <2>4, DeskAssumption DEF Crash
    <3> QED
      BY <2>4, <3>1, RunEnds DEF Crash
  <2> QED
    BY <2>1, <2>3, <2>4, ReconcileHolds, AssessHolds, CandidateHolds, TicketHolds, AuditHolds,
       SimulateHolds, PositionHolds, FillHolds, ExitHolds
<1> QED
  BY <1>1, <1>2

\* It gives the types.
LEMMA IInvTypes == IInv => TypeOK
<1> SUFFICES ASSUME IInv PROVE TypeOK
  OBVIOUS
<1>1. pc \in [Workers -> Steps]
  BY DEF IInv, Shape, Memory
<1>2. \A w \in Workers : (pc[w] = "idle") <=> (run[w] = None)
  BY RunAssumption DEF IInv, Memory
<1>3. \A w \in Workers : run[w] # None => run[w].id \in 1 .. started
  BY <1>2 DEF IInv, Memory
<1> QED
  BY <1>1, <1>2, <1>3 DEF IInv, Shape, Rows, HasTicket, HasPosition, TypeOK

\* Whatever the workers do, and wherever they are killed, rows refer to rows that exist.
THEOREM TypeCorrect == Spec => []TypeOK
<1> QED
  BY InitHolds, IInvInductive, IInvTypes, PTL DEF Spec

\* The trail explains every position and every advice, after a kill as well.
THEOREM TrailFirst == Spec => []TrailLeadsRows
<1>1. IInv => TrailLeadsRows
  BY DEF IInv
<1> QED
  BY <1>1, InitHolds, IInvInductive, PTL DEF Spec

-----------------------------------------------------------------------------
(* Torn positions *)

\* As long as no position is torn anew, and workers stay spent, the owners stay.
LEMMA OwnersStay ==
  ASSUME TornHaveWorkers, Torn' \subseteq Torn,
         \A v \in Workers : \A t \in Torn' : Spent(v, t) => Spent(v, t)'
  PROVE  TornHaveWorkers'
<1>1. PICK owner \in Injection(Torn, Workers) : \A t \in Torn : Spent(owner[t], t)
  BY DEF TornHaveWorkers
<1>2. PICK left \in Injection(Torn', Workers) : \A t \in Torn' : left[t] = owner[t]
  <2> DEFINE restricted == [t \in Torn' |-> owner[t]]
  <2>1. restricted \in Injection(Torn', Workers)
    BY <1>1 DEF Injection, IsInjective
  <2> QED
    BY <2>1
<1>3. \A t \in Torn' : left[t] = owner[t] /\ owner[t] \in Workers /\ Spent(owner[t], t)
  BY <1>1, <1>2 DEF Injection
<1>4. \A t \in Torn' : Spent(left[t], t)'
  BY <1>3
<1> QED
  BY <1>2, <1>4 DEF TornHaveWorkers

\* The same for a step of one worker that adds no position.
LEMMA OneWorkerStays ==
  ASSUME IInv, TornHaveWorkers, NEW w \in Workers, NEW step, NEW new,
         pc' = [pc EXCEPT ![w] = step], run' \in {run, [run EXCEPT ![w] = new]},
         positions' = positions, fills \subseteq fills',
         \A t \in Torn' : Spent(w, t) => Spent(w, t)'
  PROVE  TornHaveWorkers'
<1>1. Torn' \subseteq Torn
  BY DEF Torn, Priced
<1>2. \A v \in Workers : v # w => \A t : Spent(v, t) => Spent(v, t)'
  BY DEF Spent, IInv, Shape
<1> QED
  BY <1>1, <1>2, OwnersStay

\* A reconciliation sees every torn position there is.
LEMMA ReconcileSees ==
  ASSUME IInv, TornHaveWorkers, NEW w \in Workers, Reconcile(w)
  PROVE  TornHaveWorkers'
<1> DEFINE new == [id |-> started + 1, open |-> {p.run : p \in positions}]
<1>1. /\ pc' = [pc EXCEPT ![w] = "assess"] /\ pc'[w] = "assess"
      /\ run' = [run EXCEPT ![w] = new] /\ run'[w] = new
      /\ positions' = positions /\ fills' = fills
  BY DEF Reconcile, Goto, IInv, Shape, tables
<1>2. \A t \in Torn' : t.run \in run'[w].open
  BY <1>1 DEF Torn, Priced
<1>3. \A t \in Torn' : Spent(w, t)'
  BY <1>1, <1>2 DEF Spent
<1> HIDE DEF new
<1> QED
  BY <1>1, <1>3, OneWorkerStays

\* A run whose reconciliation saw a torn position is not approved.
LEMMA AssessRefuses ==
  ASSUME IInv, TornHaveWorkers, NEW w \in Workers, Assess(w)
  PROVE  TornHaveWorkers'
<1>1. PICK new \in Judged :
        /\ run' = [run EXCEPT ![w] = new]
        /\ Unverified(run[w].open) # {} => new.status # "APPROVED"
  BY AssessFinds
<1>2. pc' = [pc EXCEPT ![w] = "candidate"] /\ positions' = positions /\ fills' = fills
  BY AssessFinds DEF Assess, tables
<1>3. pc[w] = "assess"
  BY DEF Assess
<1>4. pc'[w] = "candidate" /\ run'[w] = new
  BY <1>1, <1>2 DEF IInv, Shape
<1>5. \A t \in Torn' : Spent(w, t) => Spent(w, t)'
  <2> SUFFICES ASSUME NEW t \in Torn', Spent(w, t) PROVE Spent(w, t)'
    OBVIOUS
  <2>1. t.run \in run[w].open
    BY <1>3 DEF Spent
  <2>2. ~ \E f \in fills : f.position = t.run
    BY <1>2 DEF Torn, Priced
  <2>3. Unverified(run[w].open) # {}
    BY <2>1, <2>2 DEF Unverified
  <2> QED
    BY <1>1, <1>4, <2>3 DEF Spent
<1> QED
  BY <1>1, <1>2, <1>5, OneWorkerStays

\* It writes its candidates and goes on to its report.
LEMMA CandidateRefuses ==
  ASSUME IInv, TornHaveWorkers, NEW w \in Workers, PersistCandidate(w)
  PROVE  TornHaveWorkers'
<1> DEFINE r == run[w]
           n == r.written + 1
           step == IF n < Len(r.scan) THEN "candidate"
                   ELSE IF Selected(r) # 0 /\ r.status = "APPROVED" THEN "ticket" ELSE "report"
           new == [r EXCEPT !.written = n]
<1>1. /\ pc[w] = "candidate" /\ run' = [run EXCEPT ![w].written = n]
      /\ pc' = [pc EXCEPT ![w] = step] /\ positions' = positions /\ fills' = fills
  BY DEF PersistCandidate, Goto
<1>2. run' = [run EXCEPT ![w] = new] /\ run'[w] = new /\ pc'[w] = step
  BY <1>1 DEF IInv, Shape
<1>3. new.status = r.status
  BY <1>1 DEF IInv, Memory, Judged
<1>4. \A t \in Torn' : Spent(w, t) => Spent(w, t)'
  <2> HIDE DEF n, new
  <2>1. r.status # "APPROVED" => step \in {"candidate", "report"}
    OBVIOUS
  <2> QED
    BY <1>1, <1>2, <1>3, <2>1 DEF Spent
<1> HIDE DEF step, new
<1> QED
  BY <1>1, <1>2, <1>4, OneWorkerStays

\* A position that is inserted is torn, and its worker is not the owner of another.
LEMMA PositionTakesWorker ==
  ASSUME IInv, TornHaveWorkers, NEW w \in Workers, InsertPosition(w)
  PROVE  TornHaveWorkers'
<1> DEFINE r == run[w]
           row == [run |-> r.id, underlying |-> r.chain.underlying, expiration |-> r.chain.expiration,
                   width |-> Spread(r).width, quantity |-> TicketOf(r.id).contracts]
<1>1. /\ positions' = positions \cup {row} /\ fills' = fills /\ run' = run
      /\ pc[w] = "position" /\ pc' = [pc EXCEPT ![w] = "fill"] /\ pc'[w] = "fill"
  BY DEF InsertPosition, Goto, IInv, Shape
<1>2. row.run = r.id
  OBVIOUS
<1> HIDE DEF row
<1>3. Torn' \subseteq Torn \cup {row}
  BY <1>1 DEF Torn, Priced
<1>4. PICK owner \in Injection(Torn, Workers) : \A t \in Torn : Spent(owner[t], t)
  BY DEF TornHaveWorkers
<1>5. \A t \in Torn : owner[t] \in Workers /\ owner[t] # w
  BY <1>1, <1>4 DEF Spent, Injection
<1>6. PICK next \in Injection(Torn', Workers) :
        \A t \in Torn' : next[t] = IF t \in Torn THEN owner[t] ELSE w
  <2> DEFINE extended == [t \in Torn' |-> IF t \in Torn THEN owner[t] ELSE w]
  <2>1. extended \in Injection(Torn', Workers)
    BY <1>3, <1>4, <1>5 DEF Injection, IsInjective
  <2> QED
    BY <2>1
<1>7. \A t \in Torn' : Spent(next[t], t)'
  <2> SUFFICES ASSUME NEW t \in Torn' PROVE Spent(next[t], t)'
    OBVIOUS
  <2>1. CASE t \in Torn
    <3>1. next[t] = owner[t] /\ Spent(owner[t], t) /\ owner[t] \in Workers /\ owner[t] # w
      BY <1>4, <1>5, <1>6, <2>1
    <3>2. pc'[owner[t]] = pc[owner[t]]
      BY <1>1, <3>1 DEF IInv, Shape
    <3> QED
      BY <1>1, <3>1, <3>2 DEF Spent
  <2>2. CASE t \notin Torn
    <3>1. next[t] = w /\ t.run = r.id
      BY <1>2, <1>3, <1>6, <2>2
    <3> QED
      BY <1>1, <3>1 DEF Spent
  <2> QED
    BY <2>1, <2>2
<1> QED
  BY <1>6, <1>7 DEF TornHaveWorkers

\* The owners stay owners through every step.
LEMMA TornInductive ==
  ASSUME IInv, TornHaveWorkers, [Next]_vars
  PROVE  TornHaveWorkers'
<1>1. CASE UNCHANGED vars
  <2>1. pc' = pc /\ run' = run /\ positions' = positions /\ fills' = fills
    BY <1>1 DEF vars
  <2> QED
    BY <2>1, OwnersStay DEF Torn, Priced, Spent
<1>2. CASE Next
  <2>1. PICK w \in Workers :
          \/ Reconcile(w) \/ Assess(w)
          \/ PersistCandidate(w) \/ InsertTicket(w) \/ RefuseTicket(w) \/ AuditTicket(w)
          \/ SimulateFill(w) \/ InsertPosition(w) \/ InsertFill(w) \/ AuditPosition(w)
          \/ AuditMark(w) \/ InsertExit(w) \/ AuditExit(w) \/ Report(w)
          \/ Crash(w)
    BY <1>2 DEF Next
  <2>2. ASSUME Goto(w, "idle"), run' = [run EXCEPT ![w] = None], UNCHANGED tables
        PROVE  TornHaveWorkers'
    <3>1. /\ pc' = [pc EXCEPT ![w] = "idle"] /\ pc'[w] = "idle"
          /\ positions' = positions /\ fills' = fills
      BY <2>2 DEF Goto, IInv, Shape, tables
    <3>2. \A t \in Torn' : Spent(w, t)'
      BY <3>1 DEF Spent
    <3> QED
      BY <2>2, <3>1, <3>2, OneWorkerStays
  <2>3. CASE RefuseTicket(w) \/ Report(w) \/ Crash(w)
    BY <2>2, <2>3 DEF RefuseTicket, Report, Crash
  <2>4. ASSUME NEW step, pc[w] \notin {"idle", "report", "assess", "candidate", "fill"},
               Goto(w, step), run' \in {run, [run EXCEPT ![w] = None]},
               positions' = positions, fills' = fills
        PROVE  TornHaveWorkers'
    <3>1. \A t \in Torn' : ~Spent(w, t)
      BY <2>4 DEF Spent
    <3> QED
      BY <2>4, <3>1, OneWorkerStays DEF Goto
  <2>5. CASE InsertTicket(w) \/ AuditTicket(w) \/ AuditPosition(w) \/ AuditMark(w)
             \/ InsertExit(w) \/ AuditExit(w)
    BY <2>4, <2>5 DEF InsertTicket, AuditTicket, AuditPosition, AuditMark, InsertExit, AuditExit
  <2>6. CASE SimulateFill(w)
    <3>1. /\ pc[w] = "fillAudit" /\ positions' = positions /\ fills' = fills
          /\ run' \in {run, [run EXCEPT ![w] = None]}
      BY <2>6 DEF SimulateFill
    <3>2. PICK step : Goto(w, step)
      BY <2>6 DEF SimulateFill
    <3> QED
      BY <2>4, <3>1, <3>2
  <2>7. CASE InsertFill(w)
    <3> DEFINE row == [ticket |-> run[w].id, position |-> run[w].id, price |-> CreditOf(run[w].id)]
    <3>1. /\ fills' = fills \cup {row} /\ positions' = positions /\ run' = run
          /\ pc[w] = "fill" /\ pc' = [pc EXCEPT ![w] = "positionAudit"]
      BY <2>7 DEF InsertFill, Goto
    <3>2. row.position = run[w].id
      OBVIOUS
    <3> HIDE DEF row
    <3>3. \A t \in Torn' : t.run # run[w].id
      BY <3>1, <3>2 DEF Torn, Priced
    <3>4. \A t \in Torn' : ~Spent(w, t)
      BY <3>1, <3>3 DEF Spent
    <3> QED
      BY <3>1, <3>4, OneWorkerStays
  <2> QED
    BY <2>1, <2>3, <2>5, <2>6, <2>7, ReconcileSees, AssessRefuses, CandidateRefuses,
       PositionTakesWorker
<1> QED
  BY <1>1, <1>2

\* At first no position is torn.
LEMMA InitOwners == Init => TornHaveWorkers
<1> SUFFICES ASSUME Init PROVE TornHaveWorkers
  OBVIOUS
<1>1. Torn = {}
  BY DEF Init, Torn, Priced
<1>2. PICK none \in Injection(Torn, Workers) : TRUE
  <2>1. [t \in {} |-> t] \in Injection({}, Workers)
    BY DEF Injection, IsInjective
  <2> QED
    BY <1>1, <2>1
<1> QED
  BY <1>1, <1>2 DEF TornHaveWorkers

\* Workers may be killed and started again as often as they like: positions whose fill
\* was lost never outnumber them, because each has its own worker, and a worker that
\* opened one sees it at its next reconciliation.
THEOREM TornBounded == Spec => []OneTornPositionPerWorker
<1>1. IInv /\ TornHaveWorkers /\ [Next]_vars => (IInv /\ TornHaveWorkers)'
  BY IInvInductive, TornInductive
<1>2. TornHaveWorkers => OneTornPositionPerWorker
  BY FS_Injection, DeskAssumption DEF TornHaveWorkers, OneTornPositionPerWorker, Torn
<1> QED
  BY <1>1, <1>2, InitHolds, InitOwners, PTL DEF Spec

-----------------------------------------------------------------------------
(* A position is worth its risk: the credit of its fill is below its width *)

\* The simulated fills of run id, of which there is at most one.
FilledRows(id) == {a \in audit : a.run = id /\ a.kind = "FILLED"}

Below(id, width) ==
  width \in Nat \ {0} /\ \A a \in FilledRows(id) : a.credit \in Int /\ a.credit < width

BeforeTicket == {"assess", "candidate", "ticket"}
BeforeFill == BeforeTicket \cup {"ticketAudit", "fillAudit"}

\* What worker w has not written yet, and the prices of what it has.
Prices(w) ==
  LET id == run[w].id
      width == Spread(run[w]).width
  IN
  /\ pc[w] \in BeforeTicket => ~HasTicket(id)
  /\ pc[w] \in BeforeFill => FilledRows(id) = {} /\ ~HasPosition(id)
  /\ pc[w] \notin {"idle", "assess"} => DOMAIN run[w].scan = DOMAIN run[w].chain.spreads
  /\ pc[w] \in BeforeFill \ BeforeTicket =>
       width \in Nat \ {0} /\ \A t \in tickets : t.run = id => t.target \in Int /\ t.target < width
  /\ pc[w] = "position" => Below(id, width)

\* A fill has the price of the trail, and that is below the width of the position.
PriceRows ==
  /\ \A f \in fills : f.position = f.ticket /\ \E a \in FilledRows(f.ticket) : a.credit = f.price
  /\ \A p \in positions : Below(p.run, p.width)

\* No two workers share a run.
Apart ==
  \A v, w \in Workers : v # w /\ pc[v] # "idle" /\ pc[w] # "idle" => run[v].id # run[w].id

PriceInv == IInv /\ PriceRows /\ Apart /\ \A w \in Workers : Prices(w)

\* A worker whose run gets no row keeps its prices.
LEMMA OthersPrices ==
  ASSUME NEW v \in Workers, Prices(v), pc'[v] = pc[v], run'[v] = run[v], NEW id,
         pc[v] # "idle" => run[v].id # id,
         \A t \in tickets' \ tickets : t.run = id, \A p \in positions' \ positions : p.run = id,
         \A a \in audit' \ audit : a.run = id
  PROVE  Prices(v)'
<1>1. CASE pc[v] = "idle"
  BY <1>1 DEF Prices, BeforeTicket, BeforeFill
<1>2. CASE pc[v] # "idle"
  <2>1. /\ \A t \in tickets' : t.run = run[v].id => t \in tickets
        /\ \A p \in positions' : p.run = run[v].id => p \in positions
        /\ \A a \in audit' : a.run = run[v].id => a \in audit
    BY <1>2
  <2>2. /\ HasTicket(run[v].id)' => HasTicket(run[v].id)
        /\ HasPosition(run[v].id)' => HasPosition(run[v].id)
        /\ FilledRows(run[v].id)' \subseteq FilledRows(run[v].id)
    BY <2>1 DEF HasTicket, HasPosition, FilledRows
  <2>3. Spread(run[v])' = Spread(run[v])
    BY DEF Spread, Selected
  <2> QED
    BY <2>1, <2>2, <2>3 DEF Prices, Below
<1> QED
  BY <1>1, <1>2

\* The step of one worker: what is left to show is about its own run and the new rows.
LEMMA OneWorkerPrices ==
  ASSUME PriceInv, NEW w \in Workers, NEW step, NEW new, NEW id,
         pc' = [pc EXCEPT ![w] = step], run' \in {run, [run EXCEPT ![w] = new]},
         \A v \in Workers \ {w} : pc[v] # "idle" => run[v].id # id,
         pc'[w] = "idle" \/ run'[w].id = id,
         \A t \in tickets' \ tickets : t.run = id, \A p \in positions' \ positions : p.run = id,
         \A a \in audit' \ audit : a.run = id,
         IInv', PriceRows', Prices(w)'
  PROVE  PriceInv'
<1>1. \A v \in Workers : v # w => pc'[v] = pc[v] /\ run'[v] = run[v]
  BY DEF PriceInv, IInv, Shape
<1>2. Apart'
  BY <1>1 DEF PriceInv, Apart
<1>3. \A v \in Workers : Prices(v)'
  BY <1>1, OthersPrices DEF PriceInv
<1> QED
  BY <1>2, <1>3 DEF PriceInv

\* Rows of the trail change no price, unless they are fills of a position.
LEMMA PriceRowsKeep ==
  ASSUME PriceRows, UNCHANGED <<fills, positions>>, audit \subseteq audit',
         \A a \in audit' \ audit : a.kind # "FILLED" \/ ~HasPosition(a.run)
  PROVE  PriceRows'
<1>1. \A id : FilledRows(id) \subseteq FilledRows(id)'
  BY DEF FilledRows
<1>2. \A p \in positions : FilledRows(p.run)' = FilledRows(p.run)
  BY DEF FilledRows, HasPosition
<1> QED
  BY <1>1, <1>2 DEF PriceRows, Below

\* The end of a run.
LEMMA EndKeepsPrices ==
  ASSUME PriceInv, IInv', NEW w \in Workers, Goto(w, "idle"), run' = [run EXCEPT ![w] = None],
         UNCHANGED tables
  PROVE  PriceInv'
<1>1. pc' = [pc EXCEPT ![w] = "idle"] /\ pc'[w] = "idle"
  BY DEF Goto, PriceInv, IInv, Shape
<1>2. UNCHANGED <<tickets, positions, fills, audit>>
  BY DEF tables
<1>3. PriceRows' /\ Prices(w)'
  BY <1>1, <1>2, PriceRowsKeep DEF PriceInv, Prices, BeforeTicket, BeforeFill
<1>4. PICK id : \A v \in Workers : pc[v] # "idle" => run[v].id # id
  <2>1. \A v \in Workers : pc[v] # "idle" => run[v].id \in 1 .. started
    BY DEF PriceInv, IInv, Memory
  <2>2. \A v \in Workers : pc[v] # "idle" => run[v].id # 0
    BY <2>1
  <2> QED
    BY <2>2
<1> QED
  BY <1>1, <1>2, <1>3, <1>4, OneWorkerPrices

\* A run that begins has no row yet.
LEMMA ReconcileKeepsPrices ==
  ASSUME PriceInv, IInv', NEW w \in Workers, Reconcile(w)
  PROVE  PriceInv'
<1> DEFINE new == [id |-> started + 1, open |-> {p.run : p \in positions}]
           id == started + 1
<1>1. /\ pc' = [pc EXCEPT ![w] = "assess"] /\ pc'[w] = "assess"
      /\ run' = [run EXCEPT ![w] = new] /\ run'[w].id = id
      /\ UNCHANGED <<candidates, tickets, positions, fills, audit>> /\ started \in Nat
  BY DEF Reconcile, Goto, PriceInv, IInv, Shape, tables
<1>2. /\ \A t \in tickets : t.run \in 1 .. started
      /\ \A p \in positions : p.run \in 1 .. started
      /\ \A a \in audit : a.run \in 1 .. started
      /\ \A v \in Workers : pc[v] # "idle" => run[v].id \in 1 .. started
  BY DEF PriceInv, IInv, Rows, Memory
<1>7. id \notin 1 .. started
  BY <1>1
<1>3. ~HasTicket(id) /\ ~HasPosition(id) /\ FilledRows(id) = {}
  <2> HIDE DEF id, new
  <2> QED
    BY <1>2, <1>7 DEF HasTicket, HasPosition, FilledRows
<1>4. \A v \in Workers : pc[v] # "idle" => run[v].id # id
  BY <1>2, <1>7
<1>5. PriceRows'
  BY <1>1, PriceRowsKeep DEF PriceInv
<1>6. Prices(w)'
  BY <1>1, <1>3 DEF Prices, HasTicket, HasPosition, FilledRows, BeforeTicket, BeforeFill
<1> HIDE DEF id, new
<1> QED
  BY <1>1, <1>4, <1>5, <1>6, OneWorkerPrices

\* In all other steps a worker adds rows of its own run only.
LEMMA OwnRun ==
  ASSUME PriceInv, NEW w \in Workers, pc[w] # "idle"
  PROVE  \A v \in Workers \ {w} : pc[v] # "idle" => run[v].id # run[w].id
BY DEF PriceInv, Apart

\* The verdicts change no row.
LEMMA AssessKeepsPrices ==
  ASSUME PriceInv, IInv', NEW w \in Workers, Assess(w)
  PROVE  PriceInv'
<1>1. PICK new \in Judged :
        /\ run' = [run EXCEPT ![w] = new] /\ new.id = run[w].id
        /\ DOMAIN new.scan = DOMAIN new.chain.spreads
  BY AssessFinds DEF PriceInv
<1>2. /\ pc' = [pc EXCEPT ![w] = "candidate"] /\ pc[w] = "assess"
      /\ UNCHANGED <<tickets, positions, fills, audit>>
  BY AssessFinds DEF PriceInv, Assess, tables
<1>3. pc'[w] = "candidate" /\ run'[w] = new
  BY <1>1, <1>2 DEF PriceInv, IInv, Shape
<1>4. PriceRows'
  BY <1>2, PriceRowsKeep DEF PriceInv
<1>5. Prices(w)'
  BY <1>1, <1>2, <1>3 DEF PriceInv, Prices, HasTicket, HasPosition, FilledRows, BeforeTicket, BeforeFill
<1> QED
  BY <1>1, <1>2, <1>3, <1>4, <1>5, OwnRun, OneWorkerPrices, ZenonT(40)

\* Nor does a candidate.
LEMMA CandidateKeepsPrices ==
  ASSUME PriceInv, IInv', NEW w \in Workers, PersistCandidate(w)
  PROVE  PriceInv'
<1>1. PICK new, step :
        /\ run' = [run EXCEPT ![w] = new] /\ pc' = [pc EXCEPT ![w] = step]
        /\ step \in {"candidate", "ticket", "report"}
        /\ new.id = run[w].id /\ new.scan = run[w].scan /\ new.chain = run[w].chain
  <2> DEFINE r == run[w]
             n == r.written + 1
             new == [r EXCEPT !.written = n]
             step == IF n < Len(r.scan) THEN "candidate"
                     ELSE IF Selected(r) # 0 /\ r.status = "APPROVED" THEN "ticket" ELSE "report"
  <2>1. pc[w] = "candidate" /\ run' = [run EXCEPT ![w] = new] /\ pc' = [pc EXCEPT ![w] = step]
    BY DEF PersistCandidate, Goto
  <2>2. r \in Judged
    BY <2>1 DEF PriceInv, IInv, Memory
  <2>3. new.id = r.id /\ new.scan = r.scan /\ new.chain = r.chain
    BY <2>2 DEF Judged
  <2>4. step \in {"candidate", "ticket", "report"}
    OBVIOUS
  <2> HIDE DEF n, new, step
  <2> QED
    BY <2>1, <2>3, <2>4
<1>2. pc[w] = "candidate" /\ UNCHANGED <<tickets, positions, fills, audit>>
  BY DEF PersistCandidate
<1>3. pc'[w] = step /\ run'[w] = new
  BY <1>1 DEF PriceInv, IInv, Shape
<1>4. PriceRows'
  BY <1>2, PriceRowsKeep DEF PriceInv
<1>5. Prices(w)'
  BY <1>1, <1>2, <1>3 DEF PriceInv, Prices, HasTicket, HasPosition, FilledRows, BeforeTicket, BeforeFill
<1> QED
  BY <1>1, <1>2, <1>3, <1>4, <1>5, OwnRun, OneWorkerPrices, ZenonT(40)

\* A ticket is accepted for less than the width only.
LEMMA TicketKeepsPrices ==
  ASSUME PriceInv, IInv', NEW w \in Workers, InsertTicket(w)
  PROVE  PriceInv'
<1>0. PICK r, s : r = run[w] /\ s = Spread(r)
  OBVIOUS
<1>1. PICK row : /\ tickets' = tickets \cup {row} /\ row.run = r.id /\ row.target = s.credit
                 /\ s.credit > 0 /\ s.width > s.credit
  <2>1. PICK worst \in WorstCredits :
          /\ TicketAccepted(s, "WATCHLIST", r.status, Equity, worst, r.kill)
          /\ tickets' = tickets \cup {[run |-> r.id, candidate |-> Selected(r), contracts |-> r.size,
                                       target |-> s.credit, worst |-> worst]}
    BY <1>0 DEF InsertTicket
  <2> DEFINE row == [run |-> r.id, candidate |-> Selected(r), contracts |-> r.size,
                     target |-> s.credit, worst |-> worst]
  <2>2. /\ tickets' = tickets \cup {row} /\ row.run = r.id /\ row.target = s.credit
        /\ s.credit > 0 /\ s.width > s.credit
    BY <2>1 DEF TicketAccepted
  <2> HIDE DEF row
  <2> QED
    BY <2>2
<1>2. /\ pc[w] = "ticket" /\ pc' = [pc EXCEPT ![w] = "ticketAudit"] /\ pc'[w] = "ticketAudit"
      /\ UNCHANGED <<run, positions, fills, audit>>
  BY DEF InsertTicket, Goto, PriceInv, IInv, Shape
<1>3. s.width \in Nat /\ s.credit \in Int
  <2>1. /\ r \in Judged /\ Selected(r) \in 1 .. r.written /\ DOMAIN r.scan = DOMAIN r.chain.spreads
    BY <1>0, <1>2 DEF PriceInv, IInv, Memory, Prices, FromTicket
  <2>2. r.scan \in Seq(ScanStatuses) /\ r.chain \in Chains /\ r.written \in Nat
    BY <2>1 DEF Judged
  <2>3. Selected(r) \in 1 .. Len(r.scan)
    BY <2>1, <2>2, SelectedIsScanned
  <2>4. Selected(r) \in DOMAIN r.chain.spreads
    BY <2>1, <2>2, <2>3, LenProperties
  <2> QED
    BY <1>0, <2>2, <2>4, SpreadAssumption DEF Spread
<1>4. PriceRows'
  BY <1>2, PriceRowsKeep DEF PriceInv
<1>5. Prices(w)'
  <2>1. ~HasTicket(r.id) /\ FilledRows(r.id) = {} /\ ~HasPosition(r.id)
        /\ DOMAIN r.scan = DOMAIN r.chain.spreads
    BY <1>0, <1>2 DEF PriceInv, Prices, BeforeTicket, BeforeFill
  <2>2. s.width \in Nat \ {0} /\ s.credit < s.width
    BY <1>1, <1>3
  <2>3. \A t \in tickets' : t.run = r.id => t.target = s.credit
    BY <1>1, <2>1 DEF HasTicket
  <2>4. FilledRows(r.id)' = {} /\ ~HasPosition(r.id)' /\ run'[w] = r /\ Spread(r)' = s
    BY <1>0, <1>2, <2>1 DEF FilledRows, HasPosition, Spread, Selected
  <2>5. \A t \in tickets' : t.run = r.id => t.target \in Int /\ t.target < s.width
    BY <1>3, <2>2, <2>3
  <2>6. Spread(run[w])' = s
    BY <2>4 DEF Spread, Selected
  <2> QED
    BY <1>2, <2>1, <2>2, <2>4, <2>5, <2>6 DEF Prices, BeforeTicket, BeforeFill, FilledRows, HasPosition
<1> QED
  BY <1>0, <1>1, <1>2, <1>4, <1>5, OwnRun, OneWorkerPrices

\* The steps that only log prove no fill.
LEMMA AuditKeepsPrices ==
  ASSUME PriceInv, IInv', NEW w \in Workers,
         AuditTicket(w) \/ AuditPosition(w) \/ AuditMark(w) \/ AuditExit(w)
  PROVE  PriceInv'
<1>1. PICK row, step : /\ audit' = audit \cup {row} /\ row.run = run[w].id /\ row.kind # "FILLED"
                       /\ pc' = [pc EXCEPT ![w] = step]
                       /\ \/ pc[w] = "ticketAudit" /\ step = "fillAudit"
                          \/ pc[w] \notin BeforeFill \cup {"idle"} /\ step \notin BeforeFill \cup {"position", "idle"}
  <2>1. PICK kind, step : /\ Log(w, kind, 0) /\ Goto(w, step) /\ kind # "FILLED"
          /\ \/ pc[w] = "ticketAudit" /\ step = "fillAudit"
             \/ pc[w] \notin BeforeFill \cup {"idle"} /\ step \notin BeforeFill \cup {"position", "idle"}
    <3> USE DEF BeforeTicket, BeforeFill
    <3>1. CASE AuditTicket(w)
      BY <3>1 DEF AuditTicket
    <3>2. CASE AuditPosition(w)
      BY <3>2 DEF AuditPosition
    <3>3. CASE AuditMark(w)
      BY <3>3 DEF AuditMark
    <3>4. CASE AuditExit(w)
      BY <3>4 DEF AuditExit
    <3> QED
      BY <3>1, <3>2, <3>3, <3>4
  <2> DEFINE row == [run |-> run[w].id, kind |-> kind, credit |-> 0]
  <2>2. audit' = audit \cup {row} /\ row.run = run[w].id /\ row.kind # "FILLED"
    BY <2>1 DEF Log
  <2>3. pc' = [pc EXCEPT ![w] = step]
    BY <2>1 DEF Goto
  <2> HIDE DEF row
  <2> QED
    BY <2>1, <2>2, <2>3
<1>2. UNCHANGED <<run, tickets, positions, fills>>
  BY DEF AuditTicket, AuditPosition, AuditMark, AuditExit
<1>3. pc[w] # "idle" /\ pc'[w] = step
  BY <1>1 DEF PriceInv, IInv, Shape
<1>4. PriceRows'
  BY <1>1, <1>2, PriceRowsKeep DEF PriceInv
<1>5. Prices(w)'
  <2>1. /\ FilledRows(run[w].id)' = FilledRows(run[w].id) /\ Spread(run[w])' = Spread(run[w])
        /\ HasTicket(run[w].id)' = HasTicket(run[w].id) /\ HasPosition(run[w].id)' = HasPosition(run[w].id)
    BY <1>1, <1>2 DEF FilledRows, Spread, Selected, HasTicket, HasPosition
  <2>2. Prices(w)
    BY DEF PriceInv
  <2> QED
    BY <1>1, <1>2, <1>3, <2>1, <2>2 DEF Prices, BeforeTicket, BeforeFill
<1> QED
  BY <1>1, <1>2, <1>3, <1>4, <1>5, OwnRun, OneWorkerPrices

\* A fill is simulated at the target or below.
LEMMA SimulateKeepsPrices ==
  ASSUME PriceInv, IInv', NEW w \in Workers, SimulateFill(w)
  PROVE  PriceInv'
<1>0. PICK r, t : r = run[w] /\ t = TicketOf(r.id)
  OBVIOUS
<1>1. PICK natural \in Naturals, expired \in BOOLEAN :
        LET filled == natural >= t.worst IN
        /\ Log(w, IF filled THEN "FILLED" ELSE "NOT_FILLED",
               IF ~filled THEN 0 ELSE IF natural < t.target THEN natural ELSE t.target)
        /\ IF filled /\ expired
           THEN Goto(w, "idle") /\ run' = [run EXCEPT ![w] = None]
           ELSE Goto(w, IF filled THEN "position" ELSE "report") /\ run' = run
  BY <1>0 DEF SimulateFill
<1>2. pc[w] = "fillAudit" /\ UNCHANGED <<candidates, tickets, positions, fills>>
  BY DEF SimulateFill
<1>3. /\ HasTicket(r.id) /\ FilledRows(r.id) = {} /\ ~HasPosition(r.id)
      /\ DOMAIN r.scan = DOMAIN r.chain.spreads /\ Spread(r).width \in Nat \ {0}
      /\ \A u \in tickets : u.run = r.id => u.target \in Int /\ u.target < Spread(r).width
  BY <1>0, <1>2 DEF PriceInv, IInv, Committed, Prices, BeforeTicket, BeforeFill, FromTicketAudit,
     FromFillAudit
<1>4. t.target \in Int /\ t.target < Spread(r).width
  BY <1>0, <1>3, TicketOfRun
<1>5. PICK row, step :
        /\ audit' = audit \cup {row} /\ row.run = r.id /\ pc' = [pc EXCEPT ![w] = step]
        /\ \/ step = "idle" /\ run' = [run EXCEPT ![w] = None]
           \/ step = "report" /\ run' = run
           \/ step = "position" /\ run' = run
        /\ row.kind = "FILLED" => row.credit \in Int /\ row.credit < Spread(r).width
  <2>1. CASE natural >= t.worst
    <3> DEFINE price == IF natural < t.target THEN natural ELSE t.target
               row == [run |-> r.id, kind |-> "FILLED", credit |-> price]
    <3>1. price \in Int /\ price < Spread(r).width
      <4>1. natural \in Int /\ Spread(r).width \in Int
        BY <1>3, SpreadAssumption
      <4> QED
        BY <1>4, <4>1
    <3>2. audit' = audit \cup {row}
      BY <1>0, <1>1, <2>1 DEF Log
    <3>3. row.run = r.id /\ row.credit = price
      OBVIOUS
    <3> HIDE DEF price, row
    <3>4. CASE expired
      <4>1. pc' = [pc EXCEPT ![w] = "idle"] /\ run' = [run EXCEPT ![w] = None]
        BY <1>1, <2>1, <3>4 DEF Goto
      <4> QED
        BY <3>1, <3>2, <3>3, <4>1
    <3>5. CASE ~expired
      <4>1. pc' = [pc EXCEPT ![w] = "position"] /\ run' = run
        BY <1>1, <2>1, <3>5 DEF Goto
      <4> QED
        BY <3>1, <3>2, <3>3, <4>1
    <3> QED
      BY <3>4, <3>5
  <2>2. CASE ~(natural >= t.worst)
    <3> DEFINE row == [run |-> r.id, kind |-> "NOT_FILLED", credit |-> 0]
    <3>1. audit' = audit \cup {row} /\ row.run = r.id /\ row.kind # "FILLED"
      BY <1>0, <1>1, <2>2 DEF Log
    <3>2. pc' = [pc EXCEPT ![w] = "report"] /\ run' = run
      BY <1>1, <2>2 DEF Goto
    <3> HIDE DEF row
    <3> QED
      BY <3>1, <3>2
  <2> QED
    BY <2>1, <2>2
<1>6. pc'[w] = step /\ (step # "idle" => run'[w] = r)
  BY <1>0, <1>5 DEF PriceInv, IInv, Shape
<1>7. PriceRows'
  BY <1>2, <1>3, <1>5, PriceRowsKeep DEF PriceInv
<1>8. Prices(w)'
  <2>1. \A a \in audit' : a.run = r.id /\ a.kind = "FILLED" => a.credit \in Int /\ a.credit < Spread(r).width
    BY <1>3, <1>5 DEF FilledRows
  <2>2. step # "idle" => Spread(run[w])' = Spread(r)
    BY <1>6 DEF Spread, Selected
  <2> QED
    BY <1>3, <1>5, <1>6, <2>1, <2>2 DEF Prices, Below, FilledRows, BeforeTicket, BeforeFill
<1>9. \A v \in Workers \ {w} : pc[v] # "idle" => run[v].id # r.id
  BY <1>0, <1>2, OwnRun
<1>10. pc'[w] = "idle" \/ run'[w].id = r.id
  BY <1>6
<1>11. run' \in {run, [run EXCEPT ![w] = None]}
  BY <1>5
<1>12. /\ \A u \in tickets' \ tickets : u.run = r.id
       /\ \A p \in positions' \ positions : p.run = r.id
       /\ \A a \in audit' \ audit : a.run = r.id
  BY <1>2, <1>5
<1> QED
  BY <1>5, <1>7, <1>8, <1>9, <1>10, <1>11, <1>12, OneWorkerPrices

\* A position has the width of the spread it was simulated for.
LEMMA PositionKeepsPrices ==
  ASSUME PriceInv, IInv', NEW w \in Workers, InsertPosition(w)
  PROVE  PriceInv'
<1>0. PICK r : r = run[w]
  OBVIOUS
<1>1. PICK row : positions' = positions \cup {row} /\ row.run = r.id /\ row.width = Spread(r).width
  <2> DEFINE row == [run |-> r.id, underlying |-> r.chain.underlying,
                     expiration |-> r.chain.expiration, width |-> Spread(r).width,
                     quantity |-> TicketOf(r.id).contracts]
  <2>1. positions' = positions \cup {row} /\ row.run = r.id /\ row.width = Spread(r).width
    BY <1>0 DEF InsertPosition
  <2> HIDE DEF row
  <2> QED
    BY <2>1
<1>2. /\ pc[w] = "position" /\ pc' = [pc EXCEPT ![w] = "fill"] /\ pc'[w] = "fill"
      /\ UNCHANGED <<run, tickets, fills, audit>>
  BY DEF InsertPosition, Goto, PriceInv, IInv, Shape
<1>3. Below(r.id, Spread(r).width) /\ DOMAIN r.scan = DOMAIN r.chain.spreads
  BY <1>0, <1>2 DEF PriceInv, Prices
<1>4. PriceRows'
  BY <1>1, <1>2, <1>3 DEF PriceInv, PriceRows, Below, FilledRows
<1>5. Prices(w)'
  BY <1>0, <1>2, <1>3 DEF Prices, BeforeTicket, BeforeFill
<1> QED
  BY <1>0, <1>1, <1>2, <1>4, <1>5, OwnRun, OneWorkerPrices

\* A fill takes its price from the trail.
LEMMA FillKeepsPrices ==
  ASSUME PriceInv, IInv', NEW w \in Workers, InsertFill(w)
  PROVE  PriceInv'
<1>0. PICK r : r = run[w]
  OBVIOUS
<1>1. PICK row : /\ fills' = fills \cup {row} /\ row.ticket = r.id /\ row.position = r.id
                 /\ row.price = CreditOf(r.id)
  <2> DEFINE row == [ticket |-> r.id, position |-> r.id, price |-> CreditOf(r.id)]
  <2>1. /\ fills' = fills \cup {row} /\ row.ticket = r.id /\ row.position = r.id
        /\ row.price = CreditOf(r.id)
    BY <1>0 DEF InsertFill
  <2> HIDE DEF row
  <2> QED
    BY <2>1
<1>2. /\ pc[w] = "fill" /\ pc' = [pc EXCEPT ![w] = "positionAudit"] /\ pc'[w] = "positionAudit"
      /\ UNCHANGED <<run, tickets, positions, audit>>
  BY DEF InsertFill, Goto, PriceInv, IInv, Shape
<1>3. DOMAIN r.scan = DOMAIN r.chain.spreads /\ Logged(r.id, {"FILLED"})
  BY <1>0, <1>2 DEF PriceInv, IInv, Committed, Prices, FromPosition, FromFill
<1>4. \E a \in FilledRows(r.id) : a.credit = CreditOf(r.id)
  <2>1. \E a \in audit : a.run = r.id /\ a.kind = "FILLED"
    BY <1>3 DEF Logged
  <2> QED
    BY <2>1 DEF FilledRows, CreditOf
<1>5. PriceRows'
  BY <1>1, <1>2, <1>4 DEF PriceInv, PriceRows, Below, FilledRows
<1>6. Prices(w)'
  BY <1>0, <1>2, <1>3 DEF Prices, BeforeTicket, BeforeFill
<1> QED
  BY <1>0, <1>2, <1>5, <1>6, OwnRun, OneWorkerPrices

\* Advice changes no price.
LEMMA ExitKeepsPrices ==
  ASSUME PriceInv, IInv', NEW w \in Workers, InsertExit(w)
  PROVE  PriceInv'
<1>1. /\ pc[w] = "exit" /\ pc' = [pc EXCEPT ![w] = "exitAudit"] /\ pc'[w] = "exitAudit"
      /\ UNCHANGED <<run, tickets, positions, fills, audit>>
  BY DEF InsertExit, Goto, PriceInv, IInv, Shape
<1>2. PriceRows'
  BY <1>1, PriceRowsKeep DEF PriceInv
<1>3. Prices(w)'
  BY <1>1 DEF PriceInv, Prices, BeforeTicket, BeforeFill
<1> QED
  BY <1>1, <1>2, <1>3, OwnRun, OneWorkerPrices

\* So the prices are inductive.
LEMMA PricesInductive == PriceInv /\ [Next]_vars => PriceInv'
<1> SUFFICES ASSUME PriceInv, [Next]_vars PROVE PriceInv'
  OBVIOUS
<1>1. IInv'
  BY IInvInductive DEF PriceInv
<1>2. CASE UNCHANGED vars
  <2>1. UNCHANGED <<pc, run, tickets, positions, fills, audit>>
    BY <1>2 DEF vars
  <2>2. PriceRows' /\ Apart'
    BY <2>1, PriceRowsKeep DEF PriceInv, Apart
  <2>3. ASSUME NEW w \in Workers PROVE Prices(w)'
    BY <2>1 DEF PriceInv, Prices, Spread, Selected, HasTicket, HasPosition, FilledRows, Below,
       BeforeTicket, BeforeFill
  <2> QED
    BY <1>1, <2>2, <2>3 DEF PriceInv
<1>3. CASE Next
  <2>1. PICK w \in Workers :
          \/ Reconcile(w) \/ Assess(w)
          \/ PersistCandidate(w) \/ InsertTicket(w) \/ RefuseTicket(w) \/ AuditTicket(w)
          \/ SimulateFill(w) \/ InsertPosition(w) \/ InsertFill(w) \/ AuditPosition(w)
          \/ AuditMark(w) \/ InsertExit(w) \/ AuditExit(w) \/ Report(w)
          \/ Crash(w)
    BY <1>3 DEF Next
  <2>2. CASE RefuseTicket(w) \/ Report(w) \/ Crash(w)
    BY <1>1, <2>2, EndKeepsPrices DEF RefuseTicket, Report, Crash
  <2> QED
    BY <1>1, <2>1, <2>2, ReconcileKeepsPrices, AssessKeepsPrices, CandidateKeepsPrices,
       TicketKeepsPrices, AuditKeepsPrices, SimulateKeepsPrices, PositionKeepsPrices,
       FillKeepsPrices, ExitKeepsPrices
<1> QED
  BY <1>2, <1>3

\* There are no prices at first.
LEMMA InitPrices == Init => PriceInv
<1> SUFFICES ASSUME Init PROVE PriceInv
  OBVIOUS
<1>1. IInv
  BY InitHolds
<1>2. PriceRows /\ Apart
  BY DEF Init, PriceRows, Apart
<1>3. ASSUME NEW w \in Workers PROVE Prices(w)
  BY DEF Init, Prices, BeforeTicket, BeforeFill
<1> QED
  BY <1>1, <1>2, <1>3 DEF PriceInv
-----------------------------------------------------------------------------
(* A position is what a caller asked for, at a credit he accepts *)

\* Run id sold n contracts of a spread of that width.
Sold(id, n, width) ==
  /\ n \in Sizes /\ \E s \in Spreads : s.width = width
  /\ \A a \in FilledRows(id) : \E worst \in WorstCredits : worst <= a.credit

BeforePosition == {"ticketAudit", "fillAudit", "position"}

\* What worker w is about to sell.
Terms(w) ==
  LET id == run[w].id IN
  /\ pc[w] \in BeforePosition =>
       /\ ~HasPosition(id)
       /\ \A t \in tickets : t.run = id =>
            t.contracts = run[w].size /\ t.worst \in WorstCredits /\ t.worst <= t.target
  /\ pc[w] = "position" => \A a \in FilledRows(id) : \E worst \in WorstCredits : worst <= a.credit

SoldRows ==
  /\ IsFiniteSet(positions)
  /\ \A a, b \in audit : a.kind = "FILLED" /\ b.kind = "FILLED" /\ a.run = b.run => a = b
  /\ \A p, q \in positions : p.run = q.run => p = q
  /\ \A p \in positions : Sold(p.run, p.quantity, p.width)

SaleInv == SoldRows /\ \A w \in Workers : Terms(w)

\* The step of one worker: what is left to show is about its own run and the new rows.
LEMMA OneWorkerTerms ==
  ASSUME PriceInv, SaleInv, NEW w \in Workers, NEW step, NEW id,
         pc' = [pc EXCEPT ![w] = step], \A v \in Workers \ {w} : run'[v] = run[v],
         \A v \in Workers \ {w} : pc[v] # "idle" => run[v].id # id,
         \A t \in tickets' \ tickets : t.run = id, \A p \in positions' \ positions : p.run = id,
         \A a \in audit' \ audit : a.run = id,
         SoldRows', Terms(w)'
  PROVE  SaleInv'
<1>1. \A v \in Workers : v # w => pc'[v] = pc[v] /\ run'[v] = run[v]
  BY DEF PriceInv, IInv, Shape
<1>2. ASSUME NEW v \in Workers \ {w}, pc[v] # "idle" PROVE Terms(v)'
  <2>1. /\ \A t \in tickets' : t.run = run[v].id => t \in tickets
        /\ \A p \in positions' : p.run = run[v].id => p \in positions
        /\ \A a \in audit' : a.run = run[v].id => a \in audit
    BY <1>2
  <2>2. run'[v] = run[v] /\ pc'[v] = pc[v]
    BY <1>1
  <2>3. HasPosition(run[v].id)' => HasPosition(run[v].id)
    BY <2>1, <2>2 DEF HasPosition
  <2>4. FilledRows(run[v].id)' \subseteq FilledRows(run[v].id)
    BY <2>1, <2>2 DEF FilledRows
  <2>5. Terms(v)
    BY DEF SaleInv
  <2> QED
    BY <2>1, <2>2, <2>3, <2>4, <2>5 DEF Terms
<1>3. ASSUME NEW v \in Workers \ {w}, pc[v] = "idle" PROVE Terms(v)'
  BY <1>1, <1>3 DEF Terms, BeforePosition
<1> QED
  BY <1>2, <1>3 DEF SaleInv

\* The trail may grow, but for fills.
LEMMA SoldRowsKeep ==
  ASSUME SoldRows, positions' = positions,
         \A a \in audit' : a.kind = "FILLED" => a \in audit
  PROVE  SoldRows'
<1>1. \A id : FilledRows(id)' \subseteq FilledRows(id)
  BY DEF FilledRows
<1> QED
  BY <1>1 DEF SoldRows, Sold

\* A worker before its ticket, or past its position, has no terms to keep.
LEMMA QuietKeepsTerms ==
  ASSUME PriceInv, SaleInv, NEW w \in Workers, NEW step, NEW id,
         pc' = [pc EXCEPT ![w] = step], \A v \in Workers \ {w} : run'[v] = run[v],
         step \notin BeforePosition,
         \A v \in Workers \ {w} : pc[v] # "idle" => run[v].id # id,
         tickets' = tickets, positions' = positions,
         \A a \in audit' \ audit : a.run = id /\ a.kind # "FILLED"
  PROVE  SaleInv'
<1>1. pc'[w] \notin BeforePosition
  BY DEF PriceInv, IInv, Shape
<1>2. Terms(w)'
  BY <1>1 DEF Terms, BeforePosition
<1>3. SoldRows'
  BY SoldRowsKeep DEF SaleInv
<1> QED
  BY <1>2, <1>3, OneWorkerTerms

\* The steps up to the ticket, and from the position on.
LEMMA QuietStep ==
  ASSUME PriceInv, SaleInv, NEW w \in Workers,
         \/ Reconcile(w) \/ Assess(w) \/ PersistCandidate(w) \/ RefuseTicket(w) \/ InsertFill(w)
         \/ AuditPosition(w) \/ AuditMark(w) \/ InsertExit(w) \/ AuditExit(w) \/ Report(w) \/ Crash(w)
  PROVE  SaleInv'
<1>0. PICK free : \A v \in Workers : pc[v] # "idle" => run[v].id # free
  <2>1. \A v \in Workers : pc[v] # "idle" => run[v].id \in 1 .. started
    BY DEF PriceInv, IInv, Memory
  <2>2. \A v \in Workers : pc[v] # "idle" => run[v].id # 0
    BY <2>1
  <2> QED
    BY <2>2
<1>1. ASSUME NEW step, Goto(w, step), step \notin BeforePosition,
             \A v \in Workers \ {w} : run'[v] = run[v],
             tickets' = tickets, positions' = positions, audit' = audit
      PROVE  SaleInv'
  BY <1>0, <1>1, QuietKeepsTerms DEF Goto
<1>r. ASSUME NEW new, run' \in {run, [run EXCEPT ![w] = new]}
      PROVE  \A v \in Workers \ {w} : run'[v] = run[v]
  BY <1>r DEF PriceInv, IInv, Shape
<1> USE DEF BeforePosition
<1>2. CASE Reconcile(w)
  BY <1>1, <1>2, <1>r DEF Reconcile, tables
<1>3. CASE Assess(w)
  <2>1. PICK new : run' = [run EXCEPT ![w] = new] /\ Goto(w, "candidate")
    BY <1>3, AssessFinds DEF PriceInv, Goto
  <2>2. tickets' = tickets /\ positions' = positions /\ audit' = audit
    BY <1>3 DEF Assess, tables
  <2>3. \A v \in Workers \ {w} : run'[v] = run[v]
    BY <1>r, <2>1
  <2> QED
    BY <1>1, <2>1, <2>2, <2>3
<1>4. CASE PersistCandidate(w)
  <2>1. PICK step \in {"candidate", "ticket", "report"} : Goto(w, step)
    BY <1>4 DEF PersistCandidate
  <2>2. PICK new : run' = [run EXCEPT ![w] = new]
    BY <1>4, Zenon DEF PersistCandidate
  <2>3. tickets' = tickets /\ positions' = positions /\ audit' = audit
    BY <1>4 DEF PersistCandidate
  <2>4. \A v \in Workers \ {w} : run'[v] = run[v]
    BY <1>r, <2>2
  <2> QED
    BY <1>1, <2>1, <2>2, <2>3, <2>4
<1>5. CASE RefuseTicket(w) \/ Report(w) \/ Crash(w)
  BY <1>1, <1>5, <1>r DEF RefuseTicket, Report, Crash, tables
<1>6. CASE InsertFill(w) \/ InsertExit(w)
  <2>1. PICK step \in {"positionAudit", "exitAudit"} : Goto(w, step)
    BY <1>6 DEF InsertFill, InsertExit
  <2> QED
    BY <1>1, <1>6, <2>1 DEF InsertFill, InsertExit
<1>7. CASE AuditPosition(w) \/ AuditMark(w) \/ AuditExit(w)
  <2>1. PICK step, kind : /\ Log(w, kind, 0) /\ Goto(w, step) /\ kind # "FILLED"
                          /\ step \in {"markAudit", "exit", "report"}
    BY <1>7 DEF AuditPosition, AuditMark, AuditExit
  <2>2. /\ UNCHANGED <<run, tickets, positions>> /\ pc[w] # "idle"
        /\ \A v \in Workers \ {w} : pc[v] # "idle" => run[v].id # run[w].id
    BY <1>7, OwnRun DEF AuditPosition, AuditMark, AuditExit
  <2>3. PICK row : audit' = audit \cup {row} /\ row.run = run[w].id /\ row.kind # "FILLED"
    <3> DEFINE row == [run |-> run[w].id, kind |-> kind, credit |-> 0]
    <3>1. audit' = audit \cup {row} /\ row.run = run[w].id /\ row.kind = kind
      BY <2>1 DEF Log
    <3> HIDE DEF row
    <3> QED
      BY <2>1, <3>1
  <2>4. \A a \in audit' \ audit : a.run = run[w].id /\ a.kind # "FILLED"
    BY <2>3
  <2>5. /\ pc' = [pc EXCEPT ![w] = step] /\ \A v \in Workers \ {w} : run'[v] = run[v]
        /\ step \notin BeforePosition /\ tickets' = tickets /\ positions' = positions
    BY <2>1, <2>2 DEF Goto
  <2> QED
    BY <2>2, <2>4, <2>5, QuietKeepsTerms, ZenonT(40)
<1> QED
  BY <1>2, <1>3, <1>4, <1>5, <1>6, <1>7

\* A ticket says what its run asked for.
LEMMA TicketKeepsTerms ==
  ASSUME PriceInv, SaleInv, NEW w \in Workers, InsertTicket(w)
  PROVE  SaleInv'
<1>0. PICK r, s : r = run[w] /\ s = Spread(r)
  OBVIOUS
<1>1. PICK row : /\ tickets' = tickets \cup {row} /\ row.run = r.id /\ row.contracts = r.size
                 /\ row.worst \in WorstCredits /\ row.worst <= row.target
  <2>1. PICK worst \in WorstCredits :
          /\ TicketAccepted(s, "WATCHLIST", r.status, Equity, worst, r.kill)
          /\ tickets' = tickets \cup {[run |-> r.id, candidate |-> Selected(r), contracts |-> r.size,
                                       target |-> s.credit, worst |-> worst]}
    BY <1>0 DEF InsertTicket
  <2> DEFINE row == [run |-> r.id, candidate |-> Selected(r), contracts |-> r.size,
                     target |-> s.credit, worst |-> worst]
  <2>2. /\ tickets' = tickets \cup {row} /\ row.run = r.id /\ row.contracts = r.size
        /\ row.worst \in WorstCredits /\ row.worst <= row.target
    BY <2>1 DEF TicketAccepted
  <2> HIDE DEF row
  <2> QED
    BY <2>2
<1>2. /\ pc[w] = "ticket" /\ pc' = [pc EXCEPT ![w] = "ticketAudit"] /\ pc'[w] = "ticketAudit"
      /\ UNCHANGED <<run, positions, audit>>
  BY DEF InsertTicket, Goto, PriceInv, IInv, Shape
<1>3. ~HasTicket(r.id) /\ ~HasPosition(r.id)
  BY <1>0, <1>2 DEF PriceInv, Prices, BeforeTicket, BeforeFill
<1>4. \A t \in tickets' : t.run = r.id => t = row
  BY <1>1, <1>3 DEF HasTicket
<1>5. Terms(w)'
  BY <1>0, <1>1, <1>2, <1>3, <1>4 DEF Terms, HasPosition
<1>6. SoldRows'
  BY <1>2, SoldRowsKeep DEF SaleInv
<1> QED
  BY <1>0, <1>1, <1>2, <1>5, <1>6, OwnRun, OneWorkerTerms

\* Its audit row changes nothing of it.
LEMMA TicketAuditKeepsTerms ==
  ASSUME PriceInv, SaleInv, NEW w \in Workers, AuditTicket(w)
  PROVE  SaleInv'
<1>1. /\ pc[w] = "ticketAudit" /\ pc' = [pc EXCEPT ![w] = "fillAudit"] /\ pc'[w] = "fillAudit"
      /\ UNCHANGED <<run, tickets, positions>>
  BY DEF AuditTicket, Goto, PriceInv, IInv, Shape
<1>2. PICK row : audit' = audit \cup {row} /\ row.run = run[w].id /\ row.kind # "FILLED"
  <2> DEFINE row == [run |-> run[w].id, kind |-> "TICKET_CREATED", credit |-> 0]
  <2>1. audit' = audit \cup {row} /\ row.run = run[w].id /\ row.kind # "FILLED"
    BY DEF AuditTicket, Log
  <2> HIDE DEF row
  <2> QED
    BY <2>1
<1>3. SoldRows'
  BY <1>1, <1>2, SoldRowsKeep DEF SaleInv
<1>4. Terms(w)'
  BY <1>1 DEF SaleInv, Terms, HasPosition, BeforePosition
<1> QED
  BY <1>1, <1>2, <1>3, <1>4, OwnRun, OneWorkerTerms

\* The one fill of a run is no worse than its ticket says.
LEMMA SimulateKeepsTerms ==
  ASSUME PriceInv, SaleInv, NEW w \in Workers, SimulateFill(w)
  PROVE  SaleInv'
<1>0. PICK r, t : r = run[w] /\ t = TicketOf(r.id)
  OBVIOUS
<1>1. PICK natural \in Naturals, expired \in BOOLEAN :
        LET filled == natural >= t.worst IN
        /\ Log(w, IF filled THEN "FILLED" ELSE "NOT_FILLED",
               IF ~filled THEN 0 ELSE IF natural < t.target THEN natural ELSE t.target)
        /\ IF filled /\ expired
           THEN Goto(w, "idle") /\ run' = [run EXCEPT ![w] = None]
           ELSE Goto(w, IF filled THEN "position" ELSE "report") /\ run' = run
  BY <1>0 DEF SimulateFill
<1>2. pc[w] = "fillAudit" /\ UNCHANGED <<tickets, positions>>
  BY DEF SimulateFill
<1>3. /\ HasTicket(r.id) /\ FilledRows(r.id) = {} /\ ~HasPosition(r.id)
      /\ \A u \in tickets : u.run = r.id =>
           u.contracts = r.size /\ u.worst \in WorstCredits /\ u.worst <= u.target
  BY <1>0, <1>2 DEF PriceInv, IInv, Committed, Prices, BeforeTicket, BeforeFill, FromTicketAudit,
     FromFillAudit, SaleInv, Terms, BeforePosition
<1>4. t.worst \in WorstCredits /\ t.worst <= t.target
  BY <1>0, <1>3, TicketOfRun
<1>5. PICK row, step :
        /\ audit' = audit \cup {row} /\ row.run = r.id /\ pc' = [pc EXCEPT ![w] = step]
        /\ \/ step = "idle" /\ run' = [run EXCEPT ![w] = None]
           \/ step = "report" /\ run' = run
           \/ step = "position" /\ run' = run
        /\ row.kind = "FILLED" => t.worst <= row.credit
  <2>1. CASE natural >= t.worst
    <3> DEFINE price == IF natural < t.target THEN natural ELSE t.target
               row == [run |-> r.id, kind |-> "FILLED", credit |-> price]
    <3>1. t.worst <= price
      <4>1. natural \in Int /\ t.worst \in Int
        BY <1>4, SpreadAssumption
      <4> QED
        BY <1>4, <2>1, <4>1
    <3>2. audit' = audit \cup {row}
      BY <1>0, <1>1, <2>1 DEF Log
    <3>3. row.run = r.id /\ row.credit = price
      OBVIOUS
    <3> HIDE DEF price, row
    <3>4. CASE expired
      <4>1. pc' = [pc EXCEPT ![w] = "idle"] /\ run' = [run EXCEPT ![w] = None]
        BY <1>1, <2>1, <3>4 DEF Goto
      <4> QED
        BY <3>1, <3>2, <3>3, <4>1
    <3>5. CASE ~expired
      <4>1. pc' = [pc EXCEPT ![w] = "position"] /\ run' = run
        BY <1>1, <2>1, <3>5 DEF Goto
      <4> QED
        BY <3>1, <3>2, <3>3, <4>1
    <3> QED
      BY <3>4, <3>5
  <2>2. CASE ~(natural >= t.worst)
    <3> DEFINE row == [run |-> r.id, kind |-> "NOT_FILLED", credit |-> 0]
    <3>1. audit' = audit \cup {row} /\ row.run = r.id /\ row.kind # "FILLED"
      BY <1>0, <1>1, <2>2 DEF Log
    <3>2. pc' = [pc EXCEPT ![w] = "report"] /\ run' = run
      BY <1>1, <2>2 DEF Goto
    <3> HIDE DEF row
    <3> QED
      BY <3>1, <3>2
  <2> QED
    BY <2>1, <2>2
<1>6. pc'[w] = step /\ (step # "idle" => run'[w] = r)
  BY <1>0, <1>5 DEF PriceInv, IInv, Shape
<1>7. \A a \in audit' : a.run = r.id /\ a.kind = "FILLED" => a = row /\ t.worst <= a.credit
  BY <1>3, <1>5 DEF FilledRows
<1>8. SoldRows'
  <2>1. \A a, b \in audit' : a.kind = "FILLED" /\ b.kind = "FILLED" /\ a.run = b.run => a = b
    BY <1>5, <1>7 DEF SaleInv, SoldRows
  <2>2. ASSUME NEW p \in positions PROVE Sold(p.run, p.quantity, p.width)'
    <3>1. FilledRows(p.run)' \subseteq FilledRows(p.run)
      BY <1>3, <1>5 DEF FilledRows, HasPosition
    <3> QED
      BY <3>1 DEF SaleInv, SoldRows, Sold
  <2> QED
    BY <1>2, <2>1, <2>2 DEF SaleInv, SoldRows
<1>9. Terms(w)'
  BY <1>2, <1>3, <1>4, <1>5, <1>6, <1>7 DEF Terms, BeforePosition, HasPosition, FilledRows
<1>10. \A v \in Workers \ {w} : pc[v] # "idle" => run[v].id # r.id
  BY <1>0, <1>2, OwnRun
<1>11. \A v \in Workers \ {w} : run'[v] = run[v]
  BY <1>5 DEF PriceInv, IInv, Shape
<1>12. /\ \A u \in tickets' \ tickets : u.run = r.id
       /\ \A p \in positions' \ positions : p.run = r.id
       /\ \A a \in audit' \ audit : a.run = r.id
  BY <1>2, <1>5
<1> QED
  BY <1>5, <1>8, <1>9, <1>10, <1>11, <1>12, OneWorkerTerms

\* A run with a ticket goes for a spread of its chain.
LEMMA SpreadOfRun ==
  ASSUME PriceInv, NEW w \in Workers, pc[w] \in FromTicket
  PROVE  Spread(run[w]) \in Spreads /\ run[w].chain \in Chains /\ run[w].size \in Sizes
<1>0. PICK r : r = run[w]
  OBVIOUS
<1>1. /\ r \in Judged /\ Selected(r) \in 1 .. r.written /\ DOMAIN r.scan = DOMAIN r.chain.spreads
  BY <1>0 DEF PriceInv, IInv, Memory, Prices, FromTicket, FromTicketAudit, FromFillAudit,
     FromPosition, FromFill, FromPositionAudit, FromMarkAudit, FromExit, FromExitAudit
<1>2. r.scan \in Seq(ScanStatuses) /\ r.chain \in Chains /\ r.written \in Nat /\ r.size \in Sizes
  BY <1>1 DEF Judged
<1>3. Selected(r) \in 1 .. Len(r.scan)
  BY <1>1, <1>2, SelectedIsScanned
<1>4. Selected(r) \in DOMAIN r.chain.spreads
  BY <1>1, <1>2, <1>3, LenProperties
<1> QED
  BY <1>0, <1>2, <1>4 DEF Spread, Spreads, Range

\* A position is sold on the terms of its ticket.
LEMMA PositionKeepsTerms ==
  ASSUME PriceInv, SaleInv, NEW w \in Workers, InsertPosition(w)
  PROVE  SaleInv'
<1>0. PICK r, t : r = run[w] /\ t = TicketOf(r.id)
  OBVIOUS
<1>1. PICK row : /\ positions' = positions \cup {row} /\ row.run = r.id
                 /\ row.width = Spread(r).width /\ row.quantity = t.contracts
  <2> DEFINE row == [run |-> r.id, underlying |-> r.chain.underlying,
                     expiration |-> r.chain.expiration, width |-> Spread(r).width,
                     quantity |-> TicketOf(r.id).contracts]
  <2>1. /\ positions' = positions \cup {row} /\ row.run = r.id /\ row.width = Spread(r).width
        /\ row.quantity = t.contracts
    BY <1>0 DEF InsertPosition
  <2> HIDE DEF row
  <2> QED
    BY <2>1
<1>2. /\ pc[w] = "position" /\ pc' = [pc EXCEPT ![w] = "fill"] /\ pc'[w] = "fill"
      /\ UNCHANGED <<run, tickets, audit>>
  BY DEF InsertPosition, Goto, PriceInv, IInv, Shape
<1>3. /\ ~HasPosition(r.id) /\ HasTicket(r.id)
      /\ \A u \in tickets : u.run = r.id => u.contracts = r.size
      /\ \A a \in FilledRows(r.id) : \E worst \in WorstCredits : worst <= a.credit
  BY <1>0, <1>2 DEF PriceInv, IInv, Committed, FromTicketAudit, FromFillAudit, FromPosition,
     SaleInv, Terms, BeforePosition
<1>4. t.contracts = r.size
  BY <1>0, <1>3, TicketOfRun
<1>5. Spread(r) \in Spreads /\ r.size \in Sizes
  BY <1>0, <1>2, SpreadOfRun DEF FromTicket, FromTicketAudit, FromFillAudit, FromPosition
<1>6. \A id, n, width : Sold(id, n, width)' <=> Sold(id, n, width)
  BY <1>2 DEF Sold, FilledRows
<1>7. Sold(row.run, row.quantity, row.width)
  BY <1>1, <1>3, <1>4, <1>5 DEF Sold
<1>8. SoldRows'
  <2>1. IsFiniteSet(positions')
    BY <1>1, FS_AddElement DEF SaleInv, SoldRows
  <2>2. \A p, q \in positions' : p.run = q.run => p = q
    BY <1>1, <1>3 DEF SaleInv, SoldRows, HasPosition
  <2> QED
    BY <1>1, <1>2, <1>6, <1>7, <2>1, <2>2 DEF SaleInv, SoldRows
<1>9. Terms(w)'
  BY <1>2 DEF Terms, BeforePosition
<1>10. \A v \in Workers \ {w} : pc[v] # "idle" => run[v].id # r.id
  BY <1>0, <1>2, OwnRun
<1>11. /\ \A u \in tickets' \ tickets : u.run = r.id
       /\ \A p \in positions' \ positions : p.run = r.id
       /\ \A a \in audit' \ audit : a.run = r.id
  BY <1>1, <1>2
<1> QED
  BY <1>2, <1>8, <1>9, <1>10, <1>11, OneWorkerTerms

\* So the sales are inductive.
LEMMA SalesInductive == PriceInv /\ SaleInv /\ [Next]_vars => SaleInv'
<1> SUFFICES ASSUME PriceInv, SaleInv, [Next]_vars PROVE SaleInv'
  OBVIOUS
<1>1. CASE UNCHANGED vars
  <2>1. UNCHANGED <<pc, run, tickets, positions, audit>>
    BY <1>1 DEF vars
  <2> QED
    BY <2>1 DEF SaleInv, SoldRows, Sold, Terms, HasPosition, FilledRows
<1>2. CASE Next
  BY <1>2, QuietStep, TicketKeepsTerms, TicketAuditKeepsTerms, SimulateKeepsTerms,
     PositionKeepsTerms DEF Next
<1> QED
  BY <1>1, <1>2

\* At first nothing is sold.
LEMMA InitSales == Init => SaleInv
<1> SUFFICES ASSUME Init PROVE SaleInv
  OBVIOUS
<1>1. SoldRows
  BY FS_EmptySet DEF Init, SoldRows
<1>2. ASSUME NEW w \in Workers PROVE Terms(w)
  BY DEF Init, Terms, BeforePosition
<1> QED
  BY <1>1, <1>2 DEF SaleInv
-----------------------------------------------------------------------------
(* What a position can lose is settled with its fill *)

\* No row is ever taken back.
LEMMA RowsGrow ==
  ASSUME [Next]_vars
  PROVE  positions \subseteq positions' /\ audit \subseteq audit' /\ fills \subseteq fills'
<1>1. CASE UNCHANGED vars
  BY <1>1 DEF vars
<1>2. ASSUME NEW w \in Workers, Reconcile(w) \/ RefuseTicket(w) \/ Report(w) \/ Crash(w)
      PROVE  UNCHANGED <<positions, audit, fills>>
  BY <1>2 DEF Reconcile, RefuseTicket, Report, Crash, tables
<1>3. ASSUME NEW w \in Workers, Assess(w) PROVE UNCHANGED <<positions, audit, fills>>
  BY <1>3 DEF Assess, tables
<1>4. ASSUME NEW w \in Workers, PersistCandidate(w) \/ InsertTicket(w) \/ InsertExit(w)
      PROVE  UNCHANGED <<positions, audit, fills>>
  BY <1>4 DEF PersistCandidate, InsertTicket, InsertExit
<1>5. ASSUME NEW w \in Workers, AuditTicket(w) \/ AuditPosition(w) \/ AuditMark(w) \/ AuditExit(w)
      PROVE  audit \subseteq audit' /\ UNCHANGED <<positions, fills>>
  BY <1>5 DEF AuditTicket, AuditPosition, AuditMark, AuditExit, Log
<1>6. ASSUME NEW w \in Workers, SimulateFill(w)
      PROVE  audit \subseteq audit' /\ UNCHANGED <<positions, fills>>
  BY <1>6 DEF SimulateFill, Log
<1>7. ASSUME NEW w \in Workers, InsertPosition(w) \/ InsertFill(w)
      PROVE  positions \subseteq positions' /\ fills \subseteq fills' /\ UNCHANGED audit
  BY <1>7 DEF InsertPosition, InsertFill
<1> QED
  BY <1>1, <1>2, <1>3, <1>4, <1>5, <1>6, <1>7 DEF Next

\* Every position has the credit of its one simulated fill, below its width.
LEMMA CreditOfRun ==
  ASSUME PriceInv, SaleInv, NEW p \in positions
  PROVE  \E a \in FilledRows(p.run) : FilledRows(p.run) = {a} /\ a.credit = CreditOf(p.run)
<1>1. FilledRows(p.run) # {}
  <2>1. Logged(p.run, {"TICKET_CREATED", "FILLED"})
    BY DEF PriceInv, IInv, TrailLeadsRows
  <2> QED
    BY <2>1 DEF Logged, FilledRows
<1>2. PICK a \in FilledRows(p.run) : a = CHOOSE b \in audit : b.run = p.run /\ b.kind = "FILLED"
  BY <1>1 DEF FilledRows
<1>3. FilledRows(p.run) = {a}
  BY DEF FilledRows, SaleInv, SoldRows
<1> QED
  BY <1>2, <1>3 DEF CreditOf

\* So it has something to lose.
LEMMA RiskCounts ==
  ASSUME PriceInv, SaleInv, NEW p \in positions
  PROVE  /\ RiskOf(p) \in Nat \ {0}
         /\ p.quantity \in Nat \ {0} /\ p.width \in Nat /\ CreditOf(p.run) \in Int
<1>1. PICK a \in FilledRows(p.run) : a.credit = CreditOf(p.run)
  BY CreditOfRun
<1>2. Below(p.run, p.width)
  BY DEF PriceInv, PriceRows
<1>3. CreditOf(p.run) \in Int /\ CreditOf(p.run) < p.width /\ p.width \in Nat
  BY <1>1, <1>2 DEF Below
<1>4. p.quantity \in Nat \ {0}
  BY DEF PriceInv, IInv, Rows
<1>5. p.width - CreditOf(p.run) \in Nat \ {0}
  BY <1>3
<1>6. \A m, n \in Nat \ {0} : m * n \in Nat \ {0}
  OBVIOUS
<1> QED
  BY <1>3, <1>4, <1>5, <1>6 DEF RiskOf

\* The credit of a fill is the same ever after.
LEMMA RiskStays ==
  ASSUME PriceInv, SaleInv, [Next]_vars, NEW p \in positions
  PROVE  RiskOf(p)' = RiskOf(p)
<1>1. SaleInv' /\ audit \subseteq audit'
  BY SalesInductive, RowsGrow
<1>2. PICK a \in FilledRows(p.run) : a.credit = CreditOf(p.run)
  BY CreditOfRun
<1>3. a \in audit' /\ a.run = p.run /\ a.kind = "FILLED"
  BY <1>1, <1>2 DEF FilledRows
<1>4. \A b \in audit' : b.run = p.run /\ b.kind = "FILLED" => b = a
  BY <1>1, <1>3 DEF SaleInv, SoldRows
<1>5. (CHOOSE b \in audit' : b.run = p.run /\ b.kind = "FILLED") = a
  BY <1>3, <1>4
<1>6. CreditOf(p.run)' = a.credit
  BY <1>5 DEF CreditOf
<1> QED
  BY <1>2, <1>6 DEF RiskOf

\* What a set of positions can lose is never below zero, and nothing that its part loses.
LEMMA LossAdds ==
  ASSUME PriceInv, SaleInv, NEW S \in SUBSET positions, NEW f, \A p \in S : f[p] = RiskOf(p),
         NEW T \in SUBSET S
  PROVE  /\ OpenLoss(S) \in Nat /\ SumFunctionOnSet(f, T) = OpenLoss(T)
         /\ OpenLoss(T) <= OpenLoss(S)
<1>1. IsFiniteSet(S) /\ IsFiniteSet(T)
  BY FS_Subset DEF SaleInv, SoldRows
<1>2. \A U \in SUBSET S : OpenLoss(U) = SumFunctionOnSet(f, U)
  <2> SUFFICES ASSUME NEW U \in SUBSET S PROVE OpenLoss(U) = SumFunctionOnSet(f, U)
    OBVIOUS
  <2> DEFINE g == [p \in U |-> RiskOf(p)]
  <2>1. OpenLoss(U) = SumFunctionOnSet(g, U)
    BY DEF OpenLoss, SumFunction
  <2>2. \A p \in U : g[p] = f[p]
    OBVIOUS
  <2>3. IsFiniteSet(U)
    BY <1>1, FS_Subset
  <2> HIDE DEF g
  <2> QED
    BY <2>1, <2>2, <2>3, SumSame
<1>3. \A p \in S : f[p] \in Nat
  BY RiskCounts
<1>4. SumFunctionOnSet(f, S) \in Nat
  BY <1>1, <1>3, SumNat
<1>5. SumFunctionOnSet(f, T) <= SumFunctionOnSet(f, S)
  BY <1>1, <1>3, SumPart
<1> QED
  BY <1>2, <1>4, <1>5
-----------------------------------------------------------------------------
(* The open risk and the limits *)

\* The limits: on all that is open, on one expiration and on one underlying.
Ways == {"all", "expiration", "underlying"}
PctOf(by) == IF by = "all" THEN HeatPct ELSE IF by = "expiration" THEN ExpirationPct ELSE ClusterPct
InGroup(x, by, value) ==
  \/ by = "all"
  \/ by = "expiration" /\ x.expiration = value
  \/ by = "underlying" /\ x.underlying = value
Group(by, value) == {p \in positions : InGroup(p, by, value)}

\* Worker w was approved and has no position yet.
Opening(w) ==
  \/ pc[w] \in {"ticket", "ticketAudit", "fillAudit", "position"}
  \/ pc[w] = "candidate" /\ run[w].status = "APPROVED" /\ Selected(run[w]) # 0
OpeningIn(by, value) == {w \in Workers : Opening(w) /\ InGroup(run[w].chain, by, value)}

\* The runs that hold a position of the group or are about to.
RunsOf(S) == {p.run : p \in S}
OpenRuns(by, value) == RunsOf(Group(by, value)) \cup {run[w].id : w \in OpeningIn(by, value)}

\* Whoever was approved last saw a book within the limit, its own trade included, and of
\* what is open or opening now that book lacked no more than one run of each worker.
Limited(by, value) ==
  OpenRuns(by, value) # {} =>
    \E book \in SUBSET Group(by, value), loss \in ApprovedLosses :
      /\ 100 * (OpenLoss(book) + loss) <= LimitAmount(Equity, PctOf(by))
      /\ Cardinality(OpenRuns(by, value) \ RunsOf(book)) <= Cardinality(Workers)

LimitInv ==
  IInv /\ TornHaveWorkers /\ PriceInv /\ SaleInv
    /\ \A by \in Ways : \A value : Limited(by, value)

\* There are finitely many of them.
LEMMA OpenFinite ==
  ASSUME SaleInv, NEW by, NEW value
  PROVE  IsFiniteSet(OpenRuns(by, value)) /\ IsFiniteSet(Group(by, value))
<1> DEFINE ids == [p \in positions |-> p.run]
           running == [w \in Workers |-> run[w].id]
<1>1. IsFiniteSet(Group(by, value))
  BY FS_Subset DEF Group, SaleInv, SoldRows
<1>2. IsFiniteSet(OpeningIn(by, value))
  BY FS_Subset, DeskAssumption DEF OpeningIn
<1>3. RunsOf(Group(by, value)) = {ids[p] : p \in Group(by, value)}
  BY DEF RunsOf, Group
<1>4. {run[w].id : w \in OpeningIn(by, value)} = {running[w] : w \in OpeningIn(by, value)}
  BY DEF OpeningIn
<1> HIDE DEF ids, running
<1>5. /\ IsFiniteSet({ids[p] : p \in Group(by, value)})
      /\ IsFiniteSet({running[w] : w \in OpeningIn(by, value)})
  BY <1>1, <1>2, ImageFinite
<1> QED
  BY <1>1, <1>3, <1>4, <1>5, FS_Union DEF OpenRuns

\* While nobody is approved, the limit stays as it was seen.
LEMMA LimitedStays ==
  ASSUME LimitInv, [Next]_vars, NEW by \in Ways, NEW value,
         OpenRuns(by, value)' \subseteq OpenRuns(by, value)
  PROVE  Limited(by, value)'
<1> SUFFICES ASSUME OpenRuns(by, value)' # {} PROVE Limited(by, value)'
  BY DEF Limited
<1>1. PICK book \in SUBSET Group(by, value), loss \in ApprovedLosses :
        /\ 100 * (OpenLoss(book) + loss) <= LimitAmount(Equity, PctOf(by))
        /\ Cardinality(OpenRuns(by, value) \ RunsOf(book)) <= Cardinality(Workers)
  BY DEF LimitInv, Limited
<1>2. book \subseteq positions /\ IsFiniteSet(book)
  <2>1. IsFiniteSet(Group(by, value))
    BY OpenFinite DEF LimitInv
  <2>2. book \subseteq positions
    BY DEF Group
  <2> QED
    BY <2>1, <2>2, FS_Subset
<1>3. book \in SUBSET Group(by, value)'
  BY <1>1, RowsGrow DEF Group, InGroup
<1>4. OpenLoss(book)' = OpenLoss(book)
  <2> DEFINE f == [p \in book |-> RiskOf(p)]
             g == [p \in book |-> RiskOf(p)']
  <2>1. OpenLoss(book) = SumFunctionOnSet(f, book)
    BY DEF OpenLoss, SumFunction
  <2>2. OpenLoss(book)' = SumFunctionOnSet(g, book)
    BY DEF OpenLoss, SumFunction
  <2>3. \A p \in book : RiskOf(p)' = RiskOf(p)
    BY <1>2, RiskStays DEF LimitInv
  <2>4. \A p \in book : f[p] = g[p]
    BY <2>3
  <2> HIDE DEF f, g
  <2> QED
    BY <1>2, <2>1, <2>2, <2>4, SumSame
<1>5. Cardinality(OpenRuns(by, value)' \ RunsOf(book)) <= Cardinality(Workers)
  <2> DEFINE left == OpenRuns(by, value)' \ RunsOf(book)
             all == OpenRuns(by, value) \ RunsOf(book)
  <2>1. left \subseteq all /\ IsFiniteSet(all) /\ IsFiniteSet(Workers)
    BY OpenFinite, FS_Subset, DeskAssumption DEF LimitInv
  <2>2. Cardinality(all) <= Cardinality(Workers)
    BY <1>1
  <2> HIDE DEF left, all
  <2>3. Cardinality(left) <= Cardinality(all) /\ IsFiniteSet(left)
    BY <2>1, FS_Subset
  <2>4. Cardinality(left) \in Nat /\ Cardinality(all) \in Nat /\ Cardinality(Workers) \in Nat
    BY <2>1, <2>3, FS_CardinalityType
  <2>5. Cardinality(left) <= Cardinality(Workers)
    BY <2>2, <2>3, <2>4
  <2> QED
    BY <2>5 DEF left
<1>6. RunsOf(book)' = RunsOf(book)
  BY DEF RunsOf
<1> QED
  BY <1>1, <1>3, <1>4, <1>5, <1>6 DEF Limited

\* A worker goes on opening, or it stops, or its position is there.
LEMMA OpenShrinks ==
  ASSUME PriceInv, NEW w \in Workers, NEW step, Goto(w, step),
         \A v \in Workers \ {w} : run'[v] = run[v],
         Opening(w)' => Opening(w) /\ run'[w].id = run[w].id /\ run'[w].chain = run[w].chain,
         \A p \in positions' \ positions :
           /\ Opening(w) /\ p.run = run[w].id
           /\ p.underlying = run[w].chain.underlying /\ p.expiration = run[w].chain.expiration,
         NEW by, NEW value
  PROVE  OpenRuns(by, value)' \subseteq OpenRuns(by, value)
<1>1. \A v \in Workers : v # w => pc'[v] = pc[v] /\ run'[v] = run[v]
  BY DEF Goto, PriceInv, IInv, Shape
<1>2. ASSUME NEW v \in Workers, Opening(v)', InGroup(run'[v].chain, by, value)
      PROVE  run'[v].id \in OpenRuns(by, value)
  <2>1. CASE v = w
    BY <1>2, <2>1 DEF OpenRuns, OpeningIn
  <2>2. CASE v # w
    <3>1. run'[v] = run[v] /\ pc'[v] = pc[v]
      BY <1>1, <2>2
    <3>2. Selected(run[v])' = Selected(run[v])
      BY <3>1 DEF Selected
    <3>3. Opening(v)
      BY <1>2, <3>1, <3>2 DEF Opening
    <3> QED
      BY <1>2, <3>1, <3>3 DEF OpenRuns, OpeningIn
  <2> QED
    BY <2>1, <2>2
<1>3. ASSUME NEW p \in positions', InGroup(p, by, value)
      PROVE  p.run \in OpenRuns(by, value)
  <2>1. CASE p \in positions
    BY <1>3, <2>1 DEF OpenRuns, RunsOf, Group
  <2>2. CASE p \notin positions
    <3>1. Opening(w) /\ p.run = run[w].id /\ InGroup(run[w].chain, by, value)
      BY <1>3, <2>2 DEF InGroup
    <3> QED
      BY <3>1 DEF OpenRuns, OpeningIn
  <2> QED
    BY <2>1, <2>2
<1> QED
  BY <1>2, <1>3 DEF OpenRuns, OpeningIn, RunsOf, Group, InGroup

\* So it is for every step but the judgement.
LEMMA OthersOpenNothing ==
  ASSUME PriceInv, NEW w \in Workers, NEW by, NEW value,
         \/ Reconcile(w) \/ PersistCandidate(w) \/ InsertTicket(w) \/ RefuseTicket(w)
         \/ AuditTicket(w) \/ SimulateFill(w) \/ InsertPosition(w) \/ InsertFill(w)
         \/ AuditPosition(w) \/ AuditMark(w) \/ InsertExit(w) \/ AuditExit(w) \/ Report(w)
         \/ Crash(w)
  PROVE  OpenRuns(by, value)' \subseteq OpenRuns(by, value)
<1>1. Shape
  BY DEF PriceInv, IInv
<1> DEFINE Steady == {"ticket", "ticketAudit", "fillAudit", "position"}
<1>r. ASSUME NEW new, run' = [run EXCEPT ![w] = new]
      PROVE  \A v \in Workers \ {w} : run'[v] = run[v]
  BY <1>1, <1>r DEF Shape
<1>2. ASSUME NEW step, Goto(w, step), positions' = positions,
             \A v \in Workers \ {w} : run'[v] = run[v],
             step \notin Steady \cup {"candidate"}
      PROVE  OpenRuns(by, value)' \subseteq OpenRuns(by, value)
  <2>1. pc'[w] = step
    BY <1>1, <1>2 DEF Goto, Shape
  <2>2. ~Opening(w)'
    BY <1>2, <2>1 DEF Opening
  <2> QED
    BY <1>2, <2>2, OpenShrinks
<1>3. ASSUME NEW step, Goto(w, step), positions' = positions, run' = run,
             pc[w] \in Steady, step # "candidate"
      PROVE  OpenRuns(by, value)' \subseteq OpenRuns(by, value)
  <2>1. Opening(w)
    BY <1>3 DEF Opening
  <2>2. Opening(w)' => Opening(w) /\ run'[w].id = run[w].id /\ run'[w].chain = run[w].chain
    BY <1>3, <2>1
  <2> QED
    BY <1>3, <2>2, OpenShrinks
<1>4. CASE Reconcile(w)
  <2>1. PICK new : run' = [run EXCEPT ![w] = new]
    BY <1>4 DEF Reconcile
  <2>2. Goto(w, "assess") /\ positions' = positions
    BY <1>4 DEF Reconcile, tables
  <2> QED
    BY <1>2, <1>r, <2>1, <2>2
<1>5. CASE RefuseTicket(w) \/ Report(w) \/ Crash(w)
  <2>1. Goto(w, "idle") /\ positions' = positions /\ run' = [run EXCEPT ![w] = None]
    BY <1>5 DEF RefuseTicket, Report, Crash, tables
  <2> QED
    BY <1>2, <1>r, <2>1
<1>6. CASE InsertFill(w) \/ AuditPosition(w) \/ AuditMark(w) \/ InsertExit(w) \/ AuditExit(w)
  <2>1. PICK step \in {"positionAudit", "markAudit", "exit", "exitAudit", "report"} :
          Goto(w, step) /\ positions' = positions /\ run' = run
    BY <1>6 DEF InsertFill, AuditPosition, AuditMark, InsertExit, AuditExit
  <2> QED
    BY <1>2, <2>1
<1>7. CASE InsertTicket(w) \/ AuditTicket(w)
  <2>1. PICK step \in {"ticketAudit", "fillAudit"} :
          Goto(w, step) /\ positions' = positions /\ run' = run /\ pc[w] \in Steady
    BY <1>7 DEF InsertTicket, AuditTicket
  <2> QED
    BY <1>3, <2>1
<1>8. CASE SimulateFill(w)
  <2>1. pc[w] \in Steady /\ positions' = positions
    BY <1>8 DEF SimulateFill
  <2>2. \/ Goto(w, "idle") /\ run' = [run EXCEPT ![w] = None]
        \/ \E step \in {"position", "report"} : Goto(w, step) /\ run' = run
    BY <1>8 DEF SimulateFill
  <2> QED
    BY <1>2, <1>3, <1>r, <2>1, <2>2
<1>9. CASE PersistCandidate(w)
  <2>1. PICK r, n : r = run[w] /\ n = r.written + 1
    OBVIOUS
  <2>2. pc[w] = "candidate" /\ r \in Judged
    BY <1>1, <1>9, <2>1 DEF PersistCandidate, PriceInv, IInv, Memory
  <2>3. PICK new : new = [r EXCEPT !.written = n]
    OBVIOUS
  <2>4. /\ new.id = r.id /\ new.chain = r.chain /\ new.status = r.status /\ new.scan = r.scan
    BY <2>2, <2>3 DEF Judged
  <2>5. PICK step : /\ Goto(w, step) /\ step \in {"candidate", "ticket", "report"}
                    /\ step = "ticket" => Selected(r) # 0 /\ r.status = "APPROVED"
    <3> DEFINE s == IF n < Len(r.scan) THEN "candidate"
                    ELSE IF Selected(r) # 0 /\ r.status = "APPROVED" THEN "ticket" ELSE "report"
    <3>1. Goto(w, s)
      BY <1>9, <2>1 DEF PersistCandidate
    <3>2. /\ s \in {"candidate", "ticket", "report"}
          /\ s = "ticket" => Selected(r) # 0 /\ r.status = "APPROVED"
      OBVIOUS
    <3> HIDE DEF s
    <3> QED
      BY <3>1, <3>2
  <2>6. run' = [run EXCEPT ![w] = new] /\ run'[w] = new /\ pc'[w] = step /\ positions' = positions
    BY <1>1, <1>9, <2>1, <2>3, <2>5 DEF PersistCandidate, Goto, Shape
  <2>7. Selected(new) = Selected(r)
    BY <2>4 DEF Selected
  <2>8. Opening(w)' => Opening(w) /\ run'[w].id = run[w].id /\ run'[w].chain = run[w].chain
    <3>1. SUFFICES ASSUME Opening(w)' PROVE Opening(w)
      BY <2>1, <2>4, <2>6
    <3>2. step = "ticket" \/ (step = "candidate" /\ new.status = "APPROVED" /\ Selected(new) # 0)
      BY <2>5, <2>6, <3>1 DEF Opening, Selected
    <3>3. r.status = "APPROVED" /\ Selected(r) # 0
      BY <2>4, <2>5, <2>7, <3>2
    <3> QED
      BY <2>1, <2>2, <3>3 DEF Opening
  <2> QED
    BY <1>r, <2>5, <2>6, <2>8, OpenShrinks
<1>10. CASE InsertPosition(w)
  <2>1. PICK r : r = run[w]
    OBVIOUS
  <2>2. PICK row : /\ positions' = positions \cup {row} /\ row.run = r.id
                   /\ row.underlying = r.chain.underlying /\ row.expiration = r.chain.expiration
    <3> DEFINE row == [run |-> r.id, underlying |-> r.chain.underlying,
                       expiration |-> r.chain.expiration, width |-> Spread(r).width,
                       quantity |-> TicketOf(r.id).contracts]
    <3>1. /\ positions' = positions \cup {row} /\ row.run = r.id
          /\ row.underlying = r.chain.underlying /\ row.expiration = r.chain.expiration
      BY <1>10, <2>1 DEF InsertPosition
    <3> HIDE DEF row
    <3> QED
      BY <3>1
  <2>3. pc[w] = "position" /\ Goto(w, "fill") /\ run' = run
    BY <1>10 DEF InsertPosition
  <2>4. Opening(w)
    BY <2>3 DEF Opening
  <2>5. \A p \in positions' \ positions :
          /\ Opening(w) /\ p.run = run[w].id
          /\ p.underlying = run[w].chain.underlying /\ p.expiration = run[w].chain.expiration
    BY <2>1, <2>2, <2>4
  <2>6. Opening(w)' => Opening(w) /\ run'[w].id = run[w].id /\ run'[w].chain = run[w].chain
    BY <2>3, <2>4
  <2> QED
    BY <2>3, <2>5, <2>6, OpenShrinks
<1> QED
  BY <1>4, <1>5, <1>6, <1>7, <1>8, <1>9, <1>10

\* What a caller can price is the risk of the positions that have their fill.
LEMMA BookIsPriced ==
  ASSUME PriceInv, SaleInv, NEW by, NEW value
  PROVE  LossOf({b \in Book : InGroup(b, by, value)})
           = OpenLoss({p \in Priced : InGroup(p, by, value)})
<1> DEFINE S == {p \in Priced : InGroup(p, by, value)}
           row(p) == [id |-> p.run, underlying |-> p.underlying, expiration |-> p.expiration,
                      loss |-> p.quantity * (p.width - PriceOf(p))]
           m == [p \in positions |-> row(p)]
           T == {b \in Book : InGroup(b, by, value)}
           f == [b \in T |-> b.loss]
           g == [p \in S |-> RiskOf(p)]
<1>1. S \subseteq positions /\ S \subseteq Priced /\ IsFiniteSet(S)
  BY FS_Subset DEF Priced, SaleInv, SoldRows
<1>2. ASSUME NEW p \in Priced PROVE row(p).loss = RiskOf(p)
  <2>1. p \in positions
    BY DEF Priced
  <2>2. PICK h \in fills : h.position = p.run /\ h = CHOOSE k \in fills : k.position = p.run
    BY DEF Priced
  <2>3. \E a \in FilledRows(p.run) : a.credit = h.price
    BY <2>2 DEF PriceInv, PriceRows
  <2>4. h.price = CreditOf(p.run)
    BY <2>1, <2>3, CreditOfRun
  <2>5. PriceOf(p) = CreditOf(p.run)
    BY <2>2, <2>4 DEF PriceOf
  <2>6. row(p).loss = p.quantity * (p.width - PriceOf(p))
    OBVIOUS
  <2> QED
    BY <2>5, <2>6 DEF RiskOf
<1>3. \A p : /\ row(p).id = p.run /\ row(p).underlying = p.underlying
             /\ row(p).expiration = p.expiration
  OBVIOUS
<1>4. Book = {row(p) : p \in Priced}
  BY DEF Book
<1>5. \A p \in positions : m[p] = row(p)
  OBVIOUS
<1>6. LossOf(T) = SumFunctionOnSet(f, T) /\ OpenLoss(S) = SumFunctionOnSet(g, S)
  BY DEF LossOf, OpenLoss, SumFunction
<1>7. \A b \in T : f[b] = b.loss
  OBVIOUS
<1>8. \A p \in S : g[p] = RiskOf(p)
  OBVIOUS
<1> HIDE DEF row, m, f, g
<1>9. T = {row(p) : p \in S}
  <2>1. \A p : InGroup(row(p), by, value) <=> InGroup(p, by, value)
    BY <1>3 DEF InGroup
  <2> QED
    BY <1>4, <2>1
<1> HIDE DEF T, S
<1>10. T = {m[p] : p \in S}
  BY <1>1, <1>5, <1>9
<1>11. \A p, q \in S : m[p] = m[q] => p = q
  <2>1. ASSUME NEW p \in S, NEW q \in S, m[p] = m[q] PROVE p = q
    <3>1. p \in positions /\ q \in positions /\ row(p) = row(q)
      BY <1>1, <1>5, <2>1
    <3>2. p.run = q.run
      BY <1>3, <3>1
    <3> QED
      BY <3>1, <3>2 DEF SaleInv, SoldRows
  <2> QED
    BY <2>1
<1>12. \A p \in S : g[p] \in Int /\ f[m[p]] = g[p]
  <2>1. ASSUME NEW p \in S PROVE g[p] \in Int /\ f[m[p]] = g[p]
    <3>1. p \in positions /\ p \in Priced /\ m[p] = row(p) /\ row(p) \in T
      BY <1>1, <1>5, <1>9
    <3>2. f[m[p]] = RiskOf(p)
      BY <1>2, <1>7, <3>1
    <3>3. RiskOf(p) \in Int
      BY <3>1, RiskCounts
    <3> QED
      BY <1>8, <3>2, <3>3
  <2> QED
    BY <2>1
<1>13. SumFunctionOnSet(f, T) = SumFunctionOnSet(g, S)
  BY <1>1, <1>10, <1>11, <1>12, SumMoved
<1>14. LossOf(T) = OpenLoss(S)
  BY <1>6, <1>13
<1> QED
  BY <1>14 DEF T, S

\* Runs that each have a worker of their own are no more than the workers.
LEMMA RunsHaveWorkers ==
  ASSUME NEW torn, NEW owner \in Injection(torn, Workers), NEW idOf, DOMAIN idOf \subseteq Workers,
         \A t \in torn : owner[t] \notin DOMAIN idOf,
         NEW ids, \A id \in ids : \/ \E t \in torn : t.run = id
                                  \/ \E w \in DOMAIN idOf : idOf[w] = id
  PROVE  Cardinality(ids) <= Cardinality(Workers)
<1> DEFINE opening == DOMAIN idOf
           runs == {t.run : t \in torn}
           byTorn(id) == CHOOSE t \in torn : t.run = id
           byWorker(id) == CHOOSE w \in opening : idOf[w] = id
           h == [id \in ids |-> IF id \in runs THEN owner[byTorn(id)] ELSE byWorker(id)]
<1>1. \A id \in runs : byTorn(id) \in torn /\ byTorn(id).run = id
  OBVIOUS
<1>2. \A id \in ids \ runs : byWorker(id) \in opening /\ idOf[byWorker(id)] = id
  OBVIOUS
<1>3. \A id \in ids : h[id] = IF id \in runs THEN owner[byTorn(id)] ELSE byWorker(id)
  OBVIOUS
<1>4. /\ \A t \in torn : owner[t] \in Workers
      /\ \A s, t \in torn : owner[s] = owner[t] => s = t
  BY DEF Injection, IsInjective
<1>5. h \in [ids -> Workers]
  BY <1>1, <1>2, <1>4
<1> HIDE DEF h, byTorn, byWorker
<1>6. ASSUME NEW x \in ids, NEW y \in ids, h[x] = h[y] PROVE x = y
  <2>1. CASE x \in runs /\ y \in runs
    BY <1>1, <1>3, <1>4, <1>6, <2>1
  <2>2. CASE x \notin runs /\ y \notin runs
    BY <1>2, <1>3, <1>6, <2>2
  <2>3. CASE x \in runs /\ y \notin runs
    <3>1. byTorn(x) \in torn /\ h[x] = owner[byTorn(x)]
      BY <1>1, <1>3, <2>3
    <3>2. h[y] \in opening
      BY <1>2, <1>3, <2>3
    <3> QED
      BY <1>6, <3>1, <3>2
  <2>4. CASE x \notin runs /\ y \in runs
    <3>1. byTorn(y) \in torn /\ h[y] = owner[byTorn(y)]
      BY <1>1, <1>3, <2>4
    <3>2. h[x] \in opening
      BY <1>2, <1>3, <2>4
    <3> QED
      BY <1>6, <3>1, <3>2
  <2> QED
    BY <2>1, <2>2, <2>3, <2>4
<1>7. h \in Injection(ids, Workers)
  BY <1>5, <1>6 DEF Injection, IsInjective
<1> QED
  BY <1>7, FS_Injection, DeskAssumption

\* Whoever is approved saw the book within the limit, and what it did not see has workers
\* of its own: the torn positions their owners, the rest those who are opening it.
LEMMA AssessKeepsLimit ==
  ASSUME LimitInv, SaleInv', TornHaveWorkers', NEW w \in Workers, Assess(w),
         NEW by \in Ways, NEW value
  PROVE  Limited(by, value)'
<1>1. PICK new \in Judged :
        /\ run' = [run EXCEPT ![w] = new]
        /\ new.status = "APPROVED" =>
             \E d : d.equity \in {0, Equity} /\ PortfolioRiskPasses(Book, TradeOf(new), d)
        /\ DOMAIN new.scan = DOMAIN new.chain.spreads
  BY AssessFinds DEF LimitInv
<1>2. pc' = [pc EXCEPT ![w] = "candidate"] /\ UNCHANGED <<positions, fills, audit>>
  BY AssessFinds DEF Assess, tables, LimitInv
<1>3. /\ pc'[w] = "candidate" /\ run'[w] = new
      /\ \A v \in Workers : v # w => pc'[v] = pc[v] /\ run'[v] = run[v]
  BY <1>1, <1>2 DEF LimitInv, IInv, Shape
<1>4. Opening(w)' <=> new.status = "APPROVED" /\ Selected(new) # 0
  BY <1>3 DEF Opening, Selected
<1>5. CASE ~(Opening(w)' /\ InGroup(new.chain, by, value))
  <2>1. ASSUME NEW v \in Workers, Opening(v)', InGroup(run'[v].chain, by, value)
        PROVE  run'[v].id \in OpenRuns(by, value)
    <3>1. v # w
      BY <1>3, <1>5, <2>1
    <3>2. run'[v] = run[v] /\ pc'[v] = pc[v]
      BY <1>3, <3>1
    <3>3. Selected(run[v])' = Selected(run[v])
      BY <3>2 DEF Selected
    <3>4. Opening(v)
      BY <2>1, <3>2, <3>3 DEF Opening
    <3> QED
      BY <2>1, <3>2, <3>4 DEF OpenRuns, OpeningIn
  <2>2. RunsOf(Group(by, value))' = RunsOf(Group(by, value))
    BY <1>2 DEF RunsOf, Group, InGroup
  <2>3. OpenRuns(by, value)' \subseteq OpenRuns(by, value)
    BY <2>1, <2>2 DEF OpenRuns, OpeningIn, InGroup
  <2> QED
    BY <2>3, LimitedStays DEF Next
<1>6. CASE Opening(w)' /\ InGroup(new.chain, by, value)
  <2> DEFINE book == {p \in Priced : InGroup(p, by, value)}
             ids == OpenRuns(by, value)' \ RunsOf(book)
             trade == TradeOf(new)
             pct == PctOf(by)
  <2>1. PICK d : d.equity \in {0, Equity} /\ PortfolioRiskPasses(Book, trade, d)
    BY <1>1, <1>4, <1>6
  <2>2. trade.loss \in ApprovedLosses
    <3>1. Selected(new) \in 1 .. Len(new.scan) /\ new.scan \in Seq(ScanStatuses)
      BY <1>4, <1>6, SelectedIsScanned DEF Judged
    <3>2. Selected(new) \in DOMAIN new.chain.spreads
      BY <1>1, <3>1, LenProperties
    <3>3. PICK s : s = new.chain.spreads[Selected(new)]
      OBVIOUS
    <3>4. s \in Spreads /\ new.size \in Sizes
      BY <3>2, <3>3 DEF Spreads, Range, Judged
    <3>5. trade.loss = new.size * (s.width - s.credit)
      BY <1>4, <1>6, <3>3 DEF TradeOf, MaxLossPerSpread
    <3> HIDE DEF trade
    <3> QED
      BY <3>4, <3>5 DEF ApprovedLosses
  <2>3. PICK seen : seen = LossOf({b \in Book : InGroup(b, by, value)})
    OBVIOUS
  <2>4. trade.underlying = new.chain.underlying /\ trade.expiration = new.chain.expiration
    BY DEF TradeOf
  <2>5. d.equity = Equity /\ ~Exceeds(seen + trade.loss, Equity, pct)
    <3> HIDE DEF trade
    <3>1. d.equity = Equity
      BY <2>1, DeskAssumption DEF PortfolioRiskPasses
    <3>2. CASE by = "all"
      <4>1. {b \in Book : InGroup(b, by, value)} = Book
        BY <3>2 DEF InGroup
      <4> QED
        BY <2>1, <2>3, <3>1, <3>2, <4>1 DEF PortfolioRiskPasses, PctOf
    <3>3. CASE by = "expiration"
      <4>1. trade.expiration = value
        BY <1>6, <2>4, <3>3 DEF InGroup
      <4>2. {b \in Book : InGroup(b, by, value)} = {b \in Book : b.expiration = trade.expiration}
        BY <3>3, <4>1 DEF InGroup
      <4>3. ~Exceeds(LossOf({b \in Book : b.expiration = trade.expiration}) + trade.loss,
                     d.equity, ExpirationPct)
        BY <2>1 DEF PortfolioRiskPasses
      <4> QED
        BY <2>3, <3>1, <3>3, <4>2, <4>3 DEF PctOf
    <3>4. CASE by = "underlying"
      <4>1. trade.underlying = value
        BY <1>6, <2>4, <3>4 DEF InGroup
      <4>2. {b \in Book : InGroup(b, by, value)} = {b \in Book : b.underlying = trade.underlying}
        BY <3>4, <4>1 DEF InGroup
      <4>3. ~Exceeds(LossOf({b \in Book : b.underlying = trade.underlying}) + trade.loss,
                     d.equity, ClusterPct)
        BY <2>1 DEF PortfolioRiskPasses
      <4> QED
        BY <2>3, <3>1, <3>4, <4>2, <4>3 DEF PctOf
    <3> QED
      BY <3>1, <3>2, <3>3, <3>4 DEF Ways
  <2>6. seen = OpenLoss(book) /\ OpenLoss(book) \in Nat
    <3>1. seen = OpenLoss(book)
      BY <2>3, BookIsPriced DEF LimitInv
    <3>2. book \in SUBSET positions
      BY DEF Priced
    <3> HIDE DEF book
    <3>3. OpenLoss(book) \in Nat
      <4> DEFINE f == [p \in book |-> RiskOf(p)]
      <4>1. \A p \in book : f[p] = RiskOf(p)
        OBVIOUS
      <4> HIDE DEF f
      <4> QED
        BY <3>2, <4>1, LossAdds DEF LimitInv
    <3> QED
      BY <3>1, <3>3
  <2>7. 100 * (OpenLoss(book) + trade.loss) <= LimitAmount(Equity, pct)
    <3>1. trade.loss \in Int
      <4>1. \A s \in Spreads : s.width \in Nat /\ s.credit \in Int
        BY SpreadAssumption DEF Spreads, Range
      <4>2. \A n \in Sizes : n \in Int
        BY DeskAssumption
      <4> HIDE DEF trade
      <4> QED
        BY <2>2, <4>1, <4>2 DEF ApprovedLosses
    <3>2. LimitAmount(Equity, pct) \in Int
      <4>1. pct \in Int
        BY LimitsAssumption DEF PctOf
      <4> HIDE DEF pct
      <4> QED
        BY <4>1, DeskAssumption DEF LimitAmount
    <3> HIDE DEF trade, pct, book
    <3> QED
      BY <2>5, <2>6, <3>1, <3>2 DEF Exceeds
  <2>8. Cardinality(ids) <= Cardinality(Workers)
    <3>1. PICK owner \in Injection(Torn', Workers) : \A t \in Torn' : Spent(owner[t], t)'
      BY DEF TornHaveWorkers
    <3> DEFINE opening == {v \in Workers : Opening(v)'}
               idOf == [v \in opening |-> run'[v].id]
    <3>2. \A t \in Torn' : owner[t] \in Workers
      BY <3>1 DEF Injection
    <3>3. \A t \in Torn' : owner[t] \notin opening
      BY <3>1, <3>2 DEF Spent, Opening
    <3>4. ASSUME NEW id \in ids
          PROVE  (\E t \in Torn' : t.run = id) \/ (\E v \in opening : idOf[v] = id)
      <4>1. CASE \E p \in positions : InGroup(p, by, value) /\ p.run = id
        <5>1. PICK p \in positions : InGroup(p, by, value) /\ p.run = id
          BY <4>1
        <5>2. p \notin Priced
          BY <3>4, <5>1 DEF RunsOf
        <5>3. p \in Torn'
          BY <1>2, <5>1, <5>2 DEF Torn, Priced
        <5> QED
          BY <5>1, <5>3
      <4>2. CASE \E v \in Workers : Opening(v)' /\ run'[v].id = id
        BY <4>2
      <4>3. id \in OpenRuns(by, value)'
        BY <3>4
      <4> QED
        BY <1>2, <4>1, <4>2, <4>3 DEF OpenRuns, OpeningIn, RunsOf, Group, InGroup
    <3> HIDE DEF opening, idOf, ids
    <3>5. DOMAIN idOf = opening /\ opening \subseteq Workers
      BY DEF opening, idOf
    <3>6. PICK torn, f, left : torn = Torn' /\ f = idOf /\ left = ids
      OBVIOUS
    <3>7. /\ owner \in Injection(torn, Workers) /\ DOMAIN f \subseteq Workers
          /\ \A t \in torn : owner[t] \notin DOMAIN f
      BY <3>1, <3>3, <3>5, <3>6
    <3>8. \A id \in left : (\E t \in torn : t.run = id) \/ (\E v \in DOMAIN f : f[v] = id)
      BY <3>4, <3>5, <3>6
    <3>9. Cardinality(left) <= Cardinality(Workers)
      BY <3>7, <3>8, RunsHaveWorkers
    <3> QED
      BY <3>6, <3>9
  <2>9. OpenLoss(book)' = OpenLoss(book) /\ RunsOf(book)' = RunsOf(book) /\ book' = book
    <3>1. book' = book
      BY <1>2 DEF Priced, InGroup
    <3>2. RunsOf(book)' = RunsOf(book)
      BY <3>1 DEF RunsOf
    <3>3. \A p : RiskOf(p)' = RiskOf(p)
      BY <1>2 DEF RiskOf, CreditOf
    <3>4. OpenLoss(book)' = OpenLoss(book)
      BY <3>1, <3>3 DEF OpenLoss
    <3> QED
      BY <3>1, <3>2, <3>4
  <2>10. book \in SUBSET Group(by, value)'
    BY <1>2 DEF Priced, Group, InGroup
  <2>11. PICK b : b = book
    OBVIOUS
  <2>12. /\ b \in SUBSET Group(by, value)'
         /\ 100 * (OpenLoss(b)' + trade.loss) <= LimitAmount(Equity, PctOf(by))
         /\ Cardinality(OpenRuns(by, value)' \ RunsOf(b)') <= Cardinality(Workers)
    BY <2>7, <2>8, <2>9, <2>10, <2>11
  <2> HIDE DEF trade, book, ids
  <2> QED
    BY <2>2, <2>12 DEF Limited
<1> QED
  BY <1>5, <1>6

\* The inductive invariant.
LEMMA LimitInductive == LimitInv /\ [Next]_vars => LimitInv'
<1> SUFFICES ASSUME LimitInv, [Next]_vars PROVE LimitInv'
  OBVIOUS
<1>1. IInv' /\ TornHaveWorkers' /\ PriceInv' /\ SaleInv'
  BY IInvInductive, TornInductive, PricesInductive, SalesInductive DEF LimitInv
<1>2. ASSUME NEW by \in Ways, NEW value PROVE Limited(by, value)'
  <2>1. CASE UNCHANGED vars
    <3>1. UNCHANGED <<pc, run, positions>>
      BY <2>1 DEF vars
    <3>2. OpenRuns(by, value)' \subseteq OpenRuns(by, value)
      BY <3>1 DEF OpenRuns, OpeningIn, Opening, RunsOf, Group, InGroup, Selected
    <3> QED
      BY <3>2, LimitedStays
  <2>2. CASE \E w \in Workers : Assess(w)
    BY <1>1, <2>2, AssessKeepsLimit
  <2>3. CASE Next /\ ~\E w \in Workers : Assess(w)
    <3>1. OpenRuns(by, value)' \subseteq OpenRuns(by, value)
      BY <2>3, OthersOpenNothing DEF Next, LimitInv
    <3> QED
      BY <3>1, LimitedStays
  <2> QED
    BY <2>1, <2>2, <2>3
<1> QED
  BY <1>1, <1>2 DEF LimitInv

\* At first nothing is open.
LEMMA InitLimit == Init => LimitInv
<1> SUFFICES ASSUME Init PROVE LimitInv
  OBVIOUS
<1>1. IInv /\ TornHaveWorkers /\ PriceInv /\ SaleInv
  BY InitHolds, InitOwners, InitPrices, InitSales
<1>2. ASSUME NEW by, NEW value PROVE OpenRuns(by, value) = {}
  <2>1. RunsOf(Group(by, value)) = {}
    BY DEF Init, RunsOf, Group
  <2>2. OpeningIn(by, value) = {}
    BY DEF Init, OpeningIn, Opening
  <2> QED
    BY <2>1, <2>2 DEF OpenRuns
<1> QED
  BY <1>1, <1>2 DEF LimitInv, Limited

\* The losses a trade can have.
LEMMA LossesFinite ==
  /\ IsFiniteSet(FilledLosses) /\ FilledLosses \subseteq Int
  /\ IsFiniteSet(ApprovedLosses) /\ ApprovedLosses \subseteq Int
<1> DEFINE chainSpreads == [c \in Chains |-> Range(c.spreads)]
<1>1. IsFiniteSet(Spreads)
  <2>1. ASSUME NEW c \in Chains PROVE IsFiniteSet(Range(c.spreads))
    <3>1. PICK q : q = c.spreads
      OBVIOUS
    <3>2. q \in Seq(Range(q))
      BY <3>1, DeskAssumption
    <3>3. DOMAIN q = 1 .. Len(q) /\ Len(q) \in Nat
      BY <3>2, LenProperties
    <3>4. IsFiniteSet(DOMAIN q)
      BY <3>3, FS_Interval
    <3>5. IsFiniteSet({q[i] : i \in DOMAIN q})
      BY <3>4, ImageFinite
    <3> QED
      BY <3>1, <3>5 DEF Range
  <2>2. IsFiniteSet({chainSpreads[c] : c \in Chains})
    <3> HIDE DEF chainSpreads
    <3> QED
      BY ImageFinite, MarketAssumption
  <2>3. \A T \in {chainSpreads[c] : c \in Chains} : IsFiniteSet(T)
    BY <2>1
  <2>4. IsFiniteSet(UNION {chainSpreads[c] : c \in Chains})
    <3> HIDE DEF chainSpreads
    <3> QED
      BY <2>2, <2>3, FS_UNION
  <2>5. UNION {chainSpreads[c] : c \in Chains} = Spreads
    BY DEF Spreads
  <2> QED
    BY <2>4, <2>5
<1>2. \A s \in Spreads : s.width \in Int /\ s.credit \in Int
  BY SpreadAssumption DEF Spreads, Range
<1>3. (\A n \in Sizes : n \in Int) /\ (\A worst \in WorstCredits : worst \in Int)
  BY DeskAssumption, SpreadAssumption
<1> HIDE DEF chainSpreads
<1>4. IsFiniteSet(ApprovedLosses)
  <2> DEFINE S == Sizes \X Spreads
             f == [e \in S |-> e[1] * (e[2].width - e[2].credit)]
  <2>1. IsFiniteSet(S)
    BY <1>1, FS_Product, MarketAssumption
  <2>2. {f[e] : e \in S} = ApprovedLosses
    <3>1. ASSUME NEW e \in S PROVE f[e] \in ApprovedLosses
      BY DEF ApprovedLosses
    <3>2. ASSUME NEW n \in Sizes, NEW s \in Spreads
          PROVE  n * (s.width - s.credit) \in {f[e] : e \in S}
      <4>1. <<n, s>> \in S /\ f[<<n, s>>] = n * (s.width - s.credit)
        OBVIOUS
      <4> QED
        BY <4>1
    <3> HIDE DEF S, f
    <3> QED
      BY <3>1, <3>2 DEF ApprovedLosses
  <2> HIDE DEF S, f
  <2> QED
    BY <2>1, <2>2, ImageFinite
<1>5. IsFiniteSet(FilledLosses)
  <2> DEFINE S == (Sizes \X WorstCredits) \X Spreads
             f == [e \in S |-> e[1][1] * (e[2].width - e[1][2])]
  <2>1. IsFiniteSet(S)
    BY <1>1, FS_Product, MarketAssumption
  <2>2. {f[e] : e \in S} = FilledLosses
    <3>1. ASSUME NEW e \in S PROVE f[e] \in FilledLosses
      BY DEF FilledLosses
    <3>2. ASSUME NEW n \in Sizes, NEW worst \in WorstCredits, NEW s \in Spreads
          PROVE  n * (s.width - worst) \in {f[e] : e \in S}
      <4>1. <<<<n, worst>>, s>> \in S /\ f[<<<<n, worst>>, s>>] = n * (s.width - worst)
        OBVIOUS
      <4> QED
        BY <4>1
    <3> HIDE DEF S, f
    <3> QED
      BY <3>1, <3>2 DEF FilledLosses
  <2> HIDE DEF S, f
  <2> QED
    BY <2>1, <2>2, ImageFinite
<1>6. ApprovedLosses \subseteq Int
  BY <1>2, <1>3 DEF ApprovedLosses
<1>7. FilledLosses \subseteq Int
  BY <1>2, <1>3 DEF FilledLosses
<1> QED
  BY <1>4, <1>5, <1>6, <1>7

\* No position can lose more than its size allows at the worst credit asked for.
LEMMA RiskIsFilledLoss ==
  ASSUME PriceInv, SaleInv, NEW p \in positions
  PROVE  /\ FilledLosses # {} /\ Max(FilledLosses) \in Int
         /\ RiskOf(p) <= Max(FilledLosses)
<1>1. PICK a \in FilledRows(p.run) : a.credit = CreditOf(p.run)
  BY CreditOfRun
<1>2. PICK s \in Spreads, worst \in WorstCredits :
        s.width = p.width /\ worst <= a.credit /\ p.quantity \in Sizes
  BY <1>1 DEF SaleInv, SoldRows, Sold
<1>3. p.quantity * (p.width - worst) \in FilledLosses
  BY <1>2 DEF FilledLosses
<1>4. p.quantity * (p.width - worst) <= Max(FilledLosses) /\ Max(FilledLosses) \in Int
  BY <1>3, LossesFinite, LargestOf
<1>5. RiskOf(p) <= p.quantity * (p.width - worst)
  <2>1. PICK n, m, k : n = p.quantity /\ m = p.width - CreditOf(p.run) /\ k = p.width - worst
    OBVIOUS
  <2>2. n \in Nat /\ p.width \in Nat /\ CreditOf(p.run) \in Int /\ worst \in Int
    BY <2>1, RiskCounts, SpreadAssumption
  <2>3. m \in Int /\ k \in Int /\ m <= k
    BY <1>1, <1>2, <2>1, <2>2
  <2>4. n * m <= n * k
    BY <2>2, <2>3
  <2> QED
    BY <2>1, <2>4 DEF RiskOf
<1>6. p.quantity * (p.width - worst) \in Int /\ RiskOf(p) \in Int
  <2>1. p.quantity * (p.width - worst) \in Int
    BY <1>3, LossesFinite
  <2>2. RiskOf(p) \in Int
    BY RiskCounts
  <2> QED
    BY <2>1, <2>2
<1> QED
  BY <1>3, <1>4, <1>5, <1>6

\* What was not seen is one run of each worker, at its worst credit.
LEMMA UnseenIsSlack ==
  ASSUME LimitInv, NEW by \in Ways, NEW value, Group(by, value) # {}
  PROVE  100 * (OpenLoss(Group(by, value)) - Slack) <= LimitAmount(Equity, PctOf(by))
<1> DEFINE S == Group(by, value)
<1>1. S \subseteq positions /\ IsFiniteSet(S) /\ S # {}
  BY OpenFinite DEF Group, LimitInv
<1>2. RunsOf(S) \subseteq OpenRuns(by, value) /\ OpenRuns(by, value) # {}
  BY DEF OpenRuns, RunsOf
<1>3. PICK book \in SUBSET S, loss \in ApprovedLosses :
        /\ 100 * (OpenLoss(book) + loss) <= LimitAmount(Equity, PctOf(by))
        /\ Cardinality(OpenRuns(by, value) \ RunsOf(book)) <= Cardinality(Workers)
  BY <1>2 DEF LimitInv, Limited
<1> HIDE DEF S
<1>4. PICK rest, most, least, n, k :
        /\ rest = S \ book /\ most = Max(FilledLosses) /\ least = Min(ApprovedLosses)
        /\ n = Cardinality(Workers) /\ k = Cardinality(rest)
  OBVIOUS
<1>5. IsFiniteSet(book) /\ IsFiniteSet(rest) /\ k \in Nat /\ n \in Nat
  BY <1>1, <1>4, FS_Subset, FS_CardinalityType, DeskAssumption
<1>6. k <= n
  <2> DEFINE left == OpenRuns(by, value) \ RunsOf(book)
             ids == [p \in rest |-> p.run]
  <2>1. ASSUME NEW p \in rest PROVE p.run \in left
    <3>1. p \in S /\ p \in positions /\ p \notin book
      BY <1>1, <1>4
    <3>2. p.run \notin RunsOf(book)
      BY <1>1, <3>1 DEF RunsOf, LimitInv, SaleInv, SoldRows
    <3> QED
      BY <1>2, <3>1, <3>2 DEF RunsOf
  <2>2. \A p, q \in rest : p.run = q.run => p = q
    BY <1>1, <1>4 DEF LimitInv, SaleInv, SoldRows
  <2>3. ids \in Injection(rest, left)
    BY <2>1, <2>2 DEF Injection, IsInjective
  <2>4. IsFiniteSet(left)
    <3>1. IsFiniteSet(OpenRuns(by, value))
      BY OpenFinite DEF LimitInv
    <3> QED
      BY <3>1, FS_Subset
  <2>5. Cardinality(left) <= n
    BY <1>3, <1>4
  <2> HIDE DEF left, ids
  <2>6. k <= Cardinality(left) /\ Cardinality(left) \in Nat
    BY <1>4, <2>3, <2>4, FS_Injection, FS_CardinalityType
  <2> QED
    BY <1>5, <2>5, <2>6
<1>7. most \in Int /\ 0 <= most /\ \A p \in positions : RiskOf(p) \in Nat /\ RiskOf(p) <= most
  <2>1. \A p \in positions : RiskOf(p) \in Nat /\ RiskOf(p) <= most /\ most \in Int
    BY <1>4, RiskIsFilledLoss, RiskCounts DEF LimitInv
  <2>2. PICK p \in positions : TRUE
    BY <1>1
  <2>3. RiskOf(p) \in Nat /\ RiskOf(p) <= most /\ most \in Int
    BY <2>1
  <2>4. 0 <= most
    BY <2>3
  <2> QED
    BY <2>1, <2>3, <2>4
<1>8. least \in Int /\ loss \in Int /\ least <= loss
  BY <1>3, <1>4, LossesFinite, SmallestOf
<1>9. OpenLoss(S) = OpenLoss(book) + OpenLoss(rest) /\ OpenLoss(book) \in Int
      /\ OpenLoss(rest) \in Int /\ OpenLoss(rest) <= most * k
  <2>1. PICK f : f = [p \in S |-> RiskOf(p)]
    OBVIOUS
  <2>2. \A p \in S : f[p] = RiskOf(p) /\ f[p] \in Nat /\ f[p] <= most
    BY <1>1, <1>7, <2>1
  <2>3. S = book \cup rest /\ book \cap rest = {} /\ rest \subseteq S
    BY <1>4
  <2>4. /\ OpenLoss(S) = SumFunctionOnSet(f, S) /\ OpenLoss(book) = SumFunctionOnSet(f, book)
        /\ OpenLoss(rest) = SumFunctionOnSet(f, rest)
    BY <1>1, <2>2, <2>3, LossAdds DEF LimitInv
  <2>5. SumFunctionOnSet(f, S) = SumFunctionOnSet(f, book) + SumFunctionOnSet(f, rest)
    <3>1. \A p \in book \cup rest : f[p] \in Int
      BY <2>2, <2>3
    <3> QED
      BY <1>5, <2>3, <3>1, SumSplit
  <2>6. SumFunctionOnSet(f, rest) <= most * k
    <3>1. \A p \in rest : f[p] \in Int /\ f[p] <= most
      BY <2>2, <2>3
    <3> QED
      BY <1>4, <1>5, <1>7, <3>1, SumAtMost
  <2>7. SumFunctionOnSet(f, book) \in Int /\ SumFunctionOnSet(f, rest) \in Int
    <3>1. (\A p \in book : f[p] \in Int) /\ (\A p \in rest : f[p] \in Int)
      BY <2>2, <2>3
    <3> QED
      BY <1>5, <3>1, SumInt
  <2> QED
    BY <2>4, <2>5, <2>6, <2>7
<1>10. LimitAmount(Equity, PctOf(by)) \in Int
  <2>1. PctOf(by) \in Int
    BY LimitsAssumption DEF PctOf
  <2> QED
    BY <2>1, DeskAssumption DEF LimitAmount
<1>11. PICK whole, seen, unseen, all, limit :
         /\ whole = OpenLoss(S) /\ seen = OpenLoss(book) /\ unseen = OpenLoss(rest)
         /\ all = most * n /\ limit = LimitAmount(Equity, PctOf(by))
  OBVIOUS
<1>12. all \in Int /\ unseen <= all /\ (n - 1) * most = all - most
  <2>1. most * k <= most * n /\ most * k \in Int /\ most * n \in Int
    BY <1>5, <1>6, <1>7
  <2>2. (n - 1) * most = most * n - most
    BY <1>5, <1>7
  <2> QED
    BY <1>9, <1>11, <2>1, <2>2
<1>13. Slack = most - least + (all - most)
  BY <1>4, <1>12 DEF Slack
<1>14. whole = seen + unseen /\ 100 * (seen + loss) <= limit
  BY <1>3, <1>9, <1>11
<1>15. seen \in Int /\ unseen \in Int /\ limit \in Int
  BY <1>9, <1>10, <1>11
<1>16. 100 * (whole - (most - least + (all - most))) <= limit
  BY <1>7, <1>8, <1>12, <1>14, <1>15
<1> QED
  BY <1>11, <1>13, <1>16 DEF S

\* Workers check the limits against a book that lacks the trades of the others, at the
\* target credit: what is open at any time stays within each limit but for the slippage of
\* one fill and one trade of every other worker.
THEOREM LimitsHold == Spec => []BookWithinLimits
<1>1. LimitInv => BookWithinLimits
  <2> SUFFICES ASSUME LimitInv PROVE BookWithinLimits
    OBVIOUS
  <2>1. Group("all", None) = positions
    BY DEF Group, InGroup
  <2>2. \A value : /\ Group("expiration", value) = {p \in positions : p.expiration = value}
                   /\ Group("underlying", value) = {p \in positions : p.underlying = value}
    BY DEF Group, InGroup
  <2>3. PctOf("all") = HeatPct /\ PctOf("expiration") = ExpirationPct /\ PctOf("underlying") = ClusterPct
    BY DEF PctOf
  <2>4. ASSUME NEW by \in Ways, NEW value, NEW S, S = Group(by, value), S # {}
        PROVE  100 * (OpenLoss(S) - Slack) <= LimitAmount(Equity, PctOf(by))
    BY <2>4, UnseenIsSlack
  <2>5. positions # {} => 100 * (OpenLoss(positions) - Slack) <= LimitAmount(Equity, HeatPct)
    BY <2>1, <2>3, <2>4 DEF Ways
  <2>6. ASSUME NEW c \in Chains, NEW S, S = {p \in positions : p.expiration = c.expiration}, S # {}
        PROVE  100 * (OpenLoss(S) - Slack) <= LimitAmount(Equity, ExpirationPct)
    BY <2>2, <2>3, <2>4, <2>6 DEF Ways
  <2>7. ASSUME NEW c \in Chains, NEW S, S = {p \in positions : p.underlying = c.underlying}, S # {}
        PROVE  100 * (OpenLoss(S) - Slack) <= LimitAmount(Equity, ClusterPct)
    BY <2>2, <2>3, <2>4, <2>7 DEF Ways
  <2> QED
    BY <2>5, <2>6, <2>7 DEF BookWithinLimits
<1> QED
  BY <1>1, InitLimit, LimitInductive, PTL DEF Spec
=============================================================================
