----------------------------- MODULE PaperDesk -----------------------------
(***************************************************************************)
(* The daily paper-trading run, paper/workflow.py, with the reconciliation *)
(* and the risk check its caller makes beforehand.                         *)
(*                                                                         *)
(* A worker is a process that runs run_daily_paper_workflow.  Every insert *)
(* is a commit of its own, so each action is one insert with the decisions *)
(* up to the next one.  A crash, or one of the exceptions of the workflow, *)
(* leaves behind what was committed; the next run knows only the tables.   *)
(*                                                                         *)
(* Rows are kept by the number of the run that inserted them: a run        *)
(* inserts at most one ticket, position, fill and exit.  Nothing in the    *)
(* program closes a position or changes a ticket.                          *)
(***************************************************************************)
EXTENDS TradeEntry, ExitEngine, Sequences

CONSTANTS
  Workers,      \* processes that may run the workflow at the same time
  Equity,       \* account equity of every run
  Chains,       \* option chains: [underlying, expiration, spreads]
  Sizes,        \* contracts a caller may ask for
  WorstCredits, \* worst acceptable credits a caller may give
  Naturals,     \* natural credits the entry market may show
  Days,         \* evidence of the day apart from the reconciliation
  ExitMarkets,  \* what the exit market may show
  \* bounds of the model
  MaxRuns,      \* runs that may be prepared
  MaxCrashes    \* runs that may be killed

ASSUME DeskAssumption ==
  /\ IsFiniteSet(Workers) /\ Equity \in Nat \ {0}
  /\ \A chain \in Chains :
       chain.spreads # <<>> /\ chain.spreads \in Seq(Range(chain.spreads))
  /\ \A day \in Days : "verified" \in DOMAIN day
  /\ Sizes \subseteq Nat \ {0} /\ MaxRuns \in Nat /\ MaxCrashes \in Nat

\* Prices are whole numbers.
ASSUME SpreadAssumption ==
  /\ \A chain \in Chains : \A n \in DOMAIN chain.spreads :
       chain.spreads[n].width \in Nat /\ chain.spreads[n].credit \in Int
  /\ Naturals \subseteq Int /\ WorstCredits \subseteq Int

\* There is a finite market, and the caller judges the book by the equity he trades
\* with, or has none to judge it by.
ASSUME MarketAssumption ==
  /\ IsFiniteSet(Chains) /\ IsFiniteSet(Sizes) /\ IsFiniteSet(WorstCredits)
  /\ \A day \in Days : "equity" \in DOMAIN day /\ day.equity \in {0, Equity}

ScanStatuses ==
  {"WATCHLIST", "BLOCKED_BY_RISK", "BLOCKED_BY_REGIME", "BLOCKED_BY_DATA",
   "BLOCKED_BY_LIQUIDITY", "REJECTED"}
TradeStatuses == {"NO_TRADE", "WATCHLIST", "REJECTED", "APPROVED"}

\* What a run knows after its reconciliation, and once it was judged: written is the
\* number of its candidates inserted so far.
Reconciled == [id : Nat, open : SUBSET Nat]
Judged ==
  [id : Nat, chain : Chains, size : Sizes, regime : States, kill : States \cup {None},
   scan : Seq(ScanStatuses), status : TradeStatuses, written : Nat]

ASSUME RunAssumption == None \notin Reconciled \cup Judged

VARIABLES
  pc,          \* what each worker does next
  run,         \* the request and the findings of each worker's run, or None
  candidates,  \* trade_candidates
  tickets,     \* trade_tickets
  positions,   \* positions, all OPEN
  fills,       \* fills
  exits,       \* exits
  audit,       \* audit_log: the rows of the workflow
  started,     \* number of runs so far
  crashes      \* number of kills so far

tables == <<candidates, tickets, positions, fills, exits, audit>>
vars == <<pc, run, candidates, tickets, positions, fills, exits, audit, started, crashes>>

Steps ==
  {"idle", "assess", "candidate", "ticket", "ticketAudit", "fillAudit", "position",
   "fill", "positionAudit", "markAudit", "exit", "exitAudit", "report"}
Kinds == {"TICKET_CREATED", "FILLED", "NOT_FILLED", "POSITION_RECORDED", "MARK_UPDATED", "EXIT"}

Goto(w, step) == pc' = [pc EXCEPT ![w] = step]
Log(w, kind, credit) == audit' = audit \cup {[run |-> run[w].id, kind |-> kind, credit |-> credit]}

Init ==
  /\ pc = [w \in Workers |-> "idle"]
  /\ run = [w \in Workers |-> None]
  /\ candidates = {} /\ tickets = {} /\ positions = {} /\ fills = {} /\ exits = {}
  /\ audit = {}
  /\ started = 0 /\ crashes = 0

-----------------------------------------------------------------------------
(* Before the run: the caller *)

\* [fault] A position counts as verified whether it has a fill or not.
Unverified_Never(open) == {}

\* reconcile_open_positions, second read: positions of the first without fill.
Unverified(open) == {id \in open : ~ \E f \in fills : f.position = id}

\* The positions that have their fill.
Priced == {p \in positions : \E f \in fills : f.position = p.run}

PriceOf(p) == (CHOOSE f \in fills : f.position = p.run).price

\* The open risk a caller can price: width less the credit of the fill, as in
\* the daily report.  A position without a fill has no price.
Book ==
  {[id |-> p.run, underlying |-> p.underlying, expiration |-> p.expiration,
    loss |-> p.quantity * (p.width - PriceOf(p))] : p \in Priced}

\* reconcile_open_positions, first read.
Reconcile(w) ==
  /\ pc[w] = "idle"
  /\ started < MaxRuns
  /\ run' = [run EXCEPT ![w] = [id |-> started + 1, open |-> {p.run : p \in positions}]]
  /\ started' = started + 1
  /\ Goto(w, "assess")
  /\ UNCHANGED <<tables, crashes>>

\* The first spread on the watchlist is the one the run goes for, 0: none.
Selected(r) ==
  LET eligible == {n \in DOMAIN r.scan : r.scan[n] = "WATCHLIST"} IN
  IF eligible = {} THEN 0 ELSE Min(eligible)

\* The caller judges the day and the book, and calls the workflow with its
\* findings, with a kill switch or without.  scan_spreads comes first.
Assess(w) ==
  /\ pc[w] = "assess"
  /\ \E day \in Days, chain \in Chains, size \in Sizes, asked \in BOOLEAN :
       LET e == [day EXCEPT !.verified = Unverified(run[w].open) = {}]
           regime == Regime(e)
           kill == IF asked THEN KillSwitch(e, regime) ELSE None
           scan == [n \in DOMAIN chain.spreads |-> ScanStatus(chain.spreads[n], regime, None, kill)]
           found == Selected([scan |-> scan])
           best == chain.spreads[IF found = 0 THEN 1 ELSE found]
           trade == [underlying |-> chain.underlying, expiration |-> chain.expiration,
                     loss |-> size * MaxLossPerSpread(best.width, best.credit)]
           status == TradeStatus("WATCHLIST", DataPassed(e), regime,
                                 PortfolioRiskPasses(Book, trade, e), size, kill)
       IN run' = [run EXCEPT ![w] =
            [id |-> run[w].id, chain |-> chain, size |-> size, regime |-> regime,
             kill |-> kill, scan |-> scan, status |-> status, written |-> 0]]
  /\ Goto(w, "candidate")
  /\ UNCHANGED <<tables, started, crashes>>

-----------------------------------------------------------------------------
(* The workflow *)

\* [fault] The run goes on after the first row.
PersistCandidate_First(w) ==
  LET r == run[w] IN
  /\ pc[w] = "candidate"
  /\ candidates' = candidates \cup {[run |-> r.id, number |-> 1, status |-> r.scan[1]]}
  /\ run' = [run EXCEPT ![w].written = 1]
  /\ Goto(w, IF Selected(r) # 0 /\ r.status = "APPROVED" THEN "ticket" ELSE "report")
  /\ UNCHANGED <<tickets, positions, fills, exits, audit, started, crashes>>

\* _persist_candidates, one row at a time; after the last one the run has a
\* candidate and an approval, or it goes on to its report.
PersistCandidate(w) ==
  LET r == run[w]
      n == r.written + 1 IN
  /\ pc[w] = "candidate"
  /\ candidates' = candidates \cup {[run |-> r.id, number |-> n, status |-> r.scan[n]]}
  /\ run' = [run EXCEPT ![w].written = n]
  /\ Goto(w, IF n < Len(r.scan) THEN "candidate"
             ELSE IF Selected(r) # 0 /\ r.status = "APPROVED" THEN "ticket" ELSE "report")
  /\ UNCHANGED <<tickets, positions, fills, exits, audit, started, crashes>>

Spread(r) == r.chain.spreads[Selected(r)]

\* create_manual_execution_ticket and insert_trade_ticket.
InsertTicket(w) ==
  LET r == run[w] IN
  /\ pc[w] = "ticket"
  /\ \E worst \in WorstCredits :
       /\ TicketAccepted(Spread(r), "WATCHLIST", r.status, Equity, worst, r.kill)
       /\ tickets' = tickets \cup {[run |-> r.id, candidate |-> Selected(r), contracts |-> r.size,
                                    target |-> Spread(r).credit, worst |-> worst]}
  /\ Goto(w, "ticketAudit")
  /\ UNCHANGED <<run, candidates, positions, fills, exits, audit, started, crashes>>

\* It raises TicketError, with the candidates already committed.
RefuseTicket(w) ==
  LET r == run[w] IN
  /\ pc[w] = "ticket"
  /\ \E worst \in WorstCredits :
       ~TicketAccepted(Spread(r), "WATCHLIST", r.status, Equity, worst, r.kill)
  /\ Goto(w, "idle")
  /\ run' = [run EXCEPT ![w] = None]
  /\ UNCHANGED <<tables, started, crashes>>

AuditTicket(w) ==
  /\ pc[w] = "ticketAudit"
  /\ Log(w, "TICKET_CREATED", 0)
  /\ Goto(w, "fillAudit")
  /\ UNCHANGED <<run, candidates, tickets, positions, fills, exits, started, crashes>>

TicketOf(id) == CHOOSE t \in tickets : t.run = id
CreditOf(id) == (CHOOSE a \in audit : a.run = id /\ a.kind = "FILLED").credit

\* simulate_paper_fill and its audit row.  The fill is dated by the entry
\* market; record_open_position raises when the spread has expired by then,
\* and the run ends there.
SimulateFill(w) ==
  LET t == TicketOf(run[w].id) IN
  /\ pc[w] = "fillAudit"
  /\ \E natural \in Naturals, expired \in BOOLEAN :
       LET filled == natural >= t.worst IN
       /\ Log(w, IF filled THEN "FILLED" ELSE "NOT_FILLED",
              IF ~filled THEN 0 ELSE IF natural < t.target THEN natural ELSE t.target)
       /\ IF filled /\ expired
          THEN Goto(w, "idle") /\ run' = [run EXCEPT ![w] = None]
          ELSE Goto(w, IF filled THEN "position" ELSE "report") /\ run' = run
  /\ UNCHANGED <<candidates, tickets, positions, fills, exits, started, crashes>>

InsertPosition(w) ==
  LET r == run[w] IN
  /\ pc[w] = "position"
  /\ positions' = positions \cup
       {[run |-> r.id, underlying |-> r.chain.underlying, expiration |-> r.chain.expiration,
         width |-> Spread(r).width, quantity |-> TicketOf(r.id).contracts]}
  /\ Goto(w, "fill")
  /\ UNCHANGED <<run, candidates, tickets, fills, exits, audit, started, crashes>>

\* [fault] The fill is stored as it was built, before it had a position.
InsertFill_Transient(w) ==
  LET r == run[w] IN
  /\ pc[w] = "fill"
  /\ fills' = fills \cup {[ticket |-> r.id, position |-> None, price |-> CreditOf(r.id)]}
  /\ Goto(w, "positionAudit")
  /\ UNCHANGED <<run, candidates, tickets, positions, exits, audit, started, crashes>>

InsertFill(w) ==
  LET r == run[w] IN
  /\ pc[w] = "fill"
  /\ fills' = fills \cup {[ticket |-> r.id, position |-> r.id, price |-> CreditOf(r.id)]}
  /\ Goto(w, "positionAudit")
  /\ UNCHANGED <<run, candidates, tickets, positions, exits, audit, started, crashes>>

AuditPosition(w) ==
  /\ pc[w] = "positionAudit"
  /\ Log(w, "POSITION_RECORDED", 0)
  /\ Goto(w, "markAudit")
  /\ UNCHANGED <<run, candidates, tickets, positions, fills, exits, started, crashes>>

\* update_position_mark changes nothing but the trail.
AuditMark(w) ==
  /\ pc[w] = "markAudit"
  /\ Log(w, "MARK_UPDATED", 0)
  /\ Goto(w, "exit")
  /\ UNCHANGED <<run, candidates, tickets, positions, fills, exits, started, crashes>>

\* evaluate_exit_recommendation and insert_exit.
InsertExit(w) ==
  LET r == run[w] IN
  /\ pc[w] = "exit"
  /\ \E market \in ExitMarkets :
       LET p == [market EXCEPT !.credit = CreditOf(r.id), !.width = Spread(r).width,
                               !.delta0 = Spread(r).shortDelta] IN
       exits' = exits \cup {[position |-> r.id,
                             action |-> Recommendation(p, r.regime, RiskOffReview(r.kill))]}
  /\ Goto(w, "exitAudit")
  /\ UNCHANGED <<run, candidates, tickets, positions, fills, audit, started, crashes>>

AuditExit(w) ==
  /\ pc[w] = "exitAudit"
  /\ Log(w, "EXIT", 0)
  /\ Goto(w, "report")
  /\ UNCHANGED <<run, candidates, tickets, positions, fills, exits, started, crashes>>

\* _build_and_write_report reads the tables, and the run is over.
Report(w) ==
  /\ pc[w] = "report"
  /\ Goto(w, "idle")
  /\ run' = [run EXCEPT ![w] = None]
  /\ UNCHANGED <<tables, started, crashes>>

\* A kill between two commits.
Crash(w) ==
  /\ pc[w] # "idle"
  /\ crashes < MaxCrashes
  /\ crashes' = crashes + 1
  /\ Goto(w, "idle")
  /\ run' = [run EXCEPT ![w] = None]
  /\ UNCHANGED <<tables, started>>

Next ==
  \E w \in Workers :
    \/ Reconcile(w) \/ Assess(w)
    \/ PersistCandidate(w) \/ InsertTicket(w) \/ RefuseTicket(w) \/ AuditTicket(w)
    \/ SimulateFill(w) \/ InsertPosition(w) \/ InsertFill(w) \/ AuditPosition(w)
    \/ AuditMark(w) \/ InsertExit(w) \/ AuditExit(w) \/ Report(w)
    \/ Crash(w)

Spec == Init /\ [][Next]_vars

-----------------------------------------------------------------------------
(* Properties *)

\* Every row names a run that was started, and rows refer to rows that exist.
TypeOK ==
  /\ pc \in [Workers -> Steps]
  /\ \A w \in Workers : (pc[w] = "idle") <=> (run[w] = None)
  /\ \A w \in Workers : run[w] # None => run[w].id \in 1 .. started
  /\ \A c \in candidates : c.run \in 1 .. started /\ c.number \in Nat \ {0}
  /\ \A t \in tickets : \E c \in candidates : c.run = t.run /\ c.number = t.candidate
  /\ \A p \in positions : p.run \in 1 .. started /\ p.quantity \in Nat \ {0}
  /\ \A f \in fills : \E t \in tickets : t.run = f.ticket
  /\ \A x \in exits : \E p \in positions : p.run = x.position
  /\ \A a \in audit : a.run \in 1 .. started /\ a.kind \in Kinds
  /\ started \in 0 .. MaxRuns /\ crashes \in 0 .. MaxCrashes

\* However often workers are killed and started again, positions whose fill
\* was lost never pile up: the reconciliation before each run sees the first
\* one, the regime goes BLACK and nothing is opened any more.  What is left is
\* one position of each worker that was already past its reconciliation.
OneTornPositionPerWorker ==
  Cardinality(positions \ Priced) <= Cardinality(Workers)

\* What position p can lose, at the credit of its simulated fill.
RiskOf(p) == p.quantity * (p.width - CreditOf(p.run))
OpenLoss(S) == SumFunction([p \in S |-> RiskOf(p)])

Spreads == UNION {Range(c.spreads) : c \in Chains}
ApprovedLosses == {n * (s.width - s.credit) : n \in Sizes, s \in Spreads}
FilledLosses == {n * (s.width - w) : n \in Sizes, w \in WorstCredits, s \in Spreads}

\* Workers check the limits against a book that lacks the trades of the others
\* and with the loss at the target credit.  What is really open stays within
\* each limit but for one trade of every other worker, whatever the order of
\* their steps, and the slippage of one fill.
Slack == Max(FilledLosses) - Min(ApprovedLosses) + (Cardinality(Workers) - 1) * Max(FilledLosses)
BookWithinLimits ==
  LET within(S, pct) == S # {} => 100 * (OpenLoss(S) - Slack) <= LimitAmount(Equity, pct) IN
  /\ within(positions, HeatPct)
  /\ \A c \in Chains : within({p \in positions : p.expiration = c.expiration}, ExpirationPct)
  /\ \A c \in Chains : within({p \in positions : p.underlying = c.underlying}, ClusterPct)

Logged(id, kinds) == kinds \subseteq {a.kind : a \in {b \in audit : b.run = id}}

\* The trail explains every position and every exit even if the run was killed: the
\* ticket and the simulated fill are on record before the position is, its
\* mark before the advice on it, and advice is given on recorded fills only.
\* Ticket and fill themselves are inserted before their audit rows.
TrailLeadsRows ==
  /\ \A p \in positions : Logged(p.run, {"TICKET_CREATED", "FILLED"})
  /\ \A x \in exits : /\ Logged(x.position, {"POSITION_RECORDED", "MARK_UPDATED"})
                      /\ \E p \in Priced : p.run = x.position
=============================================================================
