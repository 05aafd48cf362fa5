-------------------------- MODULE DeskReport_proofs --------------------------
(***************************************************************************)
(* Proofs about DeskReport, for any number of workers, runs, kills and     *)
(* days: its types, that what a report advises on it also lists, and that  *)
(* a total it states is the risk of the whole book.                        *)
(***************************************************************************)
EXTENDS DeskReport, PaperDesk_proofs

-----------------------------------------------------------------------------
(* The section *)

\* Run id was at work when the report began, or began after it.
Recent(id) == id \in section.busy \/ id > section.known

\* What is listed, and with its loss if the fill is of the date of the report.
Listed(id) ==
  \E p \in DOMAIN section.lines :
    p.run = id /\ (section.lines[p] = None => filledOn[id] # section.date)

\* The advice of the date of the report on runs that are not recent.
OldAdvice == {x \in exits : markedOn[x.position] = section.date /\ ~Recent(x.position)}

\* The runs with a fill, and those with an exit.
Filled == {f.ticket : f \in fills}
Advised == {x.position : x \in exits}

Dating == filledOn \in [Filled -> Dates] /\ markedOn \in [Advised -> Dates]

\* Whoever is at work is recent.
Begun ==
  section.step # "none" =>
    /\ section.date \in Dates /\ section.known \in Nat /\ section.known <= started
    /\ \A w \in Workers : pc[w] # "idle" => Recent(run[w].id)

\* The fills that were read cover the old advice on fills of their date, and the lines
\* cover all of it.
FillsRead ==
  section.step = "positions" =>
    /\ section.read \subseteq fills
    /\ \A x \in OldAdvice :
         filledOn[x.position] = section.date => \E f \in section.read : f.position = x.position
LinesDrawn ==
  section.step \in {"exits", "done"} =>
    /\ DOMAIN section.lines \subseteq positions
    /\ \A p \in DOMAIN section.lines : section.lines[p] \in (Nat \ {0}) \cup {None}
LinesCover ==
  section.step = "exits" =>
    /\ {"step", "date", "busy", "known", "lines"} \subseteq DOMAIN section
    /\ \A x \in OldAdvice : Listed(x.position)
AdviceCovered ==
  section.step = "done" =>
    \A id \in section.advice :
      id \in Advised /\ markedOn[id] = section.date /\ (Recent(id) \/ Listed(id))

SectionInv ==
  /\ section.step \in {"none", "fills", "positions", "exits", "done"}
  /\ Dating /\ Begun /\ FillsRead /\ LinesDrawn /\ LinesCover /\ AdviceCovered

\* A worker at work stays with its run, or it begins the next one; advice comes from
\* workers at work.
WorkersGoOn ==
  /\ fills \subseteq fills' /\ positions \subseteq positions' /\ exits \subseteq exits'
  /\ started' \in {started, started + 1}
  /\ \A v \in Workers : pc'[v] # "idle" =>
       \/ pc[v] # "idle" /\ run'[v].id = run[v].id
       \/ run'[v].id = started + 1
  /\ \A x \in exits' \ exits : \E w \in Workers : pc[w] # "idle" /\ x.position = run[w].id

\* Every step of the desk is such a step.
LEMMA DeskGoesOn == PriceInv /\ [Next]_vars => WorkersGoOn
<1> SUFFICES ASSUME PriceInv, [Next]_vars PROVE WorkersGoOn
  OBVIOUS
<1>1. IInv /\ Shape
  BY DEF PriceInv, IInv
<1>2. CASE UNCHANGED vars
  BY <1>2 DEF vars, WorkersGoOn
<1>3. ASSUME NEW w \in Workers, pc[w] # "idle", NEW step, Goto(w, step),
             fills \subseteq fills', positions \subseteq positions', exits \subseteq exits',
             started' = started, \A x \in exits' \ exits : x.position = run[w].id,
             \/ run' = run
             \/ step = "idle" /\ run' = [run EXCEPT ![w] = None]
             \/ \E new : run' = [run EXCEPT ![w] = new] /\ new.id = run[w].id
      PROVE  WorkersGoOn
  <2>1. \A v \in Workers : v # w => pc'[v] = pc[v] /\ run'[v] = run[v]
    BY <1>1, <1>3 DEF Goto, Shape
  <2>2. pc'[w] = step /\ (step # "idle" => run'[w].id = run[w].id)
    BY <1>1, <1>3 DEF Goto, Shape
  <2> QED
    BY <1>3, <2>1, <2>2 DEF WorkersGoOn
<1>4. ASSUME NEW w \in Workers, Reconcile(w) PROVE WorkersGoOn
  <2>1. /\ pc' = [pc EXCEPT ![w] = "assess"] /\ started' = started + 1
        /\ run' = [run EXCEPT ![w] = [id |-> started + 1, open |-> {p.run : p \in positions}]]
        /\ UNCHANGED <<positions, fills, exits>>
    BY <1>4 DEF Reconcile, Goto, tables
  <2>2. \A v \in Workers : v # w => pc'[v] = pc[v] /\ run'[v] = run[v]
    BY <1>1, <2>1 DEF Shape
  <2>3. run'[w].id = started + 1
    BY <1>1, <2>1 DEF Shape
  <2> QED
    BY <2>1, <2>2, <2>3 DEF WorkersGoOn
<1>5. ASSUME NEW w \in Workers, Assess(w) PROVE WorkersGoOn
  <2>1. PICK new : run' = [run EXCEPT ![w] = new] /\ new.id = run[w].id
    BY <1>1, <1>5, AssessFinds
  <2>2. pc[w] = "assess" /\ Goto(w, "candidate") /\ UNCHANGED <<positions, fills, exits, started>>
    BY <1>5 DEF Assess, tables
  <2> QED
    BY <1>3, <2>1, <2>2
<1>6. ASSUME NEW w \in Workers, PersistCandidate(w) PROVE WorkersGoOn
  <2>1. PICK r : r = run[w]
    OBVIOUS
  <2>2. PICK new, step : /\ new.id = run[w].id /\ run' = [run EXCEPT ![w] = new] /\ Goto(w, step)
    <3>1. pc[w] = "candidate" /\ r \in Judged
      BY <1>1, <1>6, <2>1 DEF PersistCandidate, IInv, Memory
    <3>2. [r EXCEPT !.written = r.written + 1].id = r.id
      BY <3>1 DEF Judged
    <3> QED
      BY <1>6, <2>1, <3>2 DEF PersistCandidate
  <2>3. pc[w] = "candidate" /\ UNCHANGED <<positions, fills, exits, started>>
    BY <1>6 DEF PersistCandidate
  <2> QED
    BY <1>3, <2>2, <2>3
<1>7. ASSUME NEW w \in Workers, SimulateFill(w) PROVE WorkersGoOn
  <2>1. PICK step : /\ Goto(w, step)
                    /\ run' = run \/ (step = "idle" /\ run' = [run EXCEPT ![w] = None])
    <3>1. PICK natural \in Naturals, expired \in BOOLEAN :
            IF natural >= TicketOf(run[w].id).worst /\ expired
            THEN Goto(w, "idle") /\ run' = [run EXCEPT ![w] = None]
            ELSE /\ Goto(w, IF natural >= TicketOf(run[w].id).worst THEN "position" ELSE "report")
                 /\ run' = run
      BY <1>7 DEF SimulateFill
    <3>2. CASE natural >= TicketOf(run[w].id).worst /\ expired
      BY <3>1, <3>2
    <3>3. CASE ~(natural >= TicketOf(run[w].id).worst /\ expired)
      BY <3>1, <3>3
    <3> QED
      BY <3>2, <3>3
  <2>2. pc[w] = "fillAudit" /\ UNCHANGED <<positions, fills, exits, started>>
    BY <1>7 DEF SimulateFill
  <2> QED
    BY <1>3, <2>1, <2>2
<1>8. ASSUME NEW w \in Workers, InsertExit(w) PROVE WorkersGoOn
  <2>1. PICK row : exits' = exits \cup {row} /\ row.position = run[w].id
    <3>1. PICK action : exits' = exits \cup {[position |-> run[w].id, action |-> action]}
      BY <1>8 DEF InsertExit
    <3> DEFINE row == [position |-> run[w].id, action |-> action]
    <3>2. exits' = exits \cup {row} /\ row.position = run[w].id
      BY <3>1
    <3> HIDE DEF row
    <3> QED
      BY <3>2
  <2>2. pc[w] = "exit" /\ Goto(w, "exitAudit") /\ UNCHANGED <<run, positions, fills, started>>
    BY <1>8 DEF InsertExit
  <2> QED
    BY <1>3, <2>1, <2>2
<1>9. ASSUME NEW w \in Workers,
             \/ InsertTicket(w) \/ AuditTicket(w) \/ AuditPosition(w) \/ AuditMark(w) \/ AuditExit(w)
      PROVE  WorkersGoOn
  <2>1. PICK step : Goto(w, step) /\ run' = run
    BY <1>9 DEF InsertTicket, AuditTicket, AuditPosition, AuditMark, AuditExit
  <2>2. pc[w] # "idle" /\ UNCHANGED <<positions, fills, exits, started>>
    BY <1>9 DEF InsertTicket, AuditTicket, AuditPosition, AuditMark, AuditExit
  <2> QED
    BY <1>3, <2>1, <2>2
<1>10. ASSUME NEW w \in Workers, RefuseTicket(w) \/ Report(w) \/ Crash(w) PROVE WorkersGoOn
  <2>1. Goto(w, "idle") /\ run' = [run EXCEPT ![w] = None]
    BY <1>10 DEF RefuseTicket, Report, Crash
  <2>2. pc[w] # "idle" /\ UNCHANGED <<positions, fills, exits, started>>
    BY <1>10 DEF RefuseTicket, Report, Crash, tables
  <2> QED
    BY <1>3, <2>1, <2>2
<1>11. ASSUME NEW w \in Workers, InsertPosition(w) \/ InsertFill(w) PROVE WorkersGoOn
  <2>1. PICK step : Goto(w, step) /\ run' = run
    BY <1>11 DEF InsertPosition, InsertFill
  <2>2. /\ pc[w] # "idle" /\ UNCHANGED <<exits, started>>
        /\ positions \subseteq positions' /\ fills \subseteq fills'
    BY <1>11 DEF InsertPosition, InsertFill
  <2> QED
    BY <1>3, <2>1, <2>2
<1> QED
  BY <1>2, <1>4, <1>5, <1>6, <1>7, <1>8, <1>9, <1>10, <1>11 DEF Next

\* A row keeps its date, and a new one has one.
LEMMA DatesStay ==
  ASSUME NEW old, NEW runs, NEW grown, old \in [runs -> Dates], runs \subseteq grown,
         NEW date \in Dates, NEW new, new = WithDate(old, grown, date)
  PROVE  /\ new \in [grown -> Dates]
         /\ \A id \in runs : new[id] = old[id]
BY DEF WithDate

\* Tables that grow keep the dates of their rows.
LEMMA RowsStayDated ==
  ASSUME Dating, Trade, fills \subseteq fills', exits \subseteq exits'
  PROVE  /\ Dating'
         /\ \A id \in Filled : filledOn'[id] = filledOn[id]
         /\ \A id \in Advised : markedOn'[id] = markedOn[id]
<1>1. PICK date \in Dates : /\ filledOn' = WithDate(filledOn, Filled', date)
                           /\ markedOn' = WithDate(markedOn, Advised', date)
  BY DEF Trade, Filled, Advised
<1>2. Filled \subseteq Filled' /\ Advised \subseteq Advised'
  BY DEF Filled, Advised
<1>3. filledOn' \in [Filled' -> Dates] /\ \A id \in Filled : filledOn'[id] = filledOn[id]
  <2>1. PICK old, new, runs, grown :
          old = filledOn /\ new = filledOn' /\ runs = Filled /\ grown = Filled'
    OBVIOUS
  <2>2. old \in [runs -> Dates] /\ runs \subseteq grown
    BY <1>2, <2>1 DEF Dating
  <2>3. new = WithDate(old, grown, date)
    BY <1>1, <2>1
  <2>4. new \in [grown -> Dates] /\ \A id \in runs : new[id] = old[id]
    BY <2>2, <2>3, DatesStay
  <2> QED
    BY <2>1, <2>4
<1>4. markedOn' \in [Advised' -> Dates] /\ \A id \in Advised : markedOn'[id] = markedOn[id]
  <2>1. PICK old, new, runs, grown :
          old = markedOn /\ new = markedOn' /\ runs = Advised /\ grown = Advised'
    OBVIOUS
  <2>2. old \in [runs -> Dates] /\ runs \subseteq grown
    BY <1>2, <2>1 DEF Dating
  <2>3. new = WithDate(old, grown, date)
    BY <1>1, <2>1
  <2>4. new \in [grown -> Dates] /\ \A id \in runs : new[id] = old[id]
    BY <2>2, <2>3, DatesStay
  <2> QED
    BY <2>1, <2>4
<1> QED
  BY <1>3, <1>4 DEF Dating, Dates

\* A run with advice has its fill.
LEMMA AdvisedFilled == PriceInv => Advised \subseteq Filled
<1> SUFFICES ASSUME PriceInv, NEW x \in exits PROVE x.position \in Filled
  BY DEF Advised
<1>1. PICK f \in fills : f.position = x.position
  BY DEF PriceInv, IInv, TrailLeadsRows, Priced
<1>2. f.ticket = x.position
  BY <1>1 DEF PriceInv, PriceRows
<1> QED
  BY <1>2 DEF Filled

\* While the section waits the desk goes on, and what the section knows stays true.
LEMMA TradeKeepsSection ==
  ASSUME PriceInv, PriceInv', SectionInv, Trade
  PROVE  SectionInv'
<1>1. WorkersGoOn /\ section' = section
  BY DeskGoesOn DEF Trade
<1>2. started \in Nat /\ started' \in Nat /\ started <= started'
  BY <1>1 DEF PriceInv, IInv, Shape, WorkersGoOn
<1>3. /\ Dating' /\ Advised \subseteq Filled
      /\ \A id \in Filled : filledOn'[id] = filledOn[id]
      /\ \A id \in Advised : markedOn'[id] = markedOn[id]
  BY <1>1, RowsStayDated, AdvisedFilled DEF SectionInv, WorkersGoOn
<1>4. Advised \subseteq Advised'
  BY <1>1 DEF WorkersGoOn, Advised
<1>5. /\ \A id : Recent(id)' = Recent(id)
      /\ \A id \in Advised : Listed(id)' = Listed(id)
  <2>1. \A id : Recent(id)' = Recent(id)
    BY <1>1 DEF Recent
  <2>2. ASSUME NEW id \in Advised PROVE Listed(id)' = Listed(id)
    <3>1. filledOn'[id] = filledOn[id] /\ section' = section
      BY <1>1, <1>3
    <3> QED
      BY <3>1 DEF Listed
  <2> QED
    BY <2>1, <2>2
<1>6. Begun'
  <2> SUFFICES ASSUME section.step # "none" PROVE Begun'
    BY <1>1 DEF Begun
  <2>1. section.known \in Nat /\ section.known <= started
    BY DEF SectionInv, Begun
  <2>2. ASSUME NEW w \in Workers, pc'[w] # "idle" PROVE Recent(run'[w].id)
    <3>1. CASE pc[w] # "idle" /\ run'[w].id = run[w].id
      BY <3>1 DEF SectionInv, Begun
    <3>2. CASE run'[w].id = started + 1
      BY <1>2, <2>1, <3>2 DEF Recent
    <3> QED
      BY <1>1, <2>2, <3>1, <3>2 DEF WorkersGoOn
  <2> QED
    BY <1>1, <1>2, <1>5, <2>1, <2>2 DEF SectionInv, Begun, Recent
<1>7. section.step # "none" => OldAdvice' \subseteq OldAdvice
  <2> SUFFICES ASSUME section.step # "none", NEW x \in OldAdvice' PROVE x \in OldAdvice
    OBVIOUS
  <2>1. x \in exits' /\ markedOn'[x.position] = section.date /\ ~Recent(x.position)
    BY <1>1, <1>5 DEF OldAdvice, Recent
  <2>2. x \in exits
    BY <1>1, <2>1 DEF WorkersGoOn, SectionInv, Begun
  <2>3. x.position \in Advised
    BY <2>2 DEF Advised
  <2> QED
    BY <1>3, <2>1, <2>2, <2>3 DEF OldAdvice
<1>8. \A x \in OldAdvice : x.position \in Advised
  BY DEF OldAdvice, Advised
<1>9. FillsRead'
  <2> SUFFICES ASSUME section.step = "positions" PROVE FillsRead'
    BY <1>1 DEF FillsRead
  <2>1. section.read \subseteq fills'
    BY <1>1 DEF SectionInv, FillsRead, WorkersGoOn
  <2>2. ASSUME NEW x \in OldAdvice', filledOn'[x.position] = section.date
        PROVE  \E f \in section.read : f.position = x.position
    <3>1. x \in OldAdvice /\ x.position \in Filled
      BY <1>3, <1>7, <1>8
    <3>2. filledOn[x.position] = section.date
      BY <1>3, <2>2, <3>1
    <3> QED
      BY <3>1, <3>2 DEF SectionInv, FillsRead
  <2> QED
    BY <1>1, <2>1, <2>2 DEF FillsRead
<1>10. LinesDrawn'
  BY <1>1 DEF SectionInv, WorkersGoOn, LinesDrawn
<1>11. LinesCover'
  BY <1>1, <1>5, <1>7, <1>8 DEF SectionInv, LinesCover
<1>12. AdviceCovered'
  BY <1>1, <1>3, <1>4, <1>5 DEF SectionInv, AdviceCovered
<1> QED
  BY <1>1, <1>3, <1>6, <1>9, <1>10, <1>11, <1>12 DEF SectionInv

\* What a report lists of an open position: its loss, or None.
LEMMA LossOfLine ==
  ASSUME PriceInv, NEW p \in positions, NEW read \in SUBSET fills
  PROVE  /\ PositionMaxLoss(p, read) \in (Nat \ {0}) \cup {None}
         /\ (\E f \in read : f.position = p.run) => PositionMaxLoss(p, read) # None
<1> DEFINE own == {f \in read : f.position = p.run}
<1>1. CASE own = {}
  BY <1>1 DEF PositionMaxLoss
<1>2. CASE own # {}
  <2>1. PICK f \in own : f = CHOOSE g \in own : TRUE
    BY <1>2
  <2>2. \E a \in FilledRows(p.run) : a.credit = f.price
    BY DEF PriceInv, PriceRows
  <2>3. f.price \in Int /\ f.price < p.width /\ p.width \in Nat \ {0}
    BY <2>2 DEF PriceInv, PriceRows, Below
  <2>4. p.quantity \in Nat \ {0}
    BY DEF PriceInv, IInv, Rows
  <2>5. PICK loss : loss = p.width - f.price
    OBVIOUS
  <2>6. loss \in Nat \ {0} /\ ~(p.width <= 0 \/ loss <= 0)
    BY <2>3, <2>5
  <2>7. \A a, b \in Nat \ {0} : a * b \in Nat \ {0}
    OBVIOUS
  <2>8. PositionMaxLoss(p, read) = loss * p.quantity
    BY <1>2, <2>1, <2>5, <2>6 DEF PositionMaxLoss
  <2>9. PositionMaxLoss(p, read) \in Nat \ {0}
    BY <2>4, <2>6, <2>7, <2>8
  <2> QED
    BY <2>9, NoneAssumption
<1> QED
  BY <1>1, <1>2

\* The steps of the report itself leave the desk alone.
DeskWaits == UNCHANGED <<vars, filledOn, markedOn>>

\* What they leave alone.
LEMMA DeskWaiting ==
  ASSUME PriceInv, SectionInv, DeskWaits
  PROVE  /\ PriceInv' /\ Dating'
         /\ UNCHANGED <<pc, run, positions, fills, exits, started, filledOn, markedOn>>
<1>1. UNCHANGED vars /\ UNCHANGED <<filledOn, markedOn>>
  BY DEF DeskWaits
<1>2. UNCHANGED <<pc, run, positions, fills, exits, started>>
  BY <1>1 DEF vars
<1>3. PriceInv'
  BY <1>1, PricesInductive
<1>4. Dating'
  BY <1>1, <1>2 DEF SectionInv, Dating, Dates, Filled, Advised
<1> QED
  BY <1>1, <1>2, <1>3, <1>4

\* A report begins: whoever is at work is noted.
LEMMA BeginHolds ==
  ASSUME PriceInv, SectionInv, NEW date \in Dates, BeginReport(date)
  PROVE  SectionInv'
<1>1. /\ Dating' /\ UNCHANGED <<pc, run, positions, fills, exits, started, filledOn, markedOn>>
  BY DeskWaiting DEF BeginReport, DeskWaits
<1>2. /\ section'.step = "fills" /\ section'.date = date /\ section'.busy = Busy
      /\ section'.known = started
  BY DEF BeginReport
<1>3. started \in Nat
  BY DEF PriceInv, IInv, Shape
<1>4. \A w \in Workers : pc[w] # "idle" => run[w].id \in Busy
  BY DEF Busy
<1>5. Begun'
  BY <1>1, <1>2, <1>3, <1>4 DEF Begun, Recent, Dates
<1> QED
  BY <1>1, <1>2, <1>5 DEF SectionInv, FillsRead, LinesDrawn, LinesCover, AdviceCovered

\* Each later step carries the date and the runs of the report on.
LEMMA BegunStays ==
  ASSUME PriceInv, SectionInv, DeskWaits, section.step # "none",
         section'.date = section.date, section'.busy = section.busy,
         section'.known = section.known
  PROVE  /\ Begun' /\ OldAdvice' = OldAdvice
         /\ \A id : Recent(id)' = Recent(id)
<1>1. UNCHANGED <<pc, run, positions, fills, exits, started, filledOn, markedOn>>
  BY DeskWaiting
<1>2. \A id : Recent(id)' = Recent(id)
  BY DEF Recent
<1>3. OldAdvice' = OldAdvice
  BY <1>1, <1>2 DEF OldAdvice
<1>4. Begun'
  BY <1>1, <1>2 DEF SectionInv, Begun, Dates
<1> QED
  BY <1>2, <1>3, <1>4

\* Advice is given on fills, and those of the date are read.
LEMMA LoadFillsHolds ==
  ASSUME PriceInv, SectionInv, LoadFills
  PROVE  SectionInv'
<1>1. DeskWaits /\ section.step = "fills"
  BY DEF LoadFills, DeskWaits
<1>2. Dating' /\ UNCHANGED <<positions, fills, exits, started, filledOn, markedOn>>
  BY <1>1, DeskWaiting
<1>3. /\ section'.step = "positions" /\ section'.date = section.date
      /\ section'.busy = section.busy /\ section'.known = section.known
      /\ section'.read = FillsOn(section.date)
  BY DEF LoadFills
<1>4. Begun' /\ OldAdvice' = OldAdvice
  BY <1>1, <1>3, BegunStays
<1>5. ASSUME NEW x \in OldAdvice, filledOn[x.position] = section.date
      PROVE  \E f \in FillsOn(section.date) : f.position = x.position
  <2>1. PICK f \in fills : f.position = x.position
    BY DEF OldAdvice, PriceInv, IInv, TrailLeadsRows, Priced
  <2>2. f.ticket = x.position
    BY <2>1 DEF PriceInv, PriceRows
  <2> QED
    BY <1>5, <2>1, <2>2 DEF FillsOn
<1>6. FillsRead'
  BY <1>2, <1>3, <1>4, <1>5 DEF FillsRead, FillsOn
<1> QED
  BY <1>2, <1>3, <1>4, <1>6 DEF SectionInv, LinesDrawn, LinesCover, AdviceCovered

\* Every position is listed, and with its loss when its fill was read.
LEMMA LoadOpenPositionsHolds ==
  ASSUME PriceInv, SectionInv, LoadOpenPositions
  PROVE  SectionInv'
<1>1. DeskWaits /\ section.step = "positions"
  BY DEF LoadOpenPositions, DeskWaits
<1>2. Dating' /\ UNCHANGED <<positions, fills, exits, started, filledOn, markedOn>>
  BY <1>1, DeskWaiting
<1>3. PICK lines : lines = [p \in positions |-> PositionMaxLoss(p, section.read)]
  OBVIOUS
<1>4. /\ section'.step = "exits" /\ section'.date = section.date
      /\ section'.busy = section.busy /\ section'.known = section.known
      /\ section'.lines = lines
      /\ {"step", "date", "busy", "known", "lines"} \subseteq DOMAIN section'
  BY <1>3 DEF LoadOpenPositions
<1>5. Begun' /\ OldAdvice' = OldAdvice
  BY <1>1, <1>4, BegunStays
<1>6. section.read \in SUBSET fills
  BY <1>1 DEF SectionInv, FillsRead
<1>7. LinesDrawn'
  BY <1>2, <1>3, <1>4, <1>6, LossOfLine DEF LinesDrawn
<1>8. \A x \in OldAdvice : Listed(x.position)'
  <2> SUFFICES ASSUME NEW x \in OldAdvice PROVE Listed(x.position)'
    OBVIOUS
  <2>1. PICK p \in positions : p.run = x.position
    BY DEF OldAdvice, PriceInv, IInv, Rows, HasPosition
  <2>2. p \in DOMAIN lines /\ (lines[p] = None => filledOn[x.position] # section.date)
    <3>1. CASE filledOn[x.position] = section.date
      <4>1. \E f \in section.read : f.position = p.run
        BY <1>1, <2>1, <3>1 DEF SectionInv, FillsRead
      <4> QED
        BY <1>3, <1>6, <4>1, LossOfLine
    <3>2. CASE filledOn[x.position] # section.date
      BY <1>3, <3>2
    <3> QED
      BY <3>1, <3>2
  <2> QED
    BY <1>2, <1>4, <2>1, <2>2 DEF Listed
<1>9. LinesCover'
  BY <1>4, <1>5, <1>8 DEF LinesCover
<1> QED
  BY <1>2, <1>4, <1>5, <1>7, <1>9 DEF SectionInv, FillsRead, AdviceCovered

\* The advice of the date is that of recent runs, or of listed positions.
LEMMA LoadExitsHolds ==
  ASSUME PriceInv, SectionInv, LoadExits
  PROVE  SectionInv'
<1>1. DeskWaits /\ section.step = "exits"
  BY DEF LoadExits, DeskWaits
<1>2. Dating' /\ UNCHANGED <<positions, fills, exits, started, filledOn, markedOn>>
  BY <1>1, DeskWaiting
<1>3. section' = [f \in DOMAIN section \cup {"advice"} |->
                    IF f = "advice" THEN ExitsOn(section.date)
                    ELSE IF f = "step" THEN "done" ELSE section[f]]
  BY DEF LoadExits
<1>4. {"step", "date", "busy", "known", "lines"} \subseteq DOMAIN section
  BY <1>1 DEF SectionInv, LinesCover
<1>5. /\ section'.step = "done" /\ section'.date = section.date
      /\ section'.busy = section.busy /\ section'.known = section.known
      /\ section'.lines = section.lines /\ section'.advice = ExitsOn(section.date)
  BY <1>3, <1>4
<1>6. Begun' /\ \A id : Recent(id)' = Recent(id)
  BY <1>1, <1>5, BegunStays
<1>7. \A id : Listed(id)' = Listed(id)
  BY <1>2, <1>5 DEF Listed
<1>8. LinesDrawn'
  BY <1>1, <1>2, <1>5 DEF SectionInv, LinesDrawn
<1>9. \A id \in ExitsOn(section.date) :
        id \in Advised /\ markedOn[id] = section.date /\ (Recent(id) \/ Listed(id))
  <2> SUFFICES ASSUME NEW x \in exits, markedOn[x.position] = section.date
               PROVE  x.position \in Advised /\ (Recent(x.position) \/ Listed(x.position))
    BY DEF ExitsOn
  <2>1. x.position \in Advised
    BY DEF Advised
  <2>2. Recent(x.position) \/ x \in OldAdvice
    BY DEF OldAdvice
  <2> QED
    BY <1>1, <2>1, <2>2 DEF SectionInv, LinesCover
<1>10. AdviceCovered'
  BY <1>2, <1>5, <1>6, <1>7, <1>9 DEF AdviceCovered, Advised
<1> QED
  BY <1>2, <1>5, <1>6, <1>8, <1>10 DEF SectionInv, FillsRead, LinesCover

\* The two invariants together are inductive.
LEMMA ReportInductive ==
  PriceInv /\ SectionInv /\ [ReportNext]_reportVars => PriceInv' /\ SectionInv'
<1> SUFFICES ASSUME PriceInv, SectionInv, [ReportNext]_reportVars PROVE PriceInv' /\ SectionInv'
  OBVIOUS
<1>1. CASE Trade
  <2>1. PriceInv'
    BY <1>1, PricesInductive DEF Trade
  <2> QED
    BY <1>1, <2>1, TradeKeepsSection
<1>2. ASSUME DeskWaits, section' = section PROVE PriceInv' /\ SectionInv'
  <2>1. /\ PriceInv' /\ Dating'
        /\ UNCHANGED <<pc, run, positions, fills, exits, started, filledOn, markedOn>>
    BY <1>2, DeskWaiting
  <2>2. /\ \A id : Recent(id)' = Recent(id) /\ Listed(id)' = Listed(id)
        /\ Advised' = Advised
    BY <1>2, <2>1 DEF Recent, Listed, Advised
  <2>3. OldAdvice' = OldAdvice
    BY <1>2, <2>1, <2>2 DEF OldAdvice
  <2> QED
    BY <1>2, <2>1, <2>2, <2>3
       DEF SectionInv, Begun, FillsRead, LinesDrawn, LinesCover, AdviceCovered, Dates
<1>3. ASSUME DeskWaits PROVE PriceInv'
  BY <1>3, DeskWaiting
<1>4. CASE \E date \in Dates : BeginReport(date)
  BY <1>3, <1>4, BeginHolds DEF BeginReport, DeskWaits
<1>5. CASE LoadFills
  BY <1>3, <1>5, LoadFillsHolds DEF LoadFills, DeskWaits
<1>6. CASE LoadOpenPositions
  BY <1>3, <1>6, LoadOpenPositionsHolds DEF LoadOpenPositions, DeskWaits
<1>7. CASE LoadExits
  BY <1>3, <1>7, LoadExitsHolds DEF LoadExits, DeskWaits
<1>8. CASE UNCHANGED reportVars
  BY <1>2, <1>8 DEF reportVars, DeskWaits
<1> QED
  BY <1>1, <1>4, <1>5, <1>6, <1>7, <1>8 DEF ReportNext

\* At first there is no report.
LEMMA InitReports == ReportInit => PriceInv /\ SectionInv
<1> SUFFICES ASSUME ReportInit PROVE PriceInv /\ SectionInv
  OBVIOUS
<1>1. PriceInv /\ section.step = "none"
  BY InitPrices DEF ReportInit, NoSection
<1>2. Dating
  BY DEF ReportInit, Init, Dating, Filled, Advised
<1> QED
  BY <1>1, <1>2 DEF SectionInv, Begun, FillsRead, LinesDrawn, LinesCover, AdviceCovered

\* Every fill and every exit has a date, and a report lists losses of positions that exist
\* and advice of its own date.
THEOREM ReportTypes == ReportSpec => []ReportTypeOK
<1>1. PriceInv /\ SectionInv => ReportTypeOK
  BY DEF SectionInv, Dating, Filled, Advised, Begun, LinesDrawn, AdviceCovered, ReportTypeOK, Done
<1> QED
  BY <1>1, InitReports, ReportInductive, PTL DEF ReportSpec

\* However the queries of a report interleave with the workers and their kills, and whatever
\* dates fills and exits have: what it advises on it also lists, and with its loss when the
\* fill is of its date, unless the run was at work when the report began, or began after it.
THEOREM AdviceIsListed == ReportSpec => []AdviceIsOnListedRisk
<1>1. SectionInv => AdviceIsOnListedRisk
  BY DEF SectionInv, AdviceCovered, AdviceIsOnListedRisk, Done, Recent, Listed
<1> QED
  BY <1>1, InitReports, ReportInductive, PTL DEF ReportSpec
-----------------------------------------------------------------------------
(* The risk a report states *)

\* The lines are those of the book, each priced with the loss of its position, and the
\* totals are theirs.
TotalsDrawn ==
  section.step \in {"exits", "done"} =>
    /\ section.book \subseteq positions /\ DOMAIN section.lines = section.book
    /\ \A p \in section.book : section.lines[p] # None => section.lines[p] = RiskOf(p)
    /\ section.openMaxLoss = OpenMaxLoss(section.lines)
    /\ section.byUnderlying = RiskBy(section.lines, "underlying")
    /\ section.byExpiration = RiskBy(section.lines, "expiration")
TotalsCarried ==
  section.step = "exits" =>
    {"book", "lines", "openMaxLoss", "byUnderlying", "byExpiration"} \subseteq DOMAIN section

WholeInv == SaleInv /\ TotalsDrawn /\ TotalsCarried

\* A priced line is the loss at the credit of the trail.
LEMMA LineIsRisk ==
  ASSUME PriceInv, SaleInv, NEW p \in positions, NEW read \in SUBSET fills,
         PositionMaxLoss(p, read) # None
  PROVE  PositionMaxLoss(p, read) = RiskOf(p)
<1> DEFINE own == {f \in read : f.position = p.run}
<1>1. own # {}
  BY DEF PositionMaxLoss
<1>2. PICK f \in own : f = CHOOSE g \in own : TRUE
  BY <1>1
<1>3. \E a \in FilledRows(p.run) : a.credit = f.price
  BY DEF PriceInv, PriceRows
<1>4. f.price = CreditOf(p.run)
  BY <1>3, CreditOfRun
<1>5. PICK loss, n : loss = p.width - CreditOf(p.run) /\ n = p.quantity
  OBVIOUS
<1>6. PositionMaxLoss(p, read) = loss * n
  BY <1>1, <1>2, <1>4, <1>5 DEF PositionMaxLoss
<1>7. RiskOf(p) = n * loss
  BY <1>5 DEF RiskOf
<1>8. loss \in Int /\ n \in Int
  BY <1>5, RiskCounts
<1> QED
  BY <1>6, <1>7, <1>8

\* What is drawn stays true while the desk goes on.
LEMMA TotalsStay ==
  ASSUME PriceInv, WholeInv, [Next]_vars, section' = section
  PROVE  WholeInv'
<1>1. SaleInv'
  BY SalesInductive DEF WholeInv
<1>2. positions \subseteq positions'
  BY RowsGrow
<1>3. \A p \in positions : RiskOf(p)' = RiskOf(p)
  BY RiskStays DEF WholeInv
<1>4. TotalsDrawn'
  <2> SUFFICES ASSUME section.step \in {"exits", "done"} PROVE TotalsDrawn'
    BY DEF TotalsDrawn
  <2>1. PICK book, lines : book = section.book /\ lines = section.lines
    OBVIOUS
  <2>2. \A p \in book : lines[p] # None => lines[p] = RiskOf(p)'
    BY <1>3, <2>1 DEF WholeInv, TotalsDrawn
  <2>3. book \subseteq positions' /\ DOMAIN lines = book
    BY <1>2, <2>1 DEF WholeInv, TotalsDrawn
  <2>4. /\ section'.openMaxLoss = OpenMaxLoss(section.lines)
        /\ section'.byUnderlying = RiskBy(section.lines, "underlying")
        /\ section'.byExpiration = RiskBy(section.lines, "expiration")
    BY DEF WholeInv, TotalsDrawn
  <2>5. /\ OpenMaxLoss(section.lines)' = OpenMaxLoss(section.lines)
        /\ RiskBy(section.lines, "underlying")' = RiskBy(section.lines, "underlying")
        /\ RiskBy(section.lines, "expiration")' = RiskBy(section.lines, "expiration")
    BY DEF OpenMaxLoss, RiskBy, Total, PricedLines
  <2>6. \A p \in section'.book : section'.lines[p] # None => section'.lines[p] = RiskOf(p)'
    BY <2>1, <2>2
  <2>7. section'.book \subseteq positions' /\ DOMAIN section'.lines = section'.book
    BY <2>1, <2>3
  <2> QED
    BY <2>4, <2>5, <2>6, <2>7 DEF TotalsDrawn
<1>5. TotalsCarried'
  BY DEF WholeInv, TotalsCarried
<1> QED
  BY <1>1, <1>4, <1>5 DEF WholeInv

\* The positions are read, and the totals drawn.
LEMMA DrawHolds ==
  ASSUME PriceInv, SectionInv, WholeInv, LoadOpenPositions
  PROVE  TotalsDrawn' /\ TotalsCarried'
<1>1. UNCHANGED vars /\ section.read \in SUBSET fills
  BY DEF LoadOpenPositions, SectionInv, FillsRead
<1>2. UNCHANGED <<positions, audit>>
  BY <1>1 DEF vars
<1>3. PICK lines : lines = [p \in positions |-> PositionMaxLoss(p, section.read)]
  OBVIOUS
<1>4. /\ section'.book = positions /\ section'.lines = lines
      /\ section'.openMaxLoss = OpenMaxLoss(lines)
      /\ section'.byUnderlying = RiskBy(lines, "underlying")
      /\ section'.byExpiration = RiskBy(lines, "expiration")
      /\ {"book", "lines", "openMaxLoss", "byUnderlying", "byExpiration"} \subseteq DOMAIN section'
  BY <1>3 DEF LoadOpenPositions
<1>5. \A p \in positions : RiskOf(p)' = RiskOf(p)
  BY <1>1, RiskStays DEF WholeInv
<1>6. \A p \in positions : lines[p] # None => lines[p] = RiskOf(p)
  BY <1>1, <1>3, LineIsRisk DEF WholeInv
<1>7. /\ OpenMaxLoss(lines) = OpenMaxLoss(section'.lines)
      /\ RiskBy(lines, "underlying") = RiskBy(section'.lines, "underlying")
      /\ RiskBy(lines, "expiration") = RiskBy(section'.lines, "expiration")
  BY <1>4
<1> QED
  BY <1>2, <1>3, <1>4, <1>5, <1>6, <1>7 DEF TotalsDrawn, TotalsCarried

\* The advice is added to it.
LEMMA AdviceKeepsTotals ==
  ASSUME PriceInv, SectionInv, WholeInv, LoadExits
  PROVE  TotalsDrawn' /\ TotalsCarried'
<1>1. UNCHANGED vars /\ section.step = "exits"
  BY DEF LoadExits
<1>2. UNCHANGED <<positions, audit>>
  BY <1>1 DEF vars
<1>3. section' = [f \in DOMAIN section \cup {"advice"} |->
                    IF f = "advice" THEN ExitsOn(section.date)
                    ELSE IF f = "step" THEN "done" ELSE section[f]]
  BY DEF LoadExits
<1>4. /\ section'.book = section.book /\ section'.lines = section.lines
      /\ section'.openMaxLoss = section.openMaxLoss
      /\ section'.byUnderlying = section.byUnderlying
      /\ section'.byExpiration = section.byExpiration
  BY <1>1, <1>3 DEF WholeInv, TotalsCarried
<1>5. section'.step = "done"
  <2>1. "step" \in DOMAIN section
    BY <1>1 DEF SectionInv, LinesCover
  <2> QED
    BY <1>3, <2>1
<1>6. \A p \in positions : RiskOf(p)' = RiskOf(p)
  BY <1>1, RiskStays DEF WholeInv
<1> QED
  BY <1>1, <1>2, <1>4, <1>5, <1>6 DEF WholeInv, TotalsDrawn, TotalsCarried

\* All of it is inductive.
LEMMA TotalsInductive ==
  PriceInv /\ SectionInv /\ WholeInv /\ [ReportNext]_reportVars => WholeInv'
<1> SUFFICES ASSUME PriceInv, SectionInv, WholeInv, [ReportNext]_reportVars PROVE WholeInv'
  OBVIOUS
<1>1. CASE Trade \/ UNCHANGED reportVars
  <2>1. [Next]_vars /\ section' = section
    BY <1>1 DEF Trade, reportVars
  <2> QED
    BY <2>1, TotalsStay
<1>2. ASSUME UNCHANGED vars PROVE SaleInv'
  BY <1>2, SalesInductive DEF WholeInv
<1>3. CASE (\E date \in Dates : BeginReport(date)) \/ LoadFills
  <2>1. section'.step \in {"fills", "positions"} /\ UNCHANGED vars
    BY <1>3 DEF BeginReport, LoadFills
  <2> QED
    BY <1>2, <2>1 DEF WholeInv, TotalsDrawn, TotalsCarried
<1>4. CASE LoadOpenPositions
  <2>1. UNCHANGED vars
    BY <1>4 DEF LoadOpenPositions
  <2> QED
    BY <1>2, <1>4, <2>1, DrawHolds DEF WholeInv
<1>5. CASE LoadExits
  <2>1. UNCHANGED vars
    BY <1>5 DEF LoadExits
  <2> QED
    BY <1>2, <1>5, <2>1, AdviceKeepsTotals DEF WholeInv
<1> QED
  BY <1>1, <1>3, <1>4, <1>5 DEF ReportNext

\* At first nothing is drawn.
LEMMA InitTotals == ReportInit => WholeInv
<1> SUFFICES ASSUME ReportInit PROVE WholeInv
  OBVIOUS
<1>1. SaleInv /\ section.step = "none"
  BY InitSales DEF ReportInit, NoSection
<1> QED
  BY <1>1 DEF WholeInv, TotalsDrawn, TotalsCarried

\* What is stated of some lines of the book is what these positions can lose, and the
\* others only add to that.
LEMMA LinesAddUp ==
  ASSUME PriceInv, WholeInv, section.step = "done",
         NEW S \in SUBSET section.book, NEW T \in SUBSET S,
         \A p \in T : section.lines[p] # None
  PROVE  /\ Total(section.lines, T) = OpenLoss(T)
         /\ OpenLoss(T) <= OpenLoss(S)
<1>1. S \subseteq positions /\ T \subseteq positions
  BY DEF WholeInv, TotalsDrawn
<1>2. \A p \in T : section.lines[p] = RiskOf(p)
  BY DEF WholeInv, TotalsDrawn
<1>3. Total(section.lines, T) = OpenLoss(T)
  BY <1>1, <1>2, LossAdds DEF WholeInv, Total
<1>4. PICK f : f = [p \in S |-> RiskOf(p)]
  OBVIOUS
<1>5. \A p \in S : f[p] = RiskOf(p)
  BY <1>4
<1>6. OpenLoss(T) <= OpenLoss(S)
  BY <1>1, <1>5, LossAdds DEF WholeInv
<1> QED
  BY <1>3, <1>6

\* A report that states an open max loss states that of every position open when it read
\* them, and splits it without a rest; a group never shows more risk than it has, priced
\* or not.
THEOREM StatedRiskIsWhole == ReportSpec => []RiskStatedIsWhole
<1>1. PriceInv /\ WholeInv => RiskStatedIsWhole
  <2> SUFFICES ASSUME PriceInv, WholeInv, section.step = "done" PROVE RiskStatedIsWhole
    BY DEF RiskStatedIsWhole, Done
  <2>1. PICK book, lines : book = section.book /\ lines = section.lines
    OBVIOUS
  <2>2. /\ DOMAIN lines = book /\ section.openMaxLoss = OpenMaxLoss(lines)
        /\ section.byUnderlying = RiskBy(lines, "underlying")
        /\ section.byExpiration = RiskBy(lines, "expiration")
    BY <2>1 DEF WholeInv, TotalsDrawn
  <2>3. PICK priced : priced = {p \in book : lines[p] # None}
    OBVIOUS
  <2>4. PricedLines(lines) = priced
    BY <2>2, <2>3 DEF PricedLines
  <2>5. \A S \in SUBSET book : \A T \in SUBSET S : T \subseteq priced =>
          Total(lines, T) = OpenLoss(T) /\ OpenLoss(T) <= OpenLoss(S)
    BY <2>1, <2>3, LinesAddUp
  <2>6. ASSUME section.openMaxLoss # None
        PROVE  priced = book /\ section.openMaxLoss = OpenLoss(book)
    BY <2>2, <2>4, <2>5, <2>6 DEF OpenMaxLoss
  <2>7. ASSUME NEW key, NEW k \in {p[key] : p \in priced}
        PROVE  RiskBy(lines, key)[k] = Total(lines, {p \in priced : p[key] = k})
    BY <2>4, <2>7 DEF RiskBy
  <2>8. ASSUME NEW key, NEW k \in DOMAIN RiskBy(lines, key)
        PROVE  RiskBy(lines, key)[k] <= OpenLoss({p \in book : p[key] = k})
    <3> DEFINE T == {p \in priced : p[key] = k}
               S == {p \in book : p[key] = k}
    <3>1. k \in {p[key] : p \in priced}
      BY <2>4, <2>8 DEF RiskBy
    <3>2. RiskBy(lines, key)[k] = Total(lines, T)
      BY <2>7, <3>1
    <3>3. S \subseteq book /\ T \subseteq S /\ T \subseteq priced
      BY <2>3
    <3> HIDE DEF S, T
    <3>4. Total(lines, T) = OpenLoss(T) /\ OpenLoss(T) <= OpenLoss(S)
      BY <2>5, <3>3
    <3>5. RiskBy(lines, key)[k] <= OpenLoss(S)
      BY <3>2, <3>4
    <3> QED
      BY <3>5 DEF S
  <2>9. ASSUME section.openMaxLoss # None, NEW key, NEW p \in book
        PROVE  RiskBy(lines, key)[p[key]] = OpenLoss({q \in book : q[key] = p[key]})
    <3>1. priced = book
      BY <2>6, <2>9
    <3>2. PICK k : k = p[key]
      OBVIOUS
    <3> DEFINE T == {q \in book : q[key] = k}
    <3>3. k \in {q[key] : q \in priced}
      BY <3>1, <3>2
    <3>4. RiskBy(lines, key)[k] = Total(lines, T)
      <4>1. RiskBy(lines, key)[k] = Total(lines, {q \in priced : q[key] = k})
        BY <2>7, <3>3
      <4>2. {q \in priced : q[key] = k} = T
        BY <3>1
      <4> QED
        BY <4>1, <4>2, Zenon
    <3> HIDE DEF T
    <3>5. T \in SUBSET book
      BY DEF T
    <3>6. Total(lines, T) = OpenLoss(T)
      BY <2>5, <3>1, <3>5
    <3>7. RiskBy(lines, key)[k] = OpenLoss(T)
      BY <3>4, <3>6
    <3> QED
      BY <3>2, <3>7 DEF T
  <2>10. ASSUME section.openMaxLoss # None, NEW p \in book
         PROVE  /\ RiskBy(lines, "underlying")[p.underlying]
                     = OpenLoss({q \in book : q.underlying = p.underlying})
                /\ RiskBy(lines, "expiration")[p.expiration]
                     = OpenLoss({q \in book : q.expiration = p.expiration})
    BY <2>9, <2>10
  <2>11. section.openMaxLoss # None =>
           /\ section.openMaxLoss = OpenLoss(section.book)
           /\ \A p \in section.book :
                /\ section.byUnderlying[p.underlying]
                     = OpenLoss({q \in section.book : q.underlying = p.underlying})
                /\ section.byExpiration[p.expiration]
                     = OpenLoss({q \in section.book : q.expiration = p.expiration})
    BY <2>1, <2>2, <2>6, <2>10
  <2>12. \A u \in DOMAIN section.byUnderlying :
           section.byUnderlying[u] <= OpenLoss({p \in section.book : p.underlying = u})
    BY <2>1, <2>2, <2>8
  <2>13. \A x \in DOMAIN section.byExpiration :
           section.byExpiration[x] <= OpenLoss({p \in section.book : p.expiration = x})
    BY <2>1, <2>2, <2>8
  <2> QED
    BY <2>11, <2>12, <2>13 DEF RiskStatedIsWhole, Done
<1> QED
  BY <1>1, InitReports, InitTotals, ReportInductive, TotalsInductive, PTL DEF ReportSpec
=============================================================================
