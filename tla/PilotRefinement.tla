--------------------------- MODULE PilotRefinement ---------------------------
(***************************************************************************)
(* The log of PilotOperations read as the states of PilotLifecycle.        *)
(***************************************************************************)
EXTENDS PilotOperations

StatusOf(p) ==
  IF ~Exists(log, p) THEN "ABSENT"
  ELSE IF Active(log, p) THEN "ACTIVE"
  ELSE IF \E i \in HardStops(p) : IsStopRow(log, i, p) THEN "HARD_STOPPED"
  ELSE "STOPPED"

ReviewedStops ==
  {p \in Pilots : \E i \in HardStops(p) :
     IsStopRow(log, i, p) /\ ReviewedSince(log, p, log[i].at)}

Lifecycles == INSTANCE PilotLifecycle WITH
  status <- [p \in Pilots |-> StatusOf(p)],
  reviewed <- ReviewedStops,
  onFile <- {p \in Pilots : RowsOf(log, p, {"RESET_REVIEW"}) # {}},
  done <- Len(log)

\* One command at a time, every timestamp the moment of the command: each row that
\* is inserted takes effect as the command reported.  A row that sorts behind an
\* older one would count a success and change nothing.
ImplementsLifecycle == Lifecycles!Spec
=============================================================================
