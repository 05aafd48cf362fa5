--------------------------- MODULE MCPilotReports ---------------------------
(* Small instances of PilotReports for TLC. *)
EXTENDS PilotReports, TLC

CleanFill ==
  [manual |-> TRUE, quantity |-> 1, order |-> "LIMIT", kill |-> "GREEN",
   critical |-> FALSE, risk |-> FALSE, dryRun |-> FALSE]

\* A rehearsal of a fill that should not have been made: two violations, which stop
\* the session, and no trade.
RedDryFill == [CleanFill EXCEPT !.kill = "RED", !.critical = TRUE, !.dryRun = TRUE]

CleanOrRedDry == {CleanFill, RedDryFill}
OperatorOnly == {"OPERATOR_STOP"}
Symmetry == Permutations(Pilots)
=============================================================================
