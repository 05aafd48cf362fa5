-------------------------- MODULE MCPilotOperations --------------------------
(* Small instances of PilotOperations for TLC. *)
EXTENDS PilotRefinement, PilotFold, TLC

CleanFill ==
  [manual |-> TRUE, quantity |-> 1, order |-> "LIMIT", kill |-> "GREEN",
   critical |-> FALSE, risk |-> FALSE, dryRun |-> FALSE]

MarketFill == [CleanFill EXCEPT !.order = "MARKET"]
RiskFill == [CleanFill EXCEPT !.risk = TRUE]
RedFill == [CleanFill EXCEPT !.kill = "RED", !.critical = TRUE]
DryFill == [CleanFill EXCEPT !.dryRun = TRUE]

CleanOrHard == {CleanFill, RiskFill}
HardOnly == {RiskFill}
SoftHardOrDry == {MarketFill, RedFill, DryFill}

OperatorOnly == {"OPERATOR_STOP"}
OperatorOrHard == {"OPERATOR_STOP", "EMERGENCY_SHUTDOWN_ACTIVE"}

\* Pilots and processes are interchangeable: no property names one of them.
Symmetry == Permutations(Pilots) \cup Permutations(Procs)
=============================================================================
