---------------------------- MODULE MCReleaseGate ----------------------------
(* Small instances of ReleaseGate for TLC. *)
EXTENDS ReleaseGate, TLC

AllGiven == {[asserted |-> TRUE, acknowledged |-> TRUE]}

Symmetry == Permutations(Pilots) \cup Permutations(Versions)
=============================================================================
