-------------------------- MODULE MCInspectionQueue --------------------------
(* Small instances of InspectionQueue for TLC.                             *)
EXTENDS InspectionQueue, TLC

Symmetry == Permutations(Workers) \cup Permutations(Enqueuers)
=============================================================================
