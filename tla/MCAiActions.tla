------------------------------ MODULE MCAiActions ------------------------------
(* Small instances of AiActions for TLC.                                   *)
EXTENDS AiActions, TLC

Symmetry == Permutations(Cards) \cup Permutations(Threads)
=============================================================================
