-------------------------- MODULE MCResourceConfig --------------------------
(* Instances of ResourceConfig for TLC. *)
EXTENDS ResourceConfig, TLC

CONSTANTS v1, v2 \* the values of a component

Anything == Values \cup {None}

\* A plan that names only the hardware.
NamesHardware(v) == [hardware |-> {v}, disk |-> Anything]

NoPlans == {}
EitherHardware == {NamesHardware(v1), NamesHardware(v2)}

ValuesAreEqual == Permutations({v1, v2})
=============================================================================
