---------------------------- MODULE RunLifecycle ----------------------------
(***************************************************************************)
(* What the durable inspection queue promises about its runs, whatever     *)
(* threads, crashes and database errors do: a run is submitted once, every *)
(* attempt starts from "queued" and is counted, an attempt that does not   *)
(* succeed goes back to "queued" only while attempts are left, the two     *)
(* terminal states are never left, and a run changes alone, except that a  *)
(* restart interrupts every attempt at once.  InspectionQueue implements   *)
(* it.                                                                     *)
(***************************************************************************)
EXTENDS Naturals

CONSTANTS
    Runs,           \* the runs
    MaxAttempts     \* how often each may be tried

VARIABLES
    phase,      \* phase[r]: the life of run r, "absent" until it is submitted
    tries       \* tries[r]: attempts of r begun so far

vars == <<phase, tries>>

Init ==
    /\ phase = [r \in Runs |-> "absent"]
    /\ tries = [r \in Runs |-> 0]

Submit(r) ==
    /\ phase[r] = "absent"
    /\ phase' = [phase EXCEPT ![r] = "queued"]
    /\ UNCHANGED tries

Begin(r) ==
    /\ phase[r] = "queued"
    /\ tries[r] < MaxAttempts
    /\ phase' = [phase EXCEPT ![r] = "running"]
    /\ tries' = [tries EXCEPT ![r] = @ + 1]

Succeed(r) ==
    /\ phase[r] = "running"
    /\ phase' = [phase EXCEPT ![r] = "success"]
    /\ UNCHANGED tries

\* What an attempt that did not succeed leaves behind.
Unsuccessful(r) == IF tries[r] < MaxAttempts THEN "queued" ELSE "failed"

Fail(r) ==
    /\ phase[r] = "running"
    /\ phase' = [phase EXCEPT ![r] = Unsuccessful(r)]
    /\ UNCHANGED tries

Interrupt ==
    /\ phase' = [r \in Runs |->
                    IF phase[r] = "running" THEN Unsuccessful(r) ELSE phase[r]]
    /\ UNCHANGED tries

Next ==
    \/ \E r \in Runs : Submit(r) \/ Begin(r) \/ Succeed(r) \/ Fail(r)
    \/ Interrupt

Spec == Init /\ [][Next]_vars
=============================================================================
