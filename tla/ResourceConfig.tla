---------------------------- MODULE ResourceConfig ----------------------------
(***************************************************************************)
(* The accepted resource configuration of one server: hardware monitor and *)
(* inspection workers compare what they collect with the baseline, report  *)
(* deviations as events, or accept them by a registered plan; people       *)
(* decide events and edit plans (resource_audit.py, models.py, app.py).    *)
(*                                                                         *)
(* Every database call is an action of its own.  evaluate_resource_        *)
(* configuration and the decision API run in several threads at once and   *)
(* hold no lock, so their calls interleave.                                *)
(***************************************************************************)
EXTENDS Naturals, FiniteSets

CONSTANTS
    HardwareThreads, \* threads that run record_server_hardware
    DiskThreads,     \* queue workers that run audit_server_disk
    People,          \* request threads of the decision API
    Values,          \* what a component of the configuration can be
    None,            \* a component that is not known
    Expectations,    \* what a plan can accept, component by component
    MaxEvents,       \* bound: rows of resource_change_events
    MaxPlans,        \* bound: rows of resource_change_plans
    MaxChanges,      \* bound: changes of the real configuration
    MaxTurns,        \* bound: plans and changes of the configuration together
    MaxResets,       \* bound: changes of the connection target
    MaxAborts        \* bound: evaluations and requests that end in the middle

Evaluators == HardwareThreads \cup DiskThreads
Threads == Evaluators \cup People
Components == {"hardware", "disk"}
Payload == [Components -> Values \cup {None}]
Nothing == [c \in Components |-> None]
Events == 1 .. MaxEvents
Plans == 1 .. MaxPlans

ASSUME ConfigAssumption ==
    /\ None \notin Values
    /\ Expectations \subseteq [Components -> SUBSET (Values \cup {None})]
    /\ {MaxEvents, MaxPlans, MaxChanges, MaxTurns, MaxResets, MaxAborts} \subseteq Nat
    /\ HardwareThreads \cap DiskThreads = {}
    /\ Evaluators \cap People = {}

VARIABLES
    real,       \* configuration of the machine the server row points to
    machine,    \* how often the row was pointed to another machine
    recorded,   \* latest saved hardware record and disk snapshot
    baseline,   \* resource_baselines.payload, Nothing when there is no row
    baselineOf, \* the machine the baseline was taken from
    events,     \* resource_change_events: status, baseline, observed, machine
    plans,      \* resource_change_plans: status, expectation, window
    thread,     \* where a thread is and its local variables
    changes,    \* changes of the real configuration so far
    aborts      \* evaluations and requests cut short so far

vars == <<real, machine, recorded, baseline, baselineOf, events, plans,
          thread, changes, aborts>>

OpenStatuses == {"pending", "confirmed_abnormal", "recovered_pending"}
Closed == {"confirmed_normal", "resolved"}
PlanFinal == {"matched", "cancelled", "expired"}

\* The decision of a person and the status it gives an event.
StatusOf == [normal |-> "confirmed_normal", abnormal |-> "confirmed_abnormal",
             resolved |-> "resolved"]

EventRow == [status : OpenStatuses \cup Closed \cup {"absent", "deleted"},
             base : Payload, seen : Payload, machine : 0 .. MaxResets]

PlanRow == [status : {"absent", "planned", "deleted"} \cup PlanFinal,
            accepts : [Components -> SUBSET (Values \cup {None})],
            window : {"future", "open", "past"}]

NoEvent == [status |-> "absent", base |-> Nothing, seen |-> Nothing, machine |-> 0]
NoPlan == [status |-> "absent", accepts |-> [c \in Components |-> {}],
           window |-> "future"]

\* The call a thread makes next.
Places == {"idle", "recording", "evaluating", "initial", "augmenting",
           "comparing", "recovering", "planning", "selecting", "deciding",
           "accepting", "matching", "reporting", "upserting", "snapshot"}

Local == [pc : Places, current : Payload, base : Payload, event : Events \cup {0},
          plan : Plans \cup {0}, decision : DOMAIN StatusOf,
          machine : 0 .. MaxResets]

IdleThread == [pc |-> "idle", current |-> Nothing, base |-> Nothing, event |-> 0,
               plan |-> 0, decision |-> "normal", machine |-> 0]

TypeOK ==
    /\ real \in [Components -> Values]
    /\ machine \in 0 .. MaxResets
    /\ recorded \in Payload
    /\ baseline \in Payload
    /\ baselineOf \in 0 .. MaxResets
    /\ events \in [Events -> EventRow]
    /\ plans \in [Plans -> PlanRow]
    /\ thread \in [Threads -> Local]
    /\ changes \in 0 .. MaxChanges
    /\ aborts \in 0 .. MaxAborts

Init ==
    /\ real \in [Components -> Values]
    /\ machine = 0
    /\ recorded = Nothing
    /\ baseline = Nothing
    /\ baselineOf = 0
    /\ events = [e \in Events |-> NoEvent]
    /\ plans = [p \in Plans |-> NoPlan]
    /\ thread = [t \in Threads |-> IdleThread]
    /\ changes = 0
    /\ aborts = 0

-----------------------------------------------------------------------------
(* Operators of resource_audit.py and the SELECTs of models.py.            *)

\* compare_resource_payload reports something: a component known on both
\* sides has another value.
Differs(a, b) == \E c \in Components :
                    a[c] # None /\ b[c] # None /\ a[c] # b[c]

\* The baseline completed with the components it lacks.
Augmented(base, current) ==
    [c \in Components |-> IF base[c] = None THEN current[c] ELSE base[c]]

\* Slip: what is not known never matches.
MatchesOnlyKnown(accepts, current) ==
    \A c \in Components : current[c] \in accepts[c] \ {None}

\* payload_matches: a field the plan leaves out, and a disk_expectation of
\* None, accept everything.
Matches(accepts, current) == \A c \in Components : current[c] \in accepts[c]

\* ORDER BY id DESC LIMIT 1: the newest row, 0 when there is none.
Newest(ids) == IF ids = {} THEN {0} ELSE {i \in ids : \A j \in ids : j <= i}

OpenEvents == {e \in Events : events[e].status \in OpenStatuses}
OpenPlans == {p \in Plans : plans[p].status = "planned" /\ plans[p].window = "open"}

\* AUTOINCREMENT: the ids of deleted rows are not used again.
FreeEvents == {e \in Events : events[e].status = "absent"}
FreePlans == {p \in Plans : plans[p].status = "absent"}
First(ids) == {i \in ids : \A j \in ids : i <= j}

\* The common bound leaves room for one more plan or change.
InTurn == changes + Cardinality(Plans \ FreePlans) < MaxTurns

At(t, pc) == thread[t].pc = pc
Goto(t, pc) == thread' = [thread EXCEPT ![t].pc = pc]
Current(t) == thread[t].current

\* One component of a configuration.
Only(c, payload) == [Nothing EXCEPT ![c] = payload[c]]

\* What a thread collects from the machine itself.
Source(t) == IF t \in DiskThreads THEN "disk" ELSE "hardware"

\* evaluate_resource_configuration returns; audit_server_disk goes on to save
\* its snapshot.
Return(t) ==
    thread' = [thread EXCEPT ![t] =
        IF t \in DiskThreads
        THEN [IdleThread EXCEPT !.pc = "snapshot", !.current = Only("disk", Current(t))]
        ELSE IdleThread]

\* The upsert of a baseline row.
SaveBaseline(payload, of) ==
    /\ baseline' = payload
    /\ baselineOf' = of

-----------------------------------------------------------------------------
(* Collecting: refresh_server_hardware and audit_server_disk.              *)

Collect(t) ==
    /\ At(t, "idle")
    /\ thread' = [thread EXCEPT ![t] = [IdleThread EXCEPT !.pc = "recording",
           !.current = Only(Source(t), real), !.machine = machine]]
    /\ UNCHANGED <<real, machine, recorded, baseline, baselineOf, events, plans,
                   changes, aborts>>

\* save_server_hardware, then both components are the latest on record.
RecordHardware(t) ==
    /\ t \in HardwareThreads
    /\ At(t, "recording")
    /\ recorded' = [recorded EXCEPT !["hardware"] = Current(t)["hardware"]]
    /\ thread' = [thread EXCEPT ![t].pc = "evaluating", ![t].current = recorded']
    /\ UNCHANGED <<real, machine, baseline, baselineOf, events, plans, changes, aborts>>

\* get_server_hardware: the hardware is the latest on record.
AddHardware(t) ==
    /\ t \in DiskThreads
    /\ At(t, "recording")
    /\ thread' = [thread EXCEPT ![t].pc = "evaluating",
                                ![t].current["hardware"] = recorded["hardware"]]
    /\ UNCHANGED <<real, machine, recorded, baseline, baselineOf, events, plans,
                   changes, aborts>>

SaveSnapshot(t) ==
    /\ At(t, "snapshot")
    /\ recorded' = [recorded EXCEPT !["disk"] = Current(t)["disk"]]
    /\ thread' = [thread EXCEPT ![t] = IdleThread]
    /\ UNCHANGED <<real, machine, baseline, baselineOf, events, plans, changes, aborts>>

-----------------------------------------------------------------------------
(* evaluate_resource_configuration; a collected payload is never empty.    *)

NoBaseline(t) ==
    /\ At(t, "evaluating")
    /\ baseline = Nothing
    /\ Goto(t, "initial")
    /\ UNCHANGED <<real, machine, recorded, baseline, baselineOf, events, plans,
                   changes, aborts>>

SaveInitial(t) ==
    /\ At(t, "initial")
    /\ SaveBaseline(Current(t), thread[t].machine)
    /\ Return(t)
    /\ UNCHANGED <<real, machine, recorded, events, plans, changes, aborts>>

ReadBaseline(t) ==
    /\ At(t, "evaluating")
    /\ baseline # Nothing
    /\ LET complete == Augmented(baseline, Current(t))
       IN  thread' = [thread EXCEPT ![t].base = complete, ![t].pc =
               IF complete = baseline THEN "comparing" ELSE "augmenting"]
    /\ UNCHANGED <<real, machine, recorded, baseline, baselineOf, events, plans,
                   changes, aborts>>

SaveAugmented(t) ==
    /\ At(t, "augmenting")
    /\ SaveBaseline(thread[t].base, thread[t].machine)
    /\ Goto(t, "comparing")
    /\ UNCHANGED <<real, machine, recorded, events, plans, changes, aborts>>

\* compare_resource_payload and get_open_resource_change_event.
Compare(t) ==
    /\ At(t, "comparing")
    /\ \E active \in Newest(OpenEvents) :
          IF Differs(thread[t].base, Current(t))
          THEN thread' = [thread EXCEPT ![t].pc = "planning", ![t].event = active]
          ELSE IF active # 0
          THEN thread' = [thread EXCEPT ![t].pc = "recovering", ![t].event = active]
          ELSE Return(t)
    /\ UNCHANGED <<real, machine, recorded, baseline, baselineOf, events, plans,
                   changes, aborts>>

SetEvent(e, status) == events' = [events EXCEPT ![e].status = status]

\* Slip: the UPDATE has only WHERE id=?.
RecoverableOnceRead(e) == events[e].status # "deleted"

\* Slip: events a person has judged abnormal are not marked.
RecoverablePending(e) == events[e].status = "pending"

\* mark_resource_event_recovered: the UPDATE asks for the status once more.
Recoverable(e) == events[e].status \in {"pending", "confirmed_abnormal"}

MarkRecovered(t) ==
    /\ At(t, "recovering")
    /\ LET e == thread[t].event
       IN  IF Recoverable(e) THEN SetEvent(e, "recovered_pending")
                             ELSE UNCHANGED events
    /\ Return(t)
    /\ UNCHANGED <<real, machine, recorded, baseline, baselineOf, plans, changes,
                   aborts>>

\* get_active_resource_plan expires all plans that are over, then the newest
\* plan in its window is the only one that is looked at.
Overdue(p) == plans[p].status = "planned" /\ plans[p].window = "past"

GetActivePlan(t) ==
    /\ At(t, "planning")
    /\ plans' = [p \in Plans |->
           IF Overdue(p) THEN [plans[p] EXCEPT !.status = "expired"] ELSE plans[p]]
    /\ \E p \in Newest(OpenPlans) :
          IF p # 0 /\ Matches(plans[p].accepts, Current(t))
          THEN thread' = [thread EXCEPT ![t].plan = p, ![t].pc =
                  IF thread[t].event = 0 THEN "accepting" ELSE "selecting"]
          ELSE Goto(t, "reporting")
    /\ UNCHANGED <<real, machine, recorded, baseline, baselineOf, events, changes,
                   aborts>>

\* decide_resource_change_event, for a plan and for a person: SELECT and test.
SelectToDecide(t) ==
    /\ At(t, "selecting")
    /\ IF thread[t].event \in OpenEvents THEN Goto(t, "deciding")
       ELSE IF t \in People THEN thread' = [thread EXCEPT ![t] = IdleThread]
       ELSE Goto(t, "accepting")
    /\ UNCHANGED <<real, machine, recorded, baseline, baselineOf, events, plans,
                   changes, aborts>>

\* decide_resource_change_event: UPDATE ... WHERE id=? and the new baseline, in
\* one transaction.  A row deleted in between is not updated; the baseline is
\* still taken from what was selected.
WriteDecision(t) ==
    /\ At(t, "deciding")
    /\ LET e == thread[t].event
           d == thread[t].decision
       IN  /\ IF events[e].status = "deleted" THEN UNCHANGED events
                                              ELSE SetEvent(e, StatusOf[d])
           /\ IF d = "normal" THEN SaveBaseline(events[e].seen, events[e].machine)
                              ELSE UNCHANGED <<baseline, baselineOf>>
    /\ IF t \in People THEN thread' = [thread EXCEPT ![t] = IdleThread]
                       ELSE Goto(t, "accepting")
    /\ UNCHANGED <<real, machine, recorded, plans, changes, aborts>>

AcceptPlanned(t) ==
    /\ At(t, "accepting")
    /\ SaveBaseline(Current(t), thread[t].machine)
    /\ Goto(t, "matching")
    /\ UNCHANGED <<real, machine, recorded, events, plans, changes, aborts>>

\* UPDATE resource_change_plans ... WHERE id=? AND status='planned'.
FinishPlan(p, status) ==
    plans' = IF plans[p].status = "planned"
             THEN [plans EXCEPT ![p].status = status] ELSE plans

MatchPlan(t) ==
    /\ At(t, "matching")
    /\ FinishPlan(thread[t].plan, "matched")
    /\ Return(t)
    /\ UNCHANGED <<real, machine, recorded, baseline, baselineOf, events, changes,
                   aborts>>

\* upsert_resource_change_event: its SELECT and the comparison of fingerprints.
SelectEvent(t) ==
    /\ At(t, "reporting")
    /\ \E e \in Newest(OpenEvents) :
          thread' = [thread EXCEPT ![t].pc = "upserting", ![t].event =
              IF e # 0 /\ events[e].seen = Current(t) THEN e ELSE 0]
    /\ UNCHANGED <<real, machine, recorded, baseline, baselineOf, events, plans,
                   changes, aborts>>

\* Slip: a change that is seen again leaves the event as it is.
SeenAgainUnchanged(status) == status

\* What an event that is seen again becomes.
SeenAgain(status) == IF status = "recovered_pending" THEN "pending" ELSE status

UpdateEvent(t) ==
    /\ At(t, "upserting")
    /\ thread[t].event # 0
    /\ LET e == thread[t].event
       IN  events' = IF events[e].status = "deleted" THEN events
                     ELSE [events EXCEPT ![e].status = SeenAgain(@),
                                         ![e].seen = Current(t),
                                         ![e].machine = thread[t].machine]
    /\ Return(t)
    /\ UNCHANGED <<real, machine, recorded, baseline, baselineOf, plans, changes,
                   aborts>>

\* Slip: the baseline is read once more for the row.
InsertFreshBaseline(t) ==
    /\ At(t, "upserting")
    /\ thread[t].event = 0
    /\ \E e \in First(FreeEvents) : events' = [events EXCEPT ![e] =
           [status |-> "pending", base |-> baseline, seen |-> Current(t),
            machine |-> thread[t].machine]]
    /\ Return(t)
    /\ UNCHANGED <<real, machine, recorded, baseline, baselineOf, plans, changes,
                   aborts>>

InsertEvent(t) ==
    /\ At(t, "upserting")
    /\ thread[t].event = 0
    /\ \E e \in First(FreeEvents) : events' = [events EXCEPT ![e] =
           [status |-> "pending", base |-> thread[t].base, seen |-> Current(t),
            machine |-> thread[t].machine]]
    /\ Return(t)
    /\ UNCHANGED <<real, machine, recorded, baseline, baselineOf, plans, changes,
                   aborts>>

\* The bound on rows: an insert beyond it is taken to raise.
InsertFails(t) ==
    /\ At(t, "upserting")
    /\ thread[t].event = 0
    /\ FreeEvents = {}
    /\ thread' = [thread EXCEPT ![t] = IdleThread]
    /\ UNCHANGED <<real, machine, recorded, baseline, baselineOf, events, plans,
                   changes, aborts>>

-----------------------------------------------------------------------------
(* The people at the resource change page.                                 *)

\* api_decide_resource_event up to its call of decide_resource_change_event.  A
\* request for an event that is closed already has no effect and is left out.
Decide(u, e, decision) ==
    /\ At(u, "idle")
    /\ e \in OpenEvents
    /\ decision = "resolved" => events[e].status = "recovered_pending"
    /\ thread' = [thread EXCEPT ![u] = [IdleThread EXCEPT
           !.pc = "selecting", !.event = e, !.decision = decision]]
    /\ UNCHANGED <<real, machine, recorded, baseline, baselineOf, events, plans,
                   changes, aborts>>

CreatePlan(accepts, window) ==
    /\ InTurn
    /\ \E p \in First(FreePlans) : plans' = [plans EXCEPT ![p] =
           [status |-> "planned", accepts |-> accepts, window |-> window]]
    /\ UNCHANGED <<real, machine, recorded, baseline, baselineOf, events, thread,
                   changes, aborts>>

\* UPDATE resource_change_plans ... WHERE id=? AND status='planned'.
Editable(p) == plans[p].status = "planned"

UpdatePlan(p, accepts, window) ==
    /\ Editable(p)
    /\ plans' = [plans EXCEPT ![p].accepts = accepts, ![p].window = window]
    /\ UNCHANGED <<real, machine, recorded, baseline, baselineOf, events, thread,
                   changes, aborts>>

CancelPlan(p) ==
    /\ plans[p].status = "planned"
    /\ FinishPlan(p, "cancelled")
    /\ UNCHANGED <<real, machine, recorded, baseline, baselineOf, events, thread,
                   changes, aborts>>

\* expire_resource_change_plans, from the list of plans.
ExpirePlans ==
    /\ \E p \in Plans : Overdue(p)
    /\ plans' = [p \in Plans |->
           IF Overdue(p) THEN [plans[p] EXCEPT !.status = "expired"] ELSE plans[p]]
    /\ UNCHANGED <<real, machine, recorded, baseline, baselineOf, events, thread,
                   changes, aborts>>

-----------------------------------------------------------------------------
(* The world: time, the machine, errors.                                   *)

Elapse(p) ==
    /\ plans[p].status = "planned"
    /\ plans[p].window # "past"
    /\ plans' = [plans EXCEPT ![p].window = IF @ = "future" THEN "open" ELSE "past"]
    /\ UNCHANGED <<real, machine, recorded, baseline, baselineOf, events, thread,
                   changes, aborts>>

Reconfigure(c, v) ==
    /\ changes < MaxChanges /\ InTurn
    /\ real[c] # v
    /\ real' = [real EXCEPT ![c] = v]
    /\ changes' = changes + 1
    /\ UNCHANGED <<machine, recorded, baseline, baselineOf, events, plans, thread,
                   aborts>>

\* The server is edited to point to another machine: update_server and
\* reset_resource_configuration, which deletes the rows of the old one.
ChangeTarget ==
    /\ machine < MaxResets
    /\ machine' = machine + 1
    /\ real' \in [Components -> Values]
    /\ recorded' = Nothing
    /\ baseline' = Nothing
    /\ baselineOf' = machine'
    /\ events' = [e \in Events |-> IF events[e].status = "absent" THEN events[e]
                                   ELSE [events[e] EXCEPT !.status = "deleted"]]
    /\ plans' = [p \in Plans |-> IF plans[p].status = "absent" THEN plans[p]
                                 ELSE [NoPlan EXCEPT !.status = "deleted"]]
    /\ UNCHANGED <<thread, changes, aborts>>

\* The assistant registers a server that exists already under a new port or
\* user: only the hardware record is deleted.
ChangeTargetByAssistant ==
    /\ machine < MaxResets
    /\ machine' = machine + 1
    /\ real' \in [Components -> Values]
    /\ recorded' = [recorded EXCEPT !["hardware"] = None]
    /\ UNCHANGED <<baseline, baselineOf, events, plans, thread, changes, aborts>>

\* A database call raises: the evaluation ends and the snapshot is not saved,
\* a request is answered with an error.
Abort(t) ==
    /\ ~At(t, "idle")
    /\ aborts < MaxAborts
    /\ aborts' = aborts + 1
    /\ thread' = [thread EXCEPT ![t] = IdleThread]
    /\ UNCHANGED <<real, machine, recorded, baseline, baselineOf, events, plans,
                   changes>>

-----------------------------------------------------------------------------
Step(t) ==
    \/ RecordHardware(t)
    \/ AddHardware(t)
    \/ SaveSnapshot(t)
    \/ NoBaseline(t)
    \/ SaveInitial(t)
    \/ ReadBaseline(t)
    \/ SaveAugmented(t)
    \/ Compare(t)
    \/ MarkRecovered(t)
    \/ GetActivePlan(t)
    \/ SelectToDecide(t)
    \/ WriteDecision(t)
    \/ AcceptPlanned(t)
    \/ MatchPlan(t)
    \/ SelectEvent(t)
    \/ UpdateEvent(t)
    \/ InsertEvent(t)
    \/ InsertFails(t)

Next ==
    \/ \E t \in Evaluators : Collect(t)
    \/ \E t \in Threads : Step(t)
    \/ \E t \in Threads : Abort(t)
    \/ \E u \in People, e \in Events, d \in DOMAIN StatusOf : Decide(u, e, d)
    \/ \E a \in Expectations, w \in {"future", "open", "past"} : CreatePlan(a, w)
    \/ \E p \in Plans, a \in Expectations, w \in {"future", "open", "past"} :
          UpdatePlan(p, a, w)
    \/ \E p \in Plans : CancelPlan(p) \/ Elapse(p)
    \/ ExpirePlans
    \/ \E c \in Components, v \in Values : Reconfigure(c, v)
    \/ ChangeTarget
    \/ ChangeTargetByAssistant

Spec == Init /\ [][Next]_vars

\* The hardware is monitored and the server inspected for ever, and a thread
\* that has begun goes on; nobody has to decide, to plan or to wait.
FairSpec ==
    /\ Spec
    /\ \A t \in Evaluators : WF_vars(Collect(t))
    /\ \A t \in Threads : WF_vars(Step(t))

-----------------------------------------------------------------------------
(* Properties.                                                             *)

\* A plan is settled once: matching, cancelling, editing and expiring race,
\* and whichever comes first is final, its expectation included.
PlansAreFinal ==
    [][\A p \in Plans : plans[p].status \in PlanFinal =>
          \/ plans'[p] = plans[p]
          \/ plans'[p].status = "deleted"]_vars

\* Evaluations that have read an event before it was closed do not reopen it:
\* a closed event changes its status only by a decision in flight.
ClosedByDecisionOnly ==
    [][\A e \in Events :
          events[e].status \in Closed /\ events'[e].status # events[e].status =>
             \/ events'[e].status = "deleted"
             \/ \E t \in Threads : At(t, "deciding") /\ thread[t].event = e]_vars

\* An event on record shows a difference between the baseline and what was
\* observed, however the baseline was replaced meanwhile.
OnRecord(e) == events[e].status \notin {"absent", "deleted"}

EventShowsAChange ==
    \A e \in Events : OnRecord(e) => Differs(events[e].base, events[e].seen)

\* The inductive invariant behind the safety properties: a thread on its way to
\* an event holds a difference, and the event it will update is the same one.
ChangeInHand ==
    \A t \in Threads : thread[t].pc \in {"planning", "reporting", "upserting"} =>
        Differs(thread[t].base, Current(t))

SameEvent ==
    \A t \in Threads : At(t, "upserting") /\ thread[t].event # 0 =>
        events[thread[t].event].seen = Current(t)

EventsExist ==
    \A t \in Threads :
        /\ At(t, "deciding") => thread[t].event # 0
        /\ thread[t].event # 0 => events[thread[t].event].status # "absent"

IInv == TypeOK /\ EventShowsAChange /\ ChangeInHand /\ SameEvent /\ EventsExist

\* A lasting deviation is shown as not recovered in the end, whatever was closed,
\* matched or marked as recovered before (up to the bound on the number of events).
Deviates == Differs(baseline, real)
Shown(e) == events[e].status \in {"pending", "confirmed_abnormal"}

DeviationIsReported ==
    []<>(Deviates => (\E e \in Events : Shown(e)) \/ FreeEvents = {})

\* A deviation that has gone is not shown as the current one for ever.
RecoveryIsNoticed ==
    []<>(baseline # Nothing /\ ~Deviates =>
            \A e \in Newest(OpenEvents) : e = 0 \/ ~Shown(e))

\* A deviation that the newest plan in its window expects does not last: it is
\* accepted by that plan, also when the plan came into its window, or to the
\* front, while the deviation was there.
Expects(p) == p \in OpenPlans /\ Matches(plans[p].accepts, real) /\ Deviates
Applies(p) == Expects(p) /\ p \in Newest(OpenPlans)

PlanTakesEffect == \A p \in Plans : []<>~Applies(p)

-----------------------------------------------------------------------------
(* What the code does not do: the first and the second are said in its     *)
(* comments, the third is what a plan on the page suggests.                *)

\* A configuration that was confirmed as normal stays the baseline until
\* another decision or plan replaces it; it may be completed.
AcceptanceIsNotLost ==
    [][(\E e \in Events : events[e].status = "confirmed_normal"
                          /\ events[e].seen = baseline)
       => \/ baseline' = Nothing
          \/ \A c \in Components : baseline[c] \in {None, baseline'[c]}
          \/ \E t \in Threads : At(t, "deciding") \/ At(t, "accepting")]_vars

\* The baseline describes the machine the server row points to.
BaselineOfThisMachine == baseline # Nothing => baselineOf = machine

\* "When the actual configuration matches" a plan in its window, "the baseline is
\* updated": of any such plan, once nobody edits plans any more.  An older plan
\* waits for as long as a newer one, which expects something else, is open too.
EveryOpenPlanTakesEffect ==
    <>[][FALSE]_plans => \A p \in Plans : []<>~Expects(p)
=============================================================================
