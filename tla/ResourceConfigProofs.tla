------------------------ MODULE ResourceConfigProofs ------------------------
(***************************************************************************)
(* Theorems about ResourceConfig for any number of threads, people, events *)
(* and plans.  EventShowsAChange is not inductive: a thread carries the    *)
(* baseline it has read and what it observed through several calls before  *)
(* it writes the event, so the invariant says that they differ in every    *)
(* one of these places (ChangeInHand), and that an event a thread is about *)
(* to update was observed with the same configuration (SameEvent).         *)
(***************************************************************************)
EXTENDS ResourceConfig, TLAPS

\* The bounds are natural numbers.
LEMMA Bounds == MaxEvents \in Nat /\ MaxPlans \in Nat /\ MaxChanges \in Nat
                /\ MaxResets \in Nat /\ MaxAborts \in Nat
  BY ConfigAssumption

\* Configurations and the parts of configurations are payloads.
LEMMA NothingIsPayload == Nothing \in Payload
  BY DEF Nothing, Payload

LEMMA OnlyIsPayload ==
  ASSUME NEW c \in Components, NEW p, p[c] \in Values \cup {None}
  PROVE  Only(c, p) \in Payload
  BY DEF Only, Nothing, Payload

LEMMA AugmentedIsPayload ==
  ASSUME NEW b \in Payload, NEW p \in Payload PROVE Augmented(b, p) \in Payload
  BY DEF Augmented, Payload

\* A thread that is done, or goes on to save its snapshot, holds no event.
LEMMA IdleIsLocal == IdleThread \in Local
  BY Bounds, NothingIsPayload DEF IdleThread, Local, Places, StatusOf

LEMMA IdleHoldsNothing == IdleThread.event = 0 /\ IdleThread.pc = "idle"
  BY DEF IdleThread

LEMMA ReturnIsLocal ==
  ASSUME TypeOK, NEW t \in Threads, Return(t)
  PROVE  /\ thread' \in [Threads -> Local]
         /\ thread'[t].event = 0
         /\ thread'[t].pc \in {"idle", "snapshot"}
         /\ \A s \in Threads : s # t => thread'[s] = thread[s]
<1> DEFINE back == [IdleThread EXCEPT !.pc = "snapshot",
                                      !.current = Only("disk", Current(t))]
<1>1. Current(t)["disk"] \in Values \cup {None}
  BY DEF TypeOK, Local, Payload, Components, Current
<1>2. Only("disk", Current(t)) \in Payload
  BY <1>1, OnlyIsPayload DEF Components
<1>3. back \in Local /\ back.event = 0 /\ back.pc = "snapshot"
  BY <1>2, IdleIsLocal DEF IdleThread, Local, Places
<1> HIDE DEF back
<1>5. thread' = [thread EXCEPT ![t] = IF t \in DiskThreads THEN back ELSE IdleThread]
  BY DEF Return, back
<1> QED BY <1>3, <1>5, IdleIsLocal, IdleHoldsNothing DEF TypeOK

\* What a thread becomes when its place and one of its variables change.
LEMMA GotoIsLocal ==
  ASSUME TypeOK, NEW t \in Threads, NEW pc \in Places, Goto(t, pc)
  PROVE  thread' \in [Threads -> Local]
  BY DEF TypeOK, Goto, Local

LEMMA IsReplaced ==
  ASSUME TypeOK, NEW t \in Threads, NEW r \in Local,
         thread' = [thread EXCEPT ![t] = r]
  PROVE  thread' \in [Threads -> Local]
  BY DEF TypeOK

LEMMA TakesEvent ==
  ASSUME TypeOK, NEW t \in Threads, NEW pc \in Places, NEW e \in Events \cup {0},
         thread' = [thread EXCEPT ![t].pc = pc, ![t].event = e]
  PROVE  thread' \in [Threads -> Local]
<1> DEFINE r == [thread[t] EXCEPT !.pc = pc, !.event = e]
<1>1. thread[t] \in Local
  BY DEF TypeOK
<1>2. r \in Local
  BY <1>1 DEF Local
<1>3. thread' = [thread EXCEPT ![t] = r]
  BY DEF TypeOK
<1> QED BY <1>2, <1>3, IsReplaced

LEMMA TakesPlan ==
  ASSUME TypeOK, NEW t \in Threads, NEW pc \in Places, NEW p \in Plans,
         thread' = [thread EXCEPT ![t].plan = p, ![t].pc = pc]
  PROVE  thread' \in [Threads -> Local]
<1> DEFINE r == [thread[t] EXCEPT !.plan = p, !.pc = pc]
<1>1. thread[t] \in Local
  BY DEF TypeOK
<1>2. r \in Local
  BY <1>1 DEF Local
<1>3. thread' = [thread EXCEPT ![t] = r]
  BY DEF TypeOK
<1> QED BY <1>2, <1>3, IsReplaced

LEMMA TakesCurrent ==
  ASSUME TypeOK, NEW t \in Threads, NEW pc \in Places, NEW p \in Payload,
         thread' = [thread EXCEPT ![t].pc = pc, ![t].current = p]
  PROVE  thread' \in [Threads -> Local]
<1> DEFINE r == [thread[t] EXCEPT !.pc = pc, !.current = p]
<1>1. thread[t] \in Local
  BY DEF TypeOK
<1>2. r \in Local
  BY <1>1 DEF Local
<1>3. thread' = [thread EXCEPT ![t] = r]
  BY DEF TypeOK
<1> QED BY <1>2, <1>3, IsReplaced

\* A settled plan is a plan, whatever the id.
LEMMA FinishedIsPlan ==
  ASSUME TypeOK, NEW p, NEW status \in PlanFinal, FinishPlan(p, status)
  PROVE  plans' \in [Plans -> PlanRow]
<1>1. CASE plans' = plans
  BY <1>1 DEF TypeOK
<1>2. CASE plans' = [plans EXCEPT ![p].status = status]
  <2>1. \A q \in Plans : plans'[q] \in PlanRow
    BY <1>2 DEF TypeOK, PlanRow
  <2> QED BY <1>2, <2>1 DEF TypeOK
<1> QED BY <1>1, <1>2 DEF FinishPlan

\* The newest open row, if there is one.
LEMMA NewestIsEvent == Newest(OpenEvents) \subseteq Events \cup {0}
  BY DEF Newest, OpenEvents

LEMMA NewestIsPlan == Newest(OpenPlans) \subseteq Plans \cup {0}
  BY DEF Newest, OpenPlans

\* The invariant at one thread.
ThreadInv(t) ==
    /\ thread[t].pc \in {"planning", "reporting", "upserting"} =>
           Differs(thread[t].base, Current(t))
    /\ At(t, "upserting") /\ thread[t].event # 0 =>
           events[thread[t].event].seen = Current(t)
    /\ At(t, "deciding") => thread[t].event # 0
    /\ thread[t].event # 0 => events[thread[t].event].status # "absent"

LEMMA InvAtThread == IInv => \A t \in Threads : ThreadInv(t)
  BY DEF IInv, ThreadInv, ChangeInHand, SameEvent, EventsExist

\* A step of one thread that leaves the events alone.
LEMMA ThreadMoves ==
  ASSUME IInv, TypeOK', events' = events, NEW t \in Threads, ThreadInv(t)',
         \A s \in Threads : s # t => thread'[s] = thread[s]
  PROVE  IInv'
<1>1. \A s \in Threads : ThreadInv(s)'
  BY InvAtThread DEF ThreadInv, At, Current
<1>2. ChangeInHand' /\ SameEvent' /\ EventsExist'
  BY <1>1 DEF ThreadInv, ChangeInHand, SameEvent, EventsExist
<1>3. EventShowsAChange'
  BY DEF IInv, EventShowsAChange, OnRecord
<1> QED BY <1>2, <1>3 DEF IInv

\* A step of no thread that leaves the events alone.
LEMMA NothingMoves ==
  ASSUME IInv, TypeOK', events' = events, thread' = thread
  PROVE  IInv'
  BY DEF IInv, EventShowsAChange, OnRecord, ChangeInHand, SameEvent,
     EventsExist, At, Current

\* What a step may do to an event: change its status while it is on record, or
\* insert it with a change.
Kept(e) ==
    /\ events'[e].base = events[e].base
    /\ events'[e].seen = events[e].seen
    /\ \/ events'[e].status = events[e].status
       \/ {events[e].status, events'[e].status} \cap {"absent", "deleted"} = {}

Inserted(e) ==
    /\ events[e].status = "absent"
    /\ events'[e].status = "pending"
    /\ Differs(events'[e].base, events'[e].seen)

LEMMA EventsMove ==
  ASSUME IInv, TypeOK', \A e \in Events : Kept(e) \/ Inserted(e),
         NEW t \in Threads, thread'[t].pc \in {"idle", "snapshot", "accepting"},
         thread'[t].event \in {0, thread[t].event},
         \A s \in Threads : s # t => thread'[s] = thread[s]
  PROVE  IInv'
<1>1. \A s \in Threads : thread[s].event # 0 =>
         /\ thread[s].event \in Events
         /\ events[thread[s].event].status # "absent"
  BY DEF IInv, TypeOK, Local, EventsExist
<1>2. \A e \in Events : events[e].status # "absent" =>
         events'[e].seen = events[e].seen /\ events'[e].status # "absent"
  BY DEF Kept, Inserted
<1>3. \A s \in Threads : ThreadInv(s)'
  <2>1. ThreadInv(t)'
    BY <1>1, <1>2 DEF ThreadInv, At
  <2>2. \A s \in Threads : s # t => ThreadInv(s)'
    BY <1>1, <1>2, InvAtThread DEF ThreadInv, At, Current
  <2> QED BY <2>1, <2>2
<1>4. ChangeInHand' /\ SameEvent' /\ EventsExist'
  BY <1>3 DEF ThreadInv, ChangeInHand, SameEvent, EventsExist
<1>5. EventShowsAChange'
  BY DEF IInv, EventShowsAChange, OnRecord, Kept, Inserted
<1> QED BY <1>4, <1>5 DEF IInv

\* The empty tables satisfy the inductive invariant.
LEMMA InitImpliesInv == Init => IInv
  BY Bounds, NothingIsPayload, IdleIsLocal, IdleHoldsNothing
  DEF Init, IInv, TypeOK, EventShowsAChange, OnRecord, ChangeInHand, SameEvent,
      EventsExist, At, EventRow, PlanRow, NoEvent, NoPlan

LEMMA CollectPreservesInv ==
  ASSUME IInv, NEW t \in Evaluators, Collect(t)
  PROVE  IInv'
<1>1. TypeOK'
  <2>1. real[Source(t)] \in Values
    BY DEF IInv, TypeOK, Source, Components
  <2>2. Only(Source(t), real) \in Payload
    BY <2>1, OnlyIsPayload DEF Source, Components
  <2>3. machine \in 0 .. MaxResets
    BY DEF IInv, TypeOK
  <2>4. [IdleThread EXCEPT !.pc = "recording", !.current = Only(Source(t), real),
                           !.machine = machine] \in Local
    BY <2>2, <2>3, IdleIsLocal DEF Local, Places
  <2>5. thread' \in [Threads -> Local]
    BY <2>4, IsReplaced DEF Collect, IInv, Threads
  <2> QED BY <2>5 DEF IInv, TypeOK, Collect
<1>2. \A s \in Threads : s # t => thread'[s] = thread[s]
  BY DEF Collect, IInv, TypeOK
<1>3. ThreadInv(t)'
  BY IdleHoldsNothing DEF Collect, ThreadInv, At, Current, IInv, TypeOK,
     Local, Evaluators, Threads
<1>4. events' = events
  BY DEF Collect
<1> QED BY <1>1, <1>2, <1>3, <1>4, ThreadMoves DEF Threads, Evaluators

LEMMA RecordHardwarePreservesInv ==
  ASSUME IInv, NEW t \in Threads, RecordHardware(t)
  PROVE  IInv'
<1>1. TypeOK'
  <2>1. recorded' \in Payload
    BY DEF RecordHardware, Current, Components, IInv, TypeOK, Local, Payload
  <2>2. thread' \in [Threads -> Local]
    BY <2>1, TakesCurrent DEF RecordHardware, IInv, Places
  <2> QED BY <2>1, <2>2 DEF IInv, TypeOK, RecordHardware
<1>2. \A s \in Threads : s # t => thread'[s] = thread[s]
  BY DEF RecordHardware, IInv, TypeOK
<1>3. ThreadInv(t)'
  BY InvAtThread DEF RecordHardware, ThreadInv, At, Current, IInv, TypeOK,
     Local
<1>4. events' = events
  BY DEF RecordHardware
<1> QED BY <1>1, <1>2, <1>3, <1>4, ThreadMoves

LEMMA AddHardwarePreservesInv ==
  ASSUME IInv, NEW t \in Threads, AddHardware(t)
  PROVE  IInv'
<1>1. TypeOK'
  <2>1. [Current(t) EXCEPT !["hardware"] = recorded["hardware"]] \in Payload
    BY DEF Current, Components, IInv, TypeOK, Local, Payload
  <2>2. thread' = [thread EXCEPT ![t].pc = "evaluating", ![t].current =
                      [Current(t) EXCEPT !["hardware"] = recorded["hardware"]]]
    BY DEF AddHardware, Current, IInv, TypeOK, Local
  <2>3. thread' \in [Threads -> Local]
    BY <2>1, <2>2, TakesCurrent DEF IInv, Places
  <2> QED BY <2>3 DEF IInv, TypeOK, AddHardware
<1>2. \A s \in Threads : s # t => thread'[s] = thread[s]
  BY DEF AddHardware, IInv, TypeOK
<1>3. ThreadInv(t)'
  BY InvAtThread DEF AddHardware, ThreadInv, At, Current, IInv, TypeOK, Local
<1>4. events' = events
  BY DEF AddHardware
<1> QED BY <1>1, <1>2, <1>3, <1>4, ThreadMoves

LEMMA SaveSnapshotPreservesInv ==
  ASSUME IInv, NEW t \in Threads, SaveSnapshot(t)
  PROVE  IInv'
<1>1. TypeOK'
  BY IdleIsLocal, IdleHoldsNothing DEF SaveSnapshot, At, Current, Components,
     IInv, TypeOK, EventRow, PlanRow, Local, Places, Payload, EventsExist
<1>2. \A s \in Threads : s # t => thread'[s] = thread[s]
  BY DEF SaveSnapshot, IInv, TypeOK
<1>3. ThreadInv(t)'
  BY IdleHoldsNothing DEF SaveSnapshot, ThreadInv, At, Current, IInv, TypeOK,
     Local
<1>4. events' = events
  BY DEF SaveSnapshot
<1> QED BY <1>1, <1>2, <1>3, <1>4, ThreadMoves

LEMMA NoBaselinePreservesInv ==
  ASSUME IInv, NEW t \in Threads, NoBaseline(t)
  PROVE  IInv'
<1>1. TypeOK'
  <2>1. thread' \in [Threads -> Local]
    BY GotoIsLocal DEF NoBaseline, IInv, Places
  <2> QED BY <2>1 DEF IInv, TypeOK, NoBaseline
<1>2. \A s \in Threads : s # t => thread'[s] = thread[s]
  BY DEF NoBaseline, Goto, IInv, TypeOK
<1>3. ThreadInv(t)'
  BY InvAtThread DEF NoBaseline, Goto, ThreadInv, At, Current, IInv, TypeOK,
     Local
<1>4. events' = events
  BY DEF NoBaseline
<1> QED BY <1>1, <1>2, <1>3, <1>4, ThreadMoves

LEMMA SaveInitialPreservesInv ==
  ASSUME IInv, NEW t \in Threads, SaveInitial(t)
  PROVE  IInv'
<1>1. TypeOK'
  BY ReturnIsLocal DEF SaveInitial, At, SaveBaseline, Current, IInv, TypeOK,
     EventRow, PlanRow, Local, Places, EventsExist
<1>2. \A s \in Threads : s # t => thread'[s] = thread[s]
  BY ReturnIsLocal DEF SaveInitial, IInv
<1>3. ThreadInv(t)'
  BY ReturnIsLocal DEF SaveInitial, ThreadInv, At, Current, IInv, TypeOK,
     Local
<1>4. events' = events
  BY DEF SaveInitial
<1> QED BY <1>1, <1>2, <1>3, <1>4, ThreadMoves

LEMMA ReadBaselinePreservesInv ==
  ASSUME IInv, NEW t \in Threads, ReadBaseline(t)
  PROVE  IInv'
<1>1. TypeOK'
  BY AugmentedIsPayload DEF ReadBaseline, At, Current, IInv, TypeOK, EventRow,
     PlanRow, Local, Places, EventsExist
<1>2. \A s \in Threads : s # t => thread'[s] = thread[s]
  BY DEF ReadBaseline, IInv, TypeOK
<1>3. ThreadInv(t)'
  BY InvAtThread DEF ReadBaseline, ThreadInv, At, Current, IInv, TypeOK, Local
<1>4. events' = events
  BY DEF ReadBaseline
<1> QED BY <1>1, <1>2, <1>3, <1>4, ThreadMoves

LEMMA SaveAugmentedPreservesInv ==
  ASSUME IInv, NEW t \in Threads, SaveAugmented(t)
  PROVE  IInv'
<1>1. TypeOK'
  <2>1. thread' \in [Threads -> Local]
    BY GotoIsLocal DEF SaveAugmented, IInv, Places
  <2> QED BY <2>1 DEF IInv, TypeOK, SaveAugmented, SaveBaseline, Local
<1>2. \A s \in Threads : s # t => thread'[s] = thread[s]
  BY DEF SaveAugmented, Goto, IInv, TypeOK
<1>3. ThreadInv(t)'
  BY InvAtThread DEF SaveAugmented, Goto, ThreadInv, At, Current, IInv,
     TypeOK, Local
<1>4. events' = events
  BY DEF SaveAugmented
<1> QED BY <1>1, <1>2, <1>3, <1>4, ThreadMoves

LEMMA ComparePreservesInv ==
  ASSUME IInv, NEW t \in Threads, Compare(t)
  PROVE  IInv'
<1>1. events' = events
  BY DEF Compare
<1>2. CASE Return(t)
  <2>1. TypeOK'
    BY <1>2, ReturnIsLocal DEF Compare, IInv, TypeOK
  <2>2. ThreadInv(t)'
    BY <1>2, ReturnIsLocal DEF ThreadInv, At, IInv
  <2> QED BY <1>1, <1>2, <2>1, <2>2, ReturnIsLocal, ThreadMoves DEF IInv
<1>3. ASSUME NEW e \in Newest(OpenEvents), NEW pc \in {"planning", "recovering"},
             pc = "planning" => Differs(thread[t].base, Current(t)),
             thread' = [thread EXCEPT ![t].pc = pc, ![t].event = e]
      PROVE  IInv'
  <2>1. e = 0 \/ (e \in Events /\ events[e].status # "absent")
    BY DEF Newest, OpenEvents, OpenStatuses
  <2>2. thread' \in [Threads -> Local]
    BY <1>3, <2>1, TakesEvent DEF IInv, Places
  <2>3. TypeOK'
    BY <2>2 DEF Compare, IInv, TypeOK
  <2>4. /\ thread'[t].pc = pc
        /\ thread'[t].event = e
        /\ thread'[t].base = thread[t].base
        /\ thread'[t].current = thread[t].current
        /\ \A s \in Threads : s # t => thread'[s] = thread[s]
    BY <1>3 DEF IInv, TypeOK, Local
  <2>5. ThreadInv(t)'
    BY <1>1, <1>3, <2>1, <2>4 DEF ThreadInv, At, Current
  <2> QED BY <1>1, <2>3, <2>4, <2>5, ThreadMoves
<1> QED BY <1>2, <1>3 DEF Compare

LEMMA MarkRecoveredPreservesInv ==
  ASSUME IInv, NEW t \in Threads, MarkRecovered(t)
  PROVE  IInv'
<1> DEFINE e == thread[t].event
<1>1. events' = events \/ (Recoverable(e) /\ SetEvent(e, "recovered_pending"))
  BY DEF MarkRecovered
<1>2. events' \in [Events -> EventRow]
  BY <1>1 DEF SetEvent, IInv, TypeOK, EventRow, OpenStatuses
<1>3. \A i \in Events : Kept(i)
  BY <1>1 DEF SetEvent, Recoverable, Kept, IInv, TypeOK, EventRow
<1>4. TypeOK'
  BY <1>2, ReturnIsLocal DEF MarkRecovered, IInv, TypeOK
<1> QED BY <1>3, <1>4, ReturnIsLocal, EventsMove DEF MarkRecovered, IInv

LEMMA GetActivePlanPreservesInv ==
  ASSUME IInv, NEW t \in Threads, GetActivePlan(t)
  PROVE  IInv'
<1>1. TypeOK'
  <2>1. thread' \in [Threads -> Local]
    BY NewestIsPlan, TakesPlan, GotoIsLocal DEF GetActivePlan, IInv, Places
  <2>2. plans' \in [Plans -> PlanRow]
    BY DEF GetActivePlan, IInv, TypeOK, PlanRow, PlanFinal
  <2> QED BY <2>1, <2>2 DEF IInv, TypeOK, GetActivePlan
<1>2. \A s \in Threads : s # t => thread'[s] = thread[s]
  BY DEF GetActivePlan, Goto, IInv, TypeOK
<1>3. ThreadInv(t)'
  <2>1. \/ thread' = [thread EXCEPT ![t].pc = "reporting"]
        \/ \E p \in Plans, pc \in {"accepting", "selecting"} :
              thread' = [thread EXCEPT ![t].plan = p, ![t].pc = pc]
    BY NewestIsPlan DEF GetActivePlan, Goto
  <2> DEFINE here == thread[t]
  <2>5. here \in Local
    BY DEF IInv, TypeOK
  <2>6. \/ thread'[t] = [here EXCEPT !.pc = "reporting"]
        \/ \E p \in Plans, pc \in {"accepting", "selecting"} :
              thread'[t] = [here EXCEPT !.plan = p, !.pc = pc]
    BY <2>1 DEF IInv, TypeOK
  <2> HIDE DEF here
  <2>7. /\ thread'[t].pc \in {"accepting", "selecting", "reporting"}
        /\ thread'[t].event = here.event
        /\ thread'[t].base = here.base
        /\ thread'[t].current = here.current
    BY <2>5, <2>6 DEF Local
  <2>2. /\ thread'[t].pc \in {"accepting", "selecting", "reporting"}
        /\ thread'[t].event = thread[t].event
        /\ thread'[t].base = thread[t].base
        /\ thread'[t].current = thread[t].current
    BY <2>7 DEF here
  <2>3. Differs(thread[t].base, Current(t))
    BY InvAtThread DEF GetActivePlan, At, ThreadInv
  <2>4. events' = events
    BY DEF GetActivePlan
  <2> QED BY <2>2, <2>3, <2>4, InvAtThread DEF ThreadInv, At, Current
<1>4. events' = events
  BY DEF GetActivePlan
<1> QED BY <1>1, <1>2, <1>3, <1>4, ThreadMoves

LEMMA SelectToDecidePreservesInv ==
  ASSUME IInv, NEW t \in Threads, SelectToDecide(t)
  PROVE  IInv'
<1>1. TypeOK'
  <2>1. thread' \in [Threads -> Local]
    BY GotoIsLocal, IdleIsLocal, IsReplaced DEF SelectToDecide, IInv, Places
  <2> QED BY <2>1 DEF IInv, TypeOK, SelectToDecide
<1>2. \A s \in Threads : s # t => thread'[s] = thread[s]
  BY DEF SelectToDecide, Goto, IInv, TypeOK
<1>3. ThreadInv(t)'
  BY InvAtThread, IdleHoldsNothing, Bounds DEF SelectToDecide, Goto,
     OpenEvents, Events, ThreadInv, At, Current, IInv, TypeOK, Local
<1>4. events' = events
  BY DEF SelectToDecide
<1> QED BY <1>1, <1>2, <1>3, <1>4, ThreadMoves

LEMMA WriteDecisionPreservesInv ==
  ASSUME IInv, NEW t \in Threads, WriteDecision(t)
  PROVE  IInv'
<1> DEFINE e == thread[t].event
           status == StatusOf[thread[t].decision]
<1>1. /\ e \in Events
      /\ events[e].status # "absent"
      /\ status \in {"confirmed_normal", "confirmed_abnormal", "resolved"}
  BY DEF WriteDecision, At, StatusOf, EventsExist, IInv, TypeOK, Local
<1> HIDE DEF status
<1>2. \/ events' = events
      \/ events[e].status # "deleted" /\ events' = [events EXCEPT ![e].status = status]
  BY DEF WriteDecision, SetEvent, status
<1>3. events' \in [Events -> EventRow]
  BY <1>1, <1>2 DEF IInv, TypeOK, EventRow, OpenStatuses, Closed
<1>4. \A i \in Events : Kept(i)
  BY <1>1, <1>2 DEF Kept, IInv, TypeOK, EventRow
<1>5. /\ thread' \in [Threads -> Local]
      /\ thread'[t].pc \in {"idle", "accepting"}
      /\ thread'[t].event \in {0, thread[t].event}
      /\ \A s \in Threads : s # t => thread'[s] = thread[s]
  <2>1. CASE thread' = [thread EXCEPT ![t] = IdleThread]
    BY <2>1, IdleIsLocal, IdleHoldsNothing, IsReplaced DEF IInv, TypeOK
  <2>2. CASE Goto(t, "accepting")
    <3>1. thread' \in [Threads -> Local]
      BY <2>2, GotoIsLocal DEF IInv, Places
    <3> QED BY <2>2, <3>1 DEF Goto, IInv, TypeOK, Local
  <2> QED BY <2>1, <2>2 DEF WriteDecision
<1>6. baseline' \in Payload /\ baselineOf' \in 0 .. MaxResets
  BY <1>1 DEF WriteDecision, SaveBaseline, IInv, TypeOK, EventRow
<1>7. TypeOK'
  BY <1>3, <1>5, <1>6 DEF WriteDecision, IInv, TypeOK
<1> QED BY <1>4, <1>5, <1>7, EventsMove

LEMMA AcceptPlannedPreservesInv ==
  ASSUME IInv, NEW t \in Threads, AcceptPlanned(t)
  PROVE  IInv'
<1>1. TypeOK'
  <2>1. thread' \in [Threads -> Local]
    BY GotoIsLocal DEF AcceptPlanned, IInv, Places
  <2> QED BY <2>1 DEF IInv, TypeOK, AcceptPlanned, SaveBaseline, Current, Local
<1>2. \A s \in Threads : s # t => thread'[s] = thread[s]
  BY DEF AcceptPlanned, Goto, IInv, TypeOK
<1>3. ThreadInv(t)'
  BY InvAtThread DEF AcceptPlanned, Goto, ThreadInv, At, Current, IInv,
     TypeOK, Local
<1>4. events' = events
  BY DEF AcceptPlanned
<1> QED BY <1>1, <1>2, <1>3, <1>4, ThreadMoves

LEMMA MatchPlanPreservesInv ==
  ASSUME IInv, NEW t \in Threads, MatchPlan(t)
  PROVE  IInv'
<1>1. TypeOK'
  <2>1. thread' \in [Threads -> Local]
    BY ReturnIsLocal DEF MatchPlan, IInv
  <2>2. plans' \in [Plans -> PlanRow]
    BY FinishedIsPlan DEF MatchPlan, IInv, PlanFinal
  <2> QED BY <2>1, <2>2 DEF IInv, TypeOK, MatchPlan
<1>2. \A s \in Threads : s # t => thread'[s] = thread[s]
  BY ReturnIsLocal DEF MatchPlan, IInv
<1>3. ThreadInv(t)'
  BY ReturnIsLocal DEF MatchPlan, ThreadInv, At, Current, IInv, TypeOK, Local
<1>4. events' = events
  BY DEF MatchPlan
<1> QED BY <1>1, <1>2, <1>3, <1>4, ThreadMoves

LEMMA SelectEventPreservesInv ==
  ASSUME IInv, NEW t \in Threads, SelectEvent(t)
  PROVE  IInv'
<1>1. TypeOK'
  <2>1. thread' \in [Threads -> Local]
    <3>1. PICK e \in Newest(OpenEvents) :
             thread' = [thread EXCEPT ![t].pc = "upserting", ![t].event =
                IF e # 0 /\ events[e].seen = Current(t) THEN e ELSE 0]
      BY DEF SelectEvent
    <3>2. (IF e # 0 /\ events[e].seen = Current(t) THEN e ELSE 0) \in Events \cup {0}
      BY NewestIsEvent
    <3> QED BY <3>1, <3>2, TakesEvent DEF IInv, Places
  <2> QED BY <2>1 DEF IInv, TypeOK, SelectEvent
<1>2. \A s \in Threads : s # t => thread'[s] = thread[s]
  BY DEF SelectEvent, IInv, TypeOK
<1>3. ThreadInv(t)'
  BY InvAtThread DEF SelectEvent, Newest, OpenEvents, OpenStatuses, ThreadInv,
     At, Current, IInv, TypeOK, Local
<1>4. events' = events
  BY DEF SelectEvent
<1> QED BY <1>1, <1>2, <1>3, <1>4, ThreadMoves

LEMMA UpdateEventPreservesInv ==
  ASSUME IInv, NEW t \in Threads, UpdateEvent(t)
  PROVE  IInv'
<1> DEFINE e == thread[t].event
           status == SeenAgain(events[e].status)
           row == [events[e] EXCEPT !.status = status, !.seen = Current(t),
                                    !.machine = thread[t].machine]
<1>1. /\ e \in Events
      /\ events[e] \in EventRow
      /\ events[e].status # "absent"
      /\ events[e].seen = Current(t)
      /\ Current(t) \in Payload
      /\ thread[t].machine \in 0 .. MaxResets
  BY DEF UpdateEvent, At, Current, SameEvent, EventsExist, IInv, TypeOK, Local
<1>2. \/ events' = events
      \/ events[e].status # "deleted" /\ events' = [events EXCEPT ![e] = row]
  BY DEF UpdateEvent, IInv, TypeOK
<1>3. /\ status \in {events[e].status, "pending"}
      /\ status = "pending" => events[e].status \in {"pending", "recovered_pending"}
  BY DEF SeenAgain
<1> HIDE DEF status
<1>4. row \in EventRow /\ row.base = events[e].base /\ row.seen = events[e].seen
      /\ row.status = status
  BY <1>1, <1>3 DEF EventRow, OpenStatuses
<1> HIDE DEF row, e
<1>5. events' \in [Events -> EventRow]
  BY <1>2, <1>4 DEF IInv, TypeOK
<1>6. \A i \in Events : Kept(i)
  BY <1>1, <1>2, <1>3, <1>4 DEF Kept, IInv, TypeOK
<1>7. TypeOK'
  BY <1>5, ReturnIsLocal DEF UpdateEvent, IInv, TypeOK
<1> QED BY <1>6, <1>7, ReturnIsLocal, EventsMove DEF UpdateEvent, IInv

LEMMA InsertEventPreservesInv ==
  ASSUME IInv, NEW t \in Threads, InsertEvent(t)
  PROVE  IInv'
<1> DEFINE row == [status |-> "pending", base |-> thread[t].base,
                   seen |-> Current(t), machine |-> thread[t].machine]
<1>1. row \in EventRow /\ row.status = "pending" /\ row.base = thread[t].base
      /\ row.seen = Current(t)
  BY DEF IInv, TypeOK, Local, Current, EventRow, OpenStatuses
<1>2. Differs(thread[t].base, Current(t))
  BY InvAtThread DEF InsertEvent, At, ThreadInv
<1>3. PICK e \in Events : /\ events[e].status = "absent"
                          /\ events' = [events EXCEPT ![e] = row]
  BY DEF InsertEvent, First, FreeEvents
<1> HIDE DEF row
<1>4. events' \in [Events -> EventRow]
  BY <1>1, <1>3 DEF IInv, TypeOK
<1>5. \A i \in Events : Kept(i) \/ Inserted(i)
  BY <1>1, <1>2, <1>3 DEF Kept, Inserted, IInv, TypeOK
<1>6. TypeOK'
  BY <1>4, ReturnIsLocal DEF InsertEvent, IInv, TypeOK
<1> QED BY <1>5, <1>6, ReturnIsLocal, EventsMove DEF InsertEvent, IInv

LEMMA InsertFailsPreservesInv ==
  ASSUME IInv, NEW t \in Threads, InsertFails(t)
  PROVE  IInv'
<1>1. TypeOK'
  BY IdleIsLocal, IdleHoldsNothing DEF InsertFails, At, IInv, TypeOK,
     EventRow, PlanRow, Local, Places, EventsExist
<1>2. \A s \in Threads : s # t => thread'[s] = thread[s]
  BY DEF InsertFails, IInv, TypeOK
<1>3. ThreadInv(t)'
  BY IdleHoldsNothing DEF InsertFails, ThreadInv, At, Current, IInv, TypeOK,
     Local
<1>4. events' = events
  BY DEF InsertFails
<1> QED BY <1>1, <1>2, <1>3, <1>4, ThreadMoves

LEMMA AbortPreservesInv ==
  ASSUME IInv, NEW t \in Threads, Abort(t)
  PROVE  IInv'
<1>1. TypeOK'
  BY IdleIsLocal, IdleHoldsNothing, Bounds DEF Abort, At, IInv, TypeOK,
     EventRow, PlanRow, Local, Places, EventsExist
<1>2. \A s \in Threads : s # t => thread'[s] = thread[s]
  BY DEF Abort, IInv, TypeOK
<1>3. ThreadInv(t)'
  BY IdleHoldsNothing DEF Abort, ThreadInv, At, Current, IInv, TypeOK, Local
<1>4. events' = events
  BY DEF Abort
<1> QED BY <1>1, <1>2, <1>3, <1>4, ThreadMoves

LEMMA DecidePreservesInv ==
  ASSUME IInv, NEW u \in People, NEW e \in Events, NEW d \in DOMAIN
         StatusOf, Decide(u, e, d)
  PROVE  IInv'
<1>1. TypeOK'
  BY IdleIsLocal DEF Decide, At, IdleThread, Threads, OpenEvents,
     OpenStatuses, IInv, TypeOK, EventRow, PlanRow, Local, Places, EventsExist
<1>2. \A s \in Threads : s # u => thread'[s] = thread[s]
  BY DEF Decide, IInv, TypeOK
<1>3. ThreadInv(u)'
  BY DEF Decide, IdleThread, OpenEvents, OpenStatuses, Threads, ThreadInv, At,
     Current, IInv, TypeOK, Local
<1>4. events' = events
  BY DEF Decide
<1> QED BY <1>1, <1>2, <1>3, <1>4, ThreadMoves DEF Threads, Evaluators

LEMMA CreatePlanPreservesInv ==
  ASSUME IInv, NEW a \in Expectations, NEW w \in {"future", "open", "past"},
         CreatePlan(a, w)
  PROVE  IInv'
<1>1. TypeOK'
  BY ConfigAssumption DEF CreatePlan, At, First, FreePlans, IInv, TypeOK,
     EventRow, PlanRow, Local, Places, EventsExist
<1> QED BY <1>1, NothingMoves DEF CreatePlan

LEMMA UpdatePlanPreservesInv ==
  ASSUME IInv, NEW p \in Plans, NEW a \in Expectations, NEW w \in {"future",
         "open", "past"}, UpdatePlan(p, a, w)
  PROVE  IInv'
<1>1. TypeOK'
  <2> DEFINE row == [plans[p] EXCEPT !.accepts = a, !.window = w]
  <2>1. plans' \in [Plans -> PlanRow]
    <3>1. a \in [Components -> SUBSET (Values \cup {None})]
      BY ConfigAssumption
    <3>2. row \in PlanRow
      BY <3>1 DEF IInv, TypeOK, PlanRow
    <3>3. plans' = [plans EXCEPT ![p] = row]
      BY DEF UpdatePlan, IInv, TypeOK
    <3> QED BY <3>2, <3>3 DEF IInv, TypeOK
  <2> QED BY <2>1 DEF IInv, TypeOK, UpdatePlan
<1> QED BY <1>1, NothingMoves DEF UpdatePlan

LEMMA CancelPlanPreservesInv ==
  ASSUME IInv, NEW p \in Plans, CancelPlan(p)
  PROVE  IInv'
<1>1. TypeOK'
  BY DEF CancelPlan, At, FinishPlan, PlanFinal, IInv, TypeOK, EventRow,
     PlanRow, Local, Places, EventsExist
<1> QED BY <1>1, NothingMoves DEF CancelPlan

LEMMA ElapsePreservesInv ==
  ASSUME IInv, NEW p \in Plans, Elapse(p)
  PROVE  IInv'
<1>1. TypeOK'
  BY DEF Elapse, At, IInv, TypeOK, EventRow, PlanRow, Local, Places,
     EventsExist
<1> QED BY <1>1, NothingMoves DEF Elapse

LEMMA ExpirePlansPreservesInv ==
  ASSUME IInv, ExpirePlans
  PROVE  IInv'
<1>1. TypeOK'
  <2>1. plans' \in [Plans -> PlanRow]
    BY DEF ExpirePlans, IInv, TypeOK, PlanRow, PlanFinal
  <2> QED BY <2>1 DEF IInv, TypeOK, ExpirePlans
<1> QED BY <1>1, NothingMoves DEF ExpirePlans

LEMMA ReconfigurePreservesInv ==
  ASSUME IInv, NEW c \in Components, NEW v \in Values, Reconfigure(c, v)
  PROVE  IInv'
<1>1. TypeOK'
  BY Bounds DEF Reconfigure, At, IInv, TypeOK, EventRow, PlanRow, Local,
     Places, EventsExist
<1> QED BY <1>1, NothingMoves DEF Reconfigure

LEMMA ChangeTargetPreservesInv ==
  ASSUME IInv, ChangeTarget
  PROVE  IInv'
<1>1. TypeOK'
  <2>1. events' \in [Events -> EventRow]
    BY DEF ChangeTarget, IInv, TypeOK, EventRow
  <2>2. plans' \in [Plans -> PlanRow]
    BY DEF ChangeTarget, IInv, TypeOK, PlanRow, NoPlan
  <2>3. machine' \in 0 .. MaxResets /\ recorded' \in Payload
    BY Bounds, NothingIsPayload DEF ChangeTarget, IInv, TypeOK
  <2> QED BY <2>1, <2>2, <2>3 DEF IInv, TypeOK, ChangeTarget
<1>2. \A e \in Events :
         /\ events'[e].seen = events[e].seen
         /\ events[e].status # "absent" => events'[e].status = "deleted"
         /\ events[e].status = "absent" => events'[e].status = "absent"
  BY DEF ChangeTarget, IInv, TypeOK, EventRow
<1>3. EventShowsAChange'
  BY <1>2 DEF EventShowsAChange, OnRecord
<1>4. ChangeInHand'
  BY DEF ChangeTarget, IInv, ChangeInHand, Current
<1>5. SameEvent' /\ EventsExist'
  <2>1. thread' = thread /\ \A s \in Threads : thread[s].event \in Events \cup {0}
    BY DEF ChangeTarget, IInv, TypeOK, Local
  <2> QED BY <1>2, <2>1 DEF IInv, SameEvent, EventsExist, At, Current
<1> QED BY <1>1, <1>3, <1>4, <1>5 DEF IInv

LEMMA ChangeTargetByAssistantPreservesInv ==
  ASSUME IInv, ChangeTargetByAssistant
  PROVE  IInv'
<1>1. TypeOK'
  BY Bounds DEF ChangeTargetByAssistant, At, Components, IInv, TypeOK,
     EventRow, PlanRow, Local, Places, Payload, EventsExist
<1> QED BY <1>1, NothingMoves DEF ChangeTargetByAssistant

\* The database calls of a thread.
LEMMA StepPreservesInv ==
  ASSUME IInv, NEW t \in Threads, Step(t)
  PROVE  IInv'
BY RecordHardwarePreservesInv, AddHardwarePreservesInv,
   SaveSnapshotPreservesInv, NoBaselinePreservesInv,
   SaveInitialPreservesInv, ReadBaselinePreservesInv,
   SaveAugmentedPreservesInv, ComparePreservesInv,
   MarkRecoveredPreservesInv, GetActivePlanPreservesInv,
   SelectToDecidePreservesInv, WriteDecisionPreservesInv,
   AcceptPlannedPreservesInv, MatchPlanPreservesInv,
   SelectEventPreservesInv, UpdateEventPreservesInv,
   InsertEventPreservesInv, InsertFailsPreservesInv
DEF Step

LEMMA StutterPreservesInv == IInv /\ UNCHANGED vars => IInv'
  BY DEF IInv, TypeOK, EventShowsAChange, OnRecord, ChangeInHand, SameEvent,
     EventsExist, At, Current, vars

LEMMA NextPreservesInv == IInv /\ [Next]_vars => IInv'
<1> SUFFICES ASSUME IInv, [Next]_vars PROVE IInv'
  OBVIOUS
<1>1. ASSUME NEW t \in Evaluators, Collect(t) PROVE IInv'
  BY <1>1, CollectPreservesInv
<1>2. ASSUME NEW t \in Threads, Step(t) PROVE IInv'
  BY <1>2, StepPreservesInv
<1>3. ASSUME NEW t \in Threads, Abort(t) PROVE IInv'
  BY <1>3, AbortPreservesInv
<1>4. ASSUME NEW u \in People, NEW e \in Events, NEW d \in DOMAIN StatusOf,
             Decide(u, e, d)
      PROVE  IInv'
  BY <1>4, DecidePreservesInv
<1>5. ASSUME NEW a \in Expectations, NEW w \in {"future", "open", "past"},
             CreatePlan(a, w)
      PROVE  IInv'
  BY <1>5, CreatePlanPreservesInv
<1>6. ASSUME NEW p \in Plans, NEW a \in Expectations,
             NEW w \in {"future", "open", "past"}, UpdatePlan(p, a, w)
      PROVE  IInv'
  BY <1>6, UpdatePlanPreservesInv
<1>7. ASSUME NEW p \in Plans, CancelPlan(p) \/ Elapse(p) PROVE IInv'
  BY <1>7, CancelPlanPreservesInv, ElapsePreservesInv
<1>8. CASE ExpirePlans
  BY <1>8, ExpirePlansPreservesInv
<1>9. ASSUME NEW c \in Components, NEW v \in Values, Reconfigure(c, v) PROVE IInv'
  BY <1>9, ReconfigurePreservesInv
<1>10. CASE ChangeTarget \/ ChangeTargetByAssistant
  BY <1>10, ChangeTargetPreservesInv, ChangeTargetByAssistantPreservesInv
<1>11. CASE UNCHANGED vars
  BY <1>11, StutterPreservesInv
<1> QED
  BY <1>1, <1>2, <1>3, <1>4, <1>5, <1>6, <1>7, <1>8, <1>9, <1>10, <1>11 DEF Next

\* The inductive invariant holds for any number of evaluations, people, events
\* and plans.
THEOREM Invariance == Spec => []IInv
  BY InitImpliesInv, NextPreservesInv, PTL DEF Spec

\* Rows and local variables keep their types.
THEOREM TypeCorrect == Spec => []TypeOK
<1>1. IInv => TypeOK
  BY DEF IInv
<1> QED BY <1>1, Invariance, PTL

\* resource_change_events never holds an event whose baseline and observation
\* agree, whatever accepts, resets and closes happen between the calls of
\* evaluate_resource_configuration.
THEOREM EventsShowChanges == Spec => []EventShowsAChange
<1>1. IInv => EventShowsAChange
  BY DEF IInv
<1> QED BY <1>1, Invariance, PTL

-----------------------------------------------------------------------------
\* What no step does to a plan that has been settled.
SettledStays ==
    \A p \in Plans : plans[p].status \in PlanFinal =>
        plans'[p] = plans[p] \/ plans'[p].status = "deleted"

\* Expiring, finishing and editing ask for the status.
LEMMA ExpiringKeepsSettled ==
  ASSUME plans' = [p \in Plans |-> IF Overdue(p)
                     THEN [plans[p] EXCEPT !.status = "expired"] ELSE plans[p]]
  PROVE  SettledStays
  BY DEF Overdue, PlanFinal, SettledStays

LEMMA FinishKeepsSettled ==
  ASSUME TypeOK, NEW q, NEW status, FinishPlan(q, status)
  PROVE  SettledStays
<1> SUFFICES ASSUME NEW p \in Plans, plans[p].status \in PlanFinal
             PROVE  plans'[p] = plans[p]
  BY DEF SettledStays
<1>1. CASE p = q
  BY <1>1 DEF FinishPlan, PlanFinal
<1>2. CASE p # q
  BY <1>2 DEF FinishPlan, TypeOK
<1> QED BY <1>1, <1>2

LEMMA SamePlansStay == plans' = plans => SettledStays
  BY DEF SettledStays

LEMMA StepKeepsSettled ==
  ASSUME TypeOK, NEW t \in Threads, Step(t) PROVE SettledStays
<1>1. CASE GetActivePlan(t)
  BY <1>1, ExpiringKeepsSettled DEF GetActivePlan
<1>2. CASE MatchPlan(t)
  BY <1>2, FinishKeepsSettled DEF MatchPlan
<1>3. CASE ~GetActivePlan(t) /\ ~MatchPlan(t)
  <2>1. plans' = plans
    BY <1>3 DEF Step, RecordHardware, AddHardware, SaveSnapshot, NoBaseline,
       SaveInitial, ReadBaseline, SaveAugmented, Compare, MarkRecovered,
       SelectToDecide, WriteDecision, AcceptPlanned, SelectEvent, UpdateEvent,
       InsertEvent, InsertFails
  <2> QED BY <2>1, SamePlansStay
<1> QED BY <1>1, <1>2, <1>3

LEMMA PlanEditsKeepSettled ==
  ASSUME TypeOK, NEW p \in Plans, NEW a, NEW w,
         UpdatePlan(p, a, w) \/ CreatePlan(a, w) \/ CancelPlan(p) \/ Elapse(p)
  PROVE  SettledStays
<1>1. CASE UpdatePlan(p, a, w)
  BY <1>1 DEF UpdatePlan, Editable, TypeOK, PlanFinal, SettledStays
<1>2. CASE CreatePlan(a, w)
  BY <1>2 DEF CreatePlan, First, FreePlans, TypeOK, PlanFinal, SettledStays
<1>3. CASE CancelPlan(p)
  BY <1>3, FinishKeepsSettled DEF CancelPlan
<1>4. CASE Elapse(p)
  BY <1>4 DEF Elapse, TypeOK, PlanFinal, SettledStays
<1> QED BY <1>1, <1>2, <1>3, <1>4

LEMMA NextKeepsSettled == TypeOK /\ [Next]_vars => SettledStays
<1> SUFFICES ASSUME TypeOK, [Next]_vars PROVE SettledStays
  OBVIOUS
<1>1. ASSUME NEW t \in Threads, Step(t) PROVE SettledStays
  BY <1>1, StepKeepsSettled
<1>2. ASSUME NEW a, NEW w, CreatePlan(a, w) PROVE SettledStays
  BY <1>2, PlanEditsKeepSettled DEF CreatePlan, First, FreePlans
<1>3. ASSUME NEW p \in Plans, NEW a, NEW w, UpdatePlan(p, a, w)
      PROVE  SettledStays
  BY <1>3, PlanEditsKeepSettled
<1>4. ASSUME NEW p \in Plans, CancelPlan(p) \/ Elapse(p) PROVE SettledStays
  BY <1>4, PlanEditsKeepSettled
<1>5. CASE ExpirePlans
  BY <1>5, ExpiringKeepsSettled DEF ExpirePlans
<1>6. CASE ChangeTarget
  BY <1>6 DEF ChangeTarget, NoPlan, PlanFinal, SettledStays
<1>7. ASSUME NEW t \in Threads, Collect(t) \/ Abort(t) PROVE SettledStays
  BY <1>7, SamePlansStay DEF Collect, Abort
<1>8. ASSUME NEW u \in People, NEW e \in Events, NEW d \in DOMAIN StatusOf,
             Decide(u, e, d)
      PROVE  SettledStays
  BY <1>8, SamePlansStay DEF Decide
<1>9. ASSUME NEW c \in Components, NEW v \in Values, Reconfigure(c, v)
      PROVE  SettledStays
  BY <1>9, SamePlansStay DEF Reconfigure
<1>10. CASE ChangeTargetByAssistant \/ UNCHANGED vars
  BY <1>10, SamePlansStay DEF ChangeTargetByAssistant, vars
<1> QED
  BY <1>1, <1>2, <1>3, <1>4, <1>5, <1>6, <1>7, <1>8, <1>9, <1>10
  DEF Next, Threads

\* A plan that was matched, cancelled or has expired is never edited, matched
\* or cancelled again, however the page, the evaluations and the expiry race.
THEOREM PlansFinal == Spec => PlansAreFinal
<1>1. TypeOK /\ [Next]_vars =>
        [\A p \in Plans : plans[p].status \in PlanFinal =>
            \/ plans'[p] = plans[p]
            \/ plans'[p].status = "deleted"]_vars
  BY NextKeepsSettled DEF SettledStays
<1> QED BY <1>1, TypeCorrect, PTL DEF Spec, PlansAreFinal

\* What no step does to a closed event.
ClosedStays ==
    \A e \in Events :
        events[e].status \in Closed /\ events'[e].status # events[e].status =>
            \/ events'[e].status = "deleted"
            \/ \E t \in Threads : At(t, "deciding") /\ thread[t].event = e

LEMMA SameEventsStay == events' = events => ClosedStays
  BY DEF ClosedStays

LEMMA StepKeepsClosed ==
  ASSUME TypeOK, NEW t \in Threads, Step(t) PROVE ClosedStays
<1>1. CASE MarkRecovered(t)
  BY <1>1 DEF MarkRecovered, Recoverable, SetEvent, TypeOK, Closed, ClosedStays
<1>2. CASE WriteDecision(t)
  <2>1. At(t, "deciding")
    BY <1>2 DEF WriteDecision
  <2>2. \A e \in Events : e # thread[t].event => events'[e] = events[e]
    BY <1>2 DEF WriteDecision, SetEvent, TypeOK
  <2> QED BY <2>1, <2>2 DEF ClosedStays
<1>3. CASE UpdateEvent(t)
  <2>1. \A e \in Events : e # thread[t].event => events'[e] = events[e]
    BY <1>3 DEF UpdateEvent, TypeOK
  <2>2. ASSUME thread[t].event \in Events
        PROVE  events'[thread[t].event].status \in
                  {events[thread[t].event].status,
                   SeenAgain(events[thread[t].event].status)}
    BY <1>3, <2>2 DEF UpdateEvent, TypeOK, EventRow
  <2> QED BY <2>1, <2>2 DEF SeenAgain, Closed, ClosedStays
<1>4. CASE InsertEvent(t)
  BY <1>4 DEF InsertEvent, First, FreeEvents, TypeOK, Closed, ClosedStays
<1>5. CASE ~MarkRecovered(t) /\ ~WriteDecision(t) /\ ~UpdateEvent(t)
           /\ ~InsertEvent(t)
  <2>1. events' = events
    BY <1>5 DEF Step, RecordHardware, AddHardware, SaveSnapshot, NoBaseline,
       SaveInitial, ReadBaseline, SaveAugmented, Compare, GetActivePlan,
       SelectToDecide, AcceptPlanned, MatchPlan, SelectEvent, InsertFails
  <2> QED BY <2>1, SameEventsStay
<1> QED BY <1>1, <1>2, <1>3, <1>4, <1>5

LEMMA NextKeepsClosed == TypeOK /\ [Next]_vars => ClosedStays
<1> SUFFICES ASSUME TypeOK, [Next]_vars PROVE ClosedStays
  OBVIOUS
<1>1. ASSUME NEW t \in Threads, Step(t) PROVE ClosedStays
  BY <1>1, StepKeepsClosed
<1>2. CASE ChangeTarget
  BY <1>2 DEF ChangeTarget, TypeOK, EventRow, ClosedStays
<1>3. ASSUME NEW t \in Threads, Collect(t) \/ Abort(t) PROVE ClosedStays
  BY <1>3, SameEventsStay DEF Collect, Abort
<1>4. ASSUME NEW u \in People, NEW e \in Events, NEW d \in DOMAIN StatusOf,
             Decide(u, e, d)
      PROVE  ClosedStays
  BY <1>4, SameEventsStay DEF Decide
<1>5. ASSUME NEW p, NEW a, NEW w, CreatePlan(a, w) \/ UpdatePlan(p, a, w)
                                  \/ CancelPlan(p) \/ Elapse(p)
      PROVE  ClosedStays
  BY <1>5, SameEventsStay DEF CreatePlan, UpdatePlan, CancelPlan, Elapse
<1>6. ASSUME NEW c \in Components, NEW v \in Values, Reconfigure(c, v)
      PROVE  ClosedStays
  BY <1>6, SameEventsStay DEF Reconfigure
<1>7. CASE ExpirePlans \/ ChangeTargetByAssistant \/ UNCHANGED vars
  BY <1>7, SameEventsStay DEF ExpirePlans, ChangeTargetByAssistant, vars
<1> QED
  BY <1>1, <1>2, <1>3, <1>4, <1>5, <1>6, <1>7 DEF Next, Threads

\* An evaluation that carries an event it read while the event was open never
\* changes its status once a person has closed it: only a decision that was
\* selected before does.
THEOREM ClosedByDecision == Spec => ClosedByDecisionOnly
<1>1. TypeOK /\ [Next]_vars =>
        [\A e \in Events :
            events[e].status \in Closed /\ events'[e].status # events[e].status =>
               \/ events'[e].status = "deleted"
               \/ \E t \in Threads : At(t, "deciding") /\ thread[t].event = e]_vars
  BY NextKeepsClosed DEF ClosedStays
<1> QED BY <1>1, TypeCorrect, PTL DEF Spec, ClosedByDecisionOnly

=============================================================================
