---------------------------- MODULE AiStreamProofs ----------------------------
(***************************************************************************)
(* Theorems about the generations of AiStream, for any number of streams,  *)
(* conversations and slots, any tools and settings, any limit of rounds    *)
(* and any number of calls in an answer.                                   *)
(*                                                                         *)
(* Every step but a crash and a restart moves one stream: StreamMoves says *)
(* what it takes for such a step to preserve the inductive invariant.      *)
(* SlotsAreAccounted is counted: a step takes a slot exactly when it makes *)
(* a stream hold one.  CardInterruptsChat rests on CardStops: a stream     *)
(* with a card is past its rounds, or will be when its calls are handled.  *)
(* HInv, proved on top of IInv, is about the stored rows: StreamingIsWritten*)
(* needs that a stream answers for its row at every place of its thread.   *)
(* OInv, on top of both, is about the order of the rows where one chat     *)
(* follows another: OrderlyRequestIsWellFormed is what history_messages    *)
(* makes of rows in that order, whatever the context limit leaves of them. *)
(***************************************************************************)
EXTENDS AiStream, FiniteSetTheorems, SequenceTheorems, WellFoundedInduction,
        TLAPS

StreamRecord ==
    [pc : Places, conv : Conversations \cup {NoConversation}, engine : Engines,
     mode : Modes, role : Roles, rounds : Nat, made : Nat, handled : Nat,
     stop : BOOLEAN, capped : BOOLEAN, wrote : BOOLEAN, cancel : BOOLEAN,
     did : Tools \cup {NoTool}, status : Ended \cup {"streaming"}]

\* NothingRunsUnasked, of one stream.
Asked(r) ==
    r.did # NoTool =>
        /\ r.mode # "limited"
        /\ LevelOf(r.did) = "action" =>
              r.mode = "full" /\ r.did \notin {"upsert_server", "import_discovered_services"}
        /\ r.did \in AdminOnly => r.role = "admin"

Stops(r) ==
    /\ r.pc \in {"handling", "submitting", "finishing", "closing", "ended", "dead"}
    /\ r.pc \in {"handling", "submitting"} => r.stop

\* The streams that hold a slot.
Holders == {s \in Streams : stream[s].pc \in Occupied}

StreamsOK == stream \in [Streams -> StreamRecord] /\ alive \subseteq Conversations
Counted == permits \in Nat /\ permits + Cardinality(Holders) = Slots
AllAsked == \A s \in Streams : Asked(stream[s])
CardStops == \A k \in cards : k[1] \in Streams /\ Stops(stream[k[1]])

IInv == StreamsOK /\ Counted /\ AllAsked /\ CardStops

-----------------------------------------------------------------------------
(* The counting of slots.                                                  *)

\* There are finitely many.
LEMMA HoldersAreFinite == IsFiniteSet(Holders) /\ Cardinality(Holders) \in Nat
<1>1. Holders \subseteq Streams
  BY DEF Holders
<1> QED BY <1>1, StreamAssumption, FS_Subset, FS_CardinalityType

\* A step that leaves each stream as much a holder as it was keeps the count.
LEMMA SameHolders ==
  ASSUME Counted, permits' = permits,
         \A s \in Streams : stream'[s].pc \in Occupied <=> stream[s].pc \in Occupied
  PROVE  Counted'
<1>1. Holders' = Holders
  BY DEF Holders
<1> QED BY <1>1 DEF Counted

\* A stream that becomes a holder takes a slot.
LEMMA TakesPermit ==
  ASSUME Counted, NEW s \in Streams, stream[s].pc \notin Occupied, stream'[s].pc \in Occupied,
         \A q \in Streams \ {s} : stream'[q] = stream[q],
         permits > 0, permits' = permits - 1
  PROVE  Counted'
<1>1. Holders' = Holders \cup {s} /\ s \notin Holders
  BY DEF Holders
<1>2. Cardinality(Holders') = Cardinality(Holders) + 1
  BY <1>1, HoldersAreFinite, FS_AddElement
<1> QED BY <1>2, HoldersAreFinite DEF Counted

\* A stream that ceases to be a holder gives its slot back.
LEMMA GivesPermitBack ==
  ASSUME Counted, NEW s \in Streams, stream[s].pc \in Occupied, stream'[s].pc \notin Occupied,
         \A q \in Streams \ {s} : stream'[q] = stream[q],
         permits' = permits + 1
  PROVE  Counted'
<1>1. Holders' = Holders \ {s} /\ s \in Holders
  BY DEF Holders
<1>2. Cardinality(Holders') = Cardinality(Holders) - 1
  BY <1>1, HoldersAreFinite, FS_RemoveElement
<1> QED BY <1>2, HoldersAreFinite DEF Counted

-----------------------------------------------------------------------------
(* What a call may do.                                                     *)

\* A call that runs or returns a result was free to: execute() has looked at
\* the role, and the access mode has let it pass.
LEMMA OutcomeIsAsked ==
  ASSUME NEW mode \in Modes, NEW role \in Roles, NEW t,
         NEW o \in Outcomes(mode, role, t), o \in {"result", "run"}
  PROVE  /\ mode # "limited"
         /\ LevelOf(t) = "action" =>
               mode = "full" /\ t \notin {"upsert_server", "import_discovered_services"}
         /\ t \in AdminOnly => role = "admin"
<1>1. ~(mode = "limited" /\ t \notin ActionTools)
  BY DEF Outcomes
<1>2. PICK r \in Execute(t, role) :
         o = CASE r = "action" /\ mode = "full" /\ t \notin AlwaysConfirm -> "run"
               [] r = "action" /\ (mode # "full" \/ t \in AlwaysConfirm) -> "confirm"
               [] OTHER -> r
  BY <1>1 DEF Outcomes
<1>3. t \in AvailableSpecs(role)
  <2>1. CASE t \notin AvailableSpecs(role)
    <3>1. r = "error"
      BY <2>1 DEF Execute
    <3> QED BY <3>1, <1>2
  <2> QED BY <2>1
<1>4. r \in {"error", IF t \in ActionTools THEN "action" ELSE "result"}
  BY <1>3 DEF Execute
<1>5. r # "error"
  BY <1>2
<1>6. LevelOf(t) = "action" => t \in ActionTools
  BY DEF LevelOf
<1>7. CASE t \in ActionTools
  <2>1. r = "action"
    BY <1>4, <1>5, <1>7
  <2>2. mode = "full" /\ t \notin AlwaysConfirm
    BY <2>1, <1>2
  <2> QED BY <2>2, <1>3 DEF AlwaysConfirm, LedgerActions, AvailableSpecs
<1>8. CASE t \notin ActionTools
  BY <1>8, <1>1, <1>3, <1>6 DEF AvailableSpecs
<1> QED BY <1>7, <1>8

-----------------------------------------------------------------------------
(* A step of one stream.                                                   *)

\* The step takes a slot, or gives it back, or neither, as the stream goes from
\* one place to another; what the stream did was free to; its cards stay right.
LEMMA StreamMoves ==
  ASSUME IInv, NEW s \in Streams, NEW r \in StreamRecord,
         stream' = [stream EXCEPT ![s] = r],
         \/ permits' = permits /\ (r.pc \in Occupied <=> stream[s].pc \in Occupied)
         \/ permits > 0 /\ permits' = permits - 1 /\ r.pc \in Occupied /\ stream[s].pc \notin Occupied
         \/ permits' = permits + 1 /\ r.pc \notin Occupied /\ stream[s].pc \in Occupied,
         Asked(r),
         Stops(stream[s]) => Stops(r),
         \A k \in cards' : k \in cards \/ (k[1] = s /\ Stops(r)),
         alive' \subseteq alive
  PROVE  IInv'
<1>1. stream'[s] = r /\ \A q \in Streams \ {s} : stream'[q] = stream[q]
  BY DEF IInv, StreamsOK
<1>2. StreamsOK'
  BY DEF IInv, StreamsOK
<1>3. AllAsked'
  BY <1>1 DEF IInv, AllAsked
<1>4. CardStops'
  BY <1>1 DEF IInv, CardStops
<1>5. Counted'
  <2>1. CASE permits' = permits /\ (r.pc \in Occupied <=> stream[s].pc \in Occupied)
    BY <1>1, <2>1, SameHolders DEF IInv
  <2>2. CASE permits > 0 /\ permits' = permits - 1 /\ r.pc \in Occupied /\ stream[s].pc \notin Occupied
    BY <1>1, <2>2, TakesPermit DEF IInv
  <2>3. CASE permits' = permits + 1 /\ r.pc \notin Occupied /\ stream[s].pc \in Occupied
    BY <1>1, <2>3, GivesPermitBack DEF IInv
  <2> QED BY <2>1, <2>2, <2>3
<1> QED BY <1>2, <1>3, <1>4, <1>5 DEF IInv

\* A step that leaves the streams and the slots alone.
LEMMA StreamsStay ==
  ASSUME IInv, UNCHANGED <<stream, permits>>, cards' \subseteq cards, alive' \subseteq alive
  PROVE  IInv'
<1>1. Holders' = Holders
  BY DEF Holders
<1> QED BY <1>1 DEF IInv, StreamsOK, Counted, AllAsked, CardStops

\* The record of a stream that is not used, or has ended.
LEMMA FreshIsAsked ==
  ASSUME NEW pc \in Places, NEW c \in Conversations \cup {NoConversation}
  PROVE  /\ [Fresh EXCEPT !.pc = pc, !.conv = c] \in StreamRecord
         /\ Asked([Fresh EXCEPT !.pc = pc, !.conv = c])
  BY StreamAssumption DEF Fresh, StreamRecord, Asked, Engines, Modes, Roles, Ended

-----------------------------------------------------------------------------
(* The invariant.                                                          *)

\* All slots are free and no stream has begun.
LEMMA InitImpliesInv == Init => IInv
<1> SUFFICES ASSUME Init PROVE IInv
  OBVIOUS
<1>1. Fresh \in StreamRecord /\ Asked(Fresh) /\ Fresh.pc \notin Occupied
  BY StreamAssumption DEF Fresh, StreamRecord, Places, Engines, Modes, Roles, Ended, Asked, Occupied, Held
<1>2. Holders = {}
  BY <1>1 DEF Init, Holders
<1>3. Counted
  BY <1>2, FS_EmptySet, StreamAssumption DEF Init, Counted
<1> QED BY <1>1, <1>3 DEF Init, IInv, StreamsOK, AllAsked, CardStops

\* A worker that moves on within its slot, with what it has done unchanged, or
\* forgotten.
LEMMA WorkerMoves ==
  ASSUME IInv, NEW s \in Streams, NEW r \in StreamRecord,
         stream' = [stream EXCEPT ![s] = r], permits' = permits, cards' = cards, alive' = alive,
         \/ r.did = NoTool
         \/ r.did = stream[s].did /\ r.mode = stream[s].mode /\ r.role = stream[s].role,
         stream[s].pc \in Occupied, r.pc \in Occupied,
         Stops(stream[s]) => Stops(r)
  PROVE  IInv'
<1>1. Asked(r)
  BY DEF IInv, AllAsked, Asked
<1>2. \/ permits' = permits /\ (r.pc \in Occupied <=> stream[s].pc \in Occupied)
      \/ permits > 0 /\ permits' = permits - 1 /\ r.pc \in Occupied /\ stream[s].pc \notin Occupied
      \/ permits' = permits + 1 /\ r.pc \notin Occupied /\ stream[s].pc \in Occupied
  OBVIOUS
<1>3. \A k \in cards' : k \in cards \/ (k[1] = s /\ Stops(r))
  OBVIOUS
<1>4. alive' \subseteq alive
  OBVIOUS
<1> QED BY <1>1, <1>2, <1>3, <1>4, StreamMoves

\* What BeginRound makes of a stream is a stream.
LEMMA RoundRecord ==
  ASSUME NEW r \in StreamRecord, NEW n \in Nat, NEW b \in BOOLEAN
  PROVE  [r EXCEPT !.pc = "asking", !.rounds = n, !.capped = b] \in StreamRecord
  BY Zenon DEF StreamRecord, Places

\* What Conclude keeps of a stream.
Concluded(q, status, w) ==
    [Fresh EXCEPT !.pc = "finishing", !.conv = q.conv, !.made = q.made,
                  !.handled = q.handled, !.status = status, !.wrote = w]

\* It is a stream too, which asks the model nothing more and runs nothing.
LEMMA FinalRecord ==
  ASSUME NEW q \in StreamRecord, NEW status \in Ended, NEW w \in BOOLEAN
  PROVE  LET r == Concluded(q, status, w)
         IN  /\ r \in StreamRecord
             /\ r.pc = "finishing" /\ r.status = status /\ r.conv = q.conv /\ r.rounds = 0
             /\ r.made = q.made /\ r.handled = q.handled /\ r.did = NoTool
<1> DEFINE f == [Fresh EXCEPT !.pc = "finishing", !.conv = q.conv]
           r == Concluded(q, status, w)
<1>1. q.conv \in Conversations \cup {NoConversation} /\ q.made \in Nat /\ q.handled \in Nat
  BY DEF StreamRecord
<1>2. f \in StreamRecord
  BY <1>1, FreshIsAsked DEF Places
<1>3. r = [f EXCEPT !.made = q.made, !.handled = q.handled, !.status = status, !.wrote = w]
  BY DEF Concluded, Fresh
<1>4. [f EXCEPT !.made = q.made, !.handled = q.handled, !.status = status, !.wrote = w]
         \in StreamRecord
  <2> HIDE DEF f
  <2> QED BY <1>1, <1>2, Zenon DEF StreamRecord
<1>5. /\ r.pc = "finishing" /\ r.status = status /\ r.conv = q.conv /\ r.rounds = 0
      /\ r.made = q.made /\ r.handled = q.handled /\ r.did = NoTool
  BY DEF Concluded, Fresh
<1> QED BY <1>3, <1>4, <1>5

\* A step that concludes makes just that of the stream.
LEMMA ConcludeMakes ==
  ASSUME stream \in [Streams -> StreamRecord], NEW s \in Streams,
         NEW status, NEW w, Conclude(s, status, w)
  PROVE  stream' = [stream EXCEPT ![s] = Concluded(stream[s], status, stream[s].wrote \/ w)]
  BY DEF Conclude, Concluded, Conv

\* Concluding keeps the slot and the cards.
LEMMA ConcludingKeepsInv ==
  ASSUME IInv, NEW s \in Streams, NEW status \in Ended, NEW w \in BOOLEAN,
         Conclude(s, status, w), stream[s].pc \in Occupied, UNCHANGED <<permits, cards, alive>>
  PROVE  IInv'
<1> DEFINE r == Concluded(stream[s], status, stream[s].wrote \/ w)
<1>1. stream \in [Streams -> StreamRecord] /\ (stream[s].wrote \/ w) \in BOOLEAN
  BY DEF IInv, StreamsOK
<1>2. r \in StreamRecord /\ r.pc = "finishing" /\ r.did = NoTool
  BY <1>1, FinalRecord
<1>3. stream' = [stream EXCEPT ![s] = r]
  BY <1>1, ConcludeMakes
<1> HIDE DEF r
<1>4. r.pc \in Occupied /\ Stops(r)
  BY <1>2 DEF Occupied, Held, Stops
<1> QED BY <1>2, <1>3, <1>4, WorkerMoves

\* What HandleCall makes of a stream is one, whether the row of its result is inserted or not.
LEMMA CallRecord ==
  ASSUME NEW r \in StreamRecord, NEW t \in Tools \cup {NoTool}, NEW n \in Nat, NEW pc \in Places
  PROVE  /\ [r EXCEPT !.did = t, !.handled = n, !.pc = pc] \in StreamRecord
         /\ [r EXCEPT !.did = t, !.pc = "finishing", !.status = "failed"] \in StreamRecord
<1>1. [r EXCEPT !.did = t, !.handled = n, !.pc = pc] \in StreamRecord
  BY Zenon DEF StreamRecord
<1>2. [r EXCEPT !.did = t, !.pc = "finishing", !.status = "failed"] \in StreamRecord
  BY Zenon DEF StreamRecord, Places, Ended
<1> QED BY <1>1, <1>2

\* The same for AnswerWithCalls.
LEMMA MadeRecord ==
  ASSUME NEW r \in StreamRecord, NEW n \in Nat
  PROVE  [r EXCEPT !.pc = "handling", !.made = n] \in StreamRecord
  BY DEF StreamRecord, Places

\* Whatever fails in the client, the worker concludes.
LEMMA FailureConcludes ==
  ASSUME NEW s \in Streams, ClientFails(s)
  PROVE  \E status \in Ended, w \in BOOLEAN : Conclude(s, status, w)
<1>1. PICK wrote \in BOOLEAN, canFallBack \in BOOLEAN :
         Conclude(s, CASE stream[s].cancel -> "canceled"
                       [] ~stream[s].cancel /\ canFallBack /\ (~stream[s].wrote /\ ~wrote) -> "done"
                       [] OTHER -> "failed",
                  wrote \/ (canFallBack /\ ~stream[s].cancel))
  BY DEF ClientFails
<1>2. (CASE stream[s].cancel -> "canceled"
         [] ~stream[s].cancel /\ canFallBack /\ (~stream[s].wrote /\ ~wrote) -> "done"
         [] OTHER -> "failed") \in Ended
  BY DEF Ended
<1> QED BY <1>1, <1>2

\* A chat begins, or is resumed.
LEMMA ChatBegins ==
  ASSUME IInv, NEW s \in Streams, NEW c \in Conversations, Begin(s, c),
         cards' = cards, alive' = alive
  PROVE  IInv'
<1>1. PICK set \in Settings :
         stream' = [stream EXCEPT ![s] = [Fresh EXCEPT !.pc = "preparing", !.conv = c,
                        !.mode = set.mode, !.role = set.role, !.engine = set.engine]]
  BY DEF Begin
<1> DEFINE r == [Fresh EXCEPT !.pc = "preparing", !.conv = c,
                        !.mode = set.mode, !.role = set.role, !.engine = set.engine]
<1>2. set.mode \in Modes /\ set.role \in Roles /\ set.engine \in Engines
  BY StreamAssumption
<1>3. r \in StreamRecord /\ Asked(r) /\ r.pc \in Occupied
  BY <1>2 DEF Fresh, StreamRecord, Places, Ended, Asked, Occupied, Held
<1>4. stream[s].pc \notin Occupied /\ ~Stops(stream[s])
  BY DEF Begin, At, Occupied, Held, Stops
<1>5. permits > 0 /\ permits' = permits - 1
  BY DEF Begin
<1>6. \A k \in cards' : k \in cards \/ (k[1] = s /\ Stops(r))
  OBVIOUS
<1> HIDE DEF r
<1> QED BY <1>1, <1>3, <1>4, <1>5, <1>6, StreamMoves DEF r

\* Every step of a worker, the beginning of a chat or an insight, a request to
\* cancel, a decision, a deletion, a crash and a restart preserve the invariant.
LEMMA StepPreservesInv == IInv /\ [Next]_vars => IInv'
<1> SUFFICES ASSUME IInv, [Next]_vars PROVE IInv'
  OBVIOUS
<1>0. \A s \in Streams : stream[s] \in StreamRecord
  BY DEF IInv, StreamsOK
<1>1. ASSUME NEW s \in Streams, Register(s) PROVE IInv'
  <2> DEFINE r == [stream[s] EXCEPT !.pc = "reading"]
  <2>. stream[s].rounds + 1 \in Nat /\ stream[s].made \in Nat /\ stream[s].handled \in Nat
    BY <1>0 DEF StreamRecord
  <2>1. r \in StreamRecord
    BY <1>0 DEF StreamRecord, Places, Ended
  <2>2. stream' = [stream EXCEPT ![s] = r]
    BY <1>1, <1>0, <1>1 DEF Register, Goto, IInv, StreamsOK
  <2>3. permits' = permits /\ cards' = cards /\ alive' = alive
    BY <1>1 DEF Register, Goto
  <2>4. stream[s].pc \in Occupied /\ r.pc \in Occupied /\ (Stops(stream[s]) => Stops(r))
    BY <1>0, <1>1 DEF Register, Goto, At, Occupied, Held, Stops, StreamRecord
  <2>5. r.did = stream[s].did /\ r.mode = stream[s].mode /\ r.role = stream[s].role
    BY <1>0 DEF StreamRecord
  <2> QED BY <2>1, <2>2, <2>3, <2>4, <2>5, WorkerMoves
<1>2. ASSUME NEW s \in Streams, StartFails(s) PROVE IInv'
  <2> DEFINE r == [Fresh EXCEPT !.pc = "ended"]
  <2>1. r \in StreamRecord /\ Asked(r) /\ Stops(r) /\ r.pc \notin Occupied
    BY StreamAssumption
    DEF Fresh, StreamRecord, Places, Engines, Modes, Roles, Ended, Asked, Stops, Occupied, Held
  <2>2. stream[s].pc \in Occupied /\ permits' = permits + 1 /\ cards' = cards /\ alive' = alive
    BY <1>2 DEF StartFails, At, Occupied, Held, ReleasePermit
  <2>3. stream' = [stream EXCEPT ![s] = r]
    BY <1>2 DEF StartFails
  <2> HIDE DEF r
  <2> QED BY <2>1, <2>2, <2>3, StreamMoves
<1>3. ASSUME NEW s \in Streams, AnswerByRules(s) PROVE IInv'
  <2>1. Conclude(s, "done", TRUE) /\ UNCHANGED <<permits, cards, alive>> /\ stream[s].pc \in Occupied
    BY <1>3 DEF AnswerByRules, At, Occupied, Held
  <2> QED BY <2>1, ConcludingKeepsInv DEF Ended
<1>4. ASSUME NEW s \in Streams, ReadHistory(s) PROVE IInv'
  <2>1. stream[s].pc \in Occupied /\ ~Stops(stream[s])
    BY <1>4 DEF ReadHistory, At, Occupied, Held, Stops
  <2>2. permits' = permits /\ cards' = cards /\ alive' = alive
    BY <1>4 DEF ReadHistory
  <2>3. CASE stream' = [stream EXCEPT ![s].pc = "asking", ![s].rounds = 1]
    <3> DEFINE r == [stream[s] EXCEPT !.pc = "asking", !.rounds = 1]
    <3>1. r \in StreamRecord
      BY <1>0 DEF StreamRecord, Places
    <3>2. stream' = [stream EXCEPT ![s] = r]
      BY <2>3 DEF IInv, StreamsOK
    <3>3. r.pc \in Occupied /\ r.did = stream[s].did /\ r.mode = stream[s].mode /\ r.role = stream[s].role
      BY <1>0 DEF StreamRecord, Occupied, Held
    <3> QED BY <2>1, <2>2, <3>1, <3>2, <3>3, WorkerMoves
  <2>4. CASE stream' = [stream EXCEPT ![s].pc = "round"]
    <3> DEFINE r == [stream[s] EXCEPT !.pc = "round"]
    <3>1. r \in StreamRecord
      BY <1>0 DEF StreamRecord, Places
    <3>2. stream' = [stream EXCEPT ![s] = r]
      BY <2>4 DEF IInv, StreamsOK
    <3>3. r.pc \in Occupied /\ r.did = stream[s].did /\ r.mode = stream[s].mode /\ r.role = stream[s].role
      BY <1>0 DEF StreamRecord, Occupied, Held
    <3> QED BY <2>1, <2>2, <3>1, <3>2, <3>3, WorkerMoves
  <2> QED BY <1>4, <2>3, <2>4 DEF ReadHistory, Goto
<1>5. ASSUME NEW s \in Streams, BeginRound(s) PROVE IInv'
  <2>0. PICK capped \in BOOLEAN : stream' = [stream EXCEPT ![s].pc = "asking",
                               ![s].rounds = @ + 1, ![s].capped = capped]
    BY <1>5 DEF BeginRound, Caps
  <2> DEFINE r == [stream[s] EXCEPT !.pc = "asking", !.rounds = stream[s].rounds + 1, !.capped = capped]
  <2>. stream[s].rounds + 1 \in Nat /\ stream[s].made \in Nat /\ stream[s].handled \in Nat
    BY <1>0 DEF StreamRecord
  <2>1. r \in StreamRecord
    BY <2>0, <1>0, RoundRecord
  <2>2. stream' = [stream EXCEPT ![s] = r]
    BY <2>0, <1>0, <1>5 DEF BeginRound, Caps, IInv, StreamsOK
  <2>3. permits' = permits /\ cards' = cards /\ alive' = alive
    BY <1>5 DEF BeginRound, Caps
  <2>4. stream[s].pc \in Occupied /\ r.pc \in Occupied /\ (Stops(stream[s]) => Stops(r))
    BY <1>0, <1>5 DEF BeginRound, Caps, At, Occupied, Held, Stops, StreamRecord
  <2>5. r.did = stream[s].did /\ r.mode = stream[s].mode /\ r.role = stream[s].role
    BY <1>0 DEF StreamRecord
  <2> QED BY <2>1, <2>2, <2>3, <2>4, <2>5, WorkerMoves
<1>6. ASSUME NEW s \in Streams, StopCanceled(s) PROVE IInv'
  <2>1. Conclude(s, "canceled", FALSE) /\ UNCHANGED <<permits, cards, alive>> /\ stream[s].pc \in Occupied
    BY <1>6 DEF StopCanceled, At, Occupied, Held
  <2> QED BY <2>1, ConcludingKeepsInv DEF Ended
<1>7. ASSUME NEW s \in Streams, Answer(s) PROVE IInv'
  <2>1. Conclude(s, "done", TRUE) /\ UNCHANGED <<permits, cards, alive>> /\ stream[s].pc \in Occupied
    BY <1>7 DEF Answer, At, Occupied, Held
  <2> QED BY <2>1, ConcludingKeepsInv DEF Ended
<1>8. ASSUME NEW s \in Streams, AnswerWithCalls(s) PROVE IInv'
  <2>1. PICK n \in 1 .. CallsPerRound :
          stream' = [stream EXCEPT ![s].pc = "handling", ![s].made = @ + n]
    BY <1>8 DEF AnswerWithCalls
  <2> DEFINE r == [stream[s] EXCEPT !.pc = "handling", !.made = stream[s].made + n]
  <2>2. stream[s].made + n \in Nat
    BY <1>0, StreamAssumption DEF StreamRecord
  <2>3. r \in StreamRecord
    BY <1>0, <2>2, MadeRecord
  <2>4. stream' = [stream EXCEPT ![s] = r]
    BY <2>1 DEF IInv, StreamsOK
  <2>5. permits' = permits /\ cards' = cards /\ alive' = alive
    BY <1>8 DEF AnswerWithCalls
  <2>6. stream[s].pc \in Occupied /\ r.pc \in Occupied /\ ~Stops(stream[s])
    BY <1>0, <1>8 DEF AnswerWithCalls, At, Occupied, Held, Stops, StreamRecord
  <2>7. r.did = stream[s].did /\ r.mode = stream[s].mode /\ r.role = stream[s].role
    BY <1>0 DEF StreamRecord
  <2> QED BY <2>3, <2>4, <2>5, <2>6, <2>7, WorkerMoves
<1>9. ASSUME NEW s \in Streams, ClientFails(s) PROVE IInv'
  <2>1. PICK status \in Ended, w \in BOOLEAN : Conclude(s, status, w)
    BY <1>9, FailureConcludes
  <2>2. UNCHANGED <<permits, cards, alive>> /\ stream[s].pc \in Occupied
    BY <1>9 DEF ClientFails, At, Occupied, Held
  <2> QED BY <2>1, <2>2, ConcludingKeepsInv
<1>10. ASSUME NEW s \in Streams, NEW t \in Tools, HandleCall(s, t) PROVE IInv'
  <2>1. PICK o \in Outcomes(stream[s].mode, stream[s].role, t) :
          LET did == IF o \in {"result", "run"} THEN t ELSE NoTool
          IN  IF Conv(s) \in alive
              THEN /\ Append1(Conv(s), ToolRow(s, stream[s].handled + 1))
                   /\ stream' = [stream EXCEPT
                         ![s].did = did, ![s].handled = @ + 1,
                         ![s].pc = IF o = "confirm" THEN "submitting" ELSE @]
              ELSE CallRaises(s, did)
    BY <1>10 DEF HandleCall
  <2> DEFINE did == IF o \in {"result", "run"} THEN t ELSE NoTool
  <2>2. did \in Tools \cup {NoTool}
    OBVIOUS
  <2>3. permits' = permits /\ cards' = cards /\ alive' = alive /\ stream[s].pc = "handling"
    BY <1>10 DEF HandleCall, At
  <2>4. stream[s].mode \in Modes /\ stream[s].role \in Roles /\ stream[s].handled + 1 \in Nat
    BY <1>0 DEF StreamRecord
  <2>5. did # NoTool =>
          /\ stream[s].mode # "limited"
          /\ LevelOf(did) = "action" =>
               stream[s].mode = "full" /\ did \notin {"upsert_server", "import_discovered_services"}
          /\ did \in AdminOnly => stream[s].role = "admin"
    BY <2>4, OutcomeIsAsked
  <2> HIDE DEF did
  <2>6. CASE Conv(s) \in alive
    <3> DEFINE pc == IF o = "confirm" THEN "submitting" ELSE stream[s].pc
               r == [stream[s] EXCEPT !.did = did, !.handled = stream[s].handled + 1, !.pc = pc]
    <3>1. pc \in Places /\ pc \in {"handling", "submitting"} /\ pc \in Occupied
      BY <2>3 DEF Places, Occupied, Held
    <3> HIDE DEF pc
    <3>2. r \in StreamRecord
      BY <1>0, <2>2, <2>4, <3>1, CallRecord
    <3>3. stream' = [stream EXCEPT ![s] = r]
      BY <2>1, <2>6 DEF IInv, StreamsOK, did, pc
    <3>4. Asked(r)
      BY <1>0, <2>5 DEF Asked, StreamRecord
    <3>5. r.pc = pc /\ (Stops(stream[s]) => Stops(r))
      BY <1>0, <2>3, <3>1 DEF Stops, StreamRecord
    <3> HIDE DEF r
    <3> QED BY <2>3, <3>1, <3>2, <3>3, <3>4, <3>5, StreamMoves DEF Occupied, Held
  <2>7. CASE Conv(s) \notin alive
    <3> DEFINE r == [stream[s] EXCEPT !.did = did, !.pc = "finishing", !.status = "failed"]
    <3>1. r \in StreamRecord
      BY <1>0, <2>2, CallRecord DEF Places
    <3>2. stream' = [stream EXCEPT ![s] = r]
      BY <2>1, <2>7 DEF IInv, StreamsOK, did, CallRaises
    <3>3. Asked(r)
      BY <1>0, <2>5 DEF Asked, StreamRecord
    <3>4. r.pc \in Occupied /\ Stops(r)
      BY <1>0 DEF Stops, StreamRecord, Occupied, Held
    <3> HIDE DEF r
    <3> QED BY <2>3, <3>1, <3>2, <3>3, <3>4, StreamMoves DEF Occupied, Held
  <2> QED BY <2>6, <2>7
<1>11. ASSUME NEW s \in Streams, SubmitCard(s) PROVE IInv'
  <2> DEFINE r == [stream[s] EXCEPT !.pc = "handling", !.stop = TRUE, !.wrote = TRUE,
                                    !.did = NoTool]
  <2>1. r \in StreamRecord /\ Stops(r) /\ r.pc \in Occupied
    BY <1>0 DEF StreamRecord, Places, Stops, Occupied, Held
  <2>2. stream' = [stream EXCEPT ![s] = r]
    BY <1>11 DEF SubmitCard, IInv, StreamsOK
  <2>3. Asked(r)
    BY <1>0 DEF IInv, AllAsked, Asked, StreamRecord
  <2>4. permits' = permits /\ alive' = alive /\ stream[s].pc \in Occupied
    BY <1>11 DEF SubmitCard, At, Occupied, Held
  <2>5. \A k \in cards' : k \in cards \/ (k[1] = s /\ Stops(r))
    BY <1>11, <2>1 DEF SubmitCard
  <2> HIDE DEF r
  <2> QED BY <2>1, <2>2, <2>3, <2>4, <2>5, StreamMoves
<1>12. ASSUME NEW s \in Streams, WorkerRaises(s) PROVE IInv'
  <2>1. Conclude(s, "failed", FALSE) /\ UNCHANGED <<permits, cards, alive>> /\ stream[s].pc \in Occupied
    BY <1>12 DEF WorkerRaises, At, Occupied, Held
  <2> QED BY <2>1, ConcludingKeepsInv DEF Ended
<1>13. ASSUME NEW s \in Streams, RoundEnds(s) PROVE IInv'
  <2>1. stream[s].pc = "handling" /\ permits' = permits /\ cards' = cards /\ alive' = alive
    BY <1>13 DEF RoundEnds, At
  <2>2. CASE stream[s].stop
    <3>1. Conclude(s, "done", FALSE) /\ stream[s].pc \in Occupied
      BY <1>13, <2>1, <2>2 DEF RoundEnds, Occupied, Held
    <3> QED BY <2>1, <3>1, ConcludingKeepsInv DEF Ended
  <2>3. CASE ~stream[s].stop
    <3> DEFINE r == [stream[s] EXCEPT !.pc = "round", !.did = NoTool]
    <3>1. r \in StreamRecord
      BY <1>0 DEF StreamRecord, Places
    <3>2. stream' = [stream EXCEPT ![s] = r]
      BY <1>13, <2>3 DEF RoundEnds, IInv, StreamsOK
    <3>3. r.did = NoTool
      BY <1>0 DEF StreamRecord
    <3>4. stream[s].pc \in Occupied /\ r.pc \in Occupied /\ ~Stops(stream[s])
      BY <1>0, <2>1, <2>3 DEF StreamRecord, Occupied, Held, Stops
    <3> QED BY <2>1, <3>1, <3>2, <3>3, <3>4, WorkerMoves
  <2> QED BY <2>2, <2>3
<1>14. ASSUME NEW s \in Streams, Finalize(s) PROVE IInv'
  <2> DEFINE r == [stream[s] EXCEPT !.pc = "closing"]
  <2>. stream[s].rounds + 1 \in Nat /\ stream[s].made \in Nat /\ stream[s].handled \in Nat
    BY <1>0 DEF StreamRecord
  <2>1. r \in StreamRecord
    BY <1>0 DEF StreamRecord, Places, Ended
  <2>2. stream' = [stream EXCEPT ![s] = r]
    BY <1>14, <1>0, <1>14 DEF Finalize, Goto, IInv, StreamsOK
  <2>3. permits' = permits /\ cards' = cards /\ alive' = alive
    BY <1>14 DEF Finalize, Goto
  <2>4. stream[s].pc \in Occupied /\ r.pc \in Occupied /\ (Stops(stream[s]) => Stops(r))
    BY <1>0, <1>14 DEF Finalize, Goto, At, Occupied, Held, Stops, StreamRecord
  <2>5. r.did = stream[s].did /\ r.mode = stream[s].mode /\ r.role = stream[s].role
    BY <1>0 DEF StreamRecord
  <2> QED BY <2>1, <2>2, <2>3, <2>4, <2>5, WorkerMoves
<1>15. ASSUME NEW s \in Streams, FinalizeFails(s) PROVE IInv'
  <2> DEFINE r == [stream[s] EXCEPT !.pc = "closing"]
  <2>. stream[s].rounds + 1 \in Nat /\ stream[s].made \in Nat /\ stream[s].handled \in Nat
    BY <1>0 DEF StreamRecord
  <2>1. r \in StreamRecord
    BY <1>0 DEF StreamRecord, Places, Ended
  <2>2. stream' = [stream EXCEPT ![s] = r]
    BY <1>15, <1>0, <1>15 DEF FinalizeFails, Goto, IInv, StreamsOK
  <2>3. permits' = permits /\ cards' = cards /\ alive' = alive
    BY <1>15 DEF FinalizeFails, Goto
  <2>4. stream[s].pc \in Occupied /\ r.pc \in Occupied /\ (Stops(stream[s]) => Stops(r))
    BY <1>0, <1>15 DEF FinalizeFails, Goto, At, Occupied, Held, Stops, StreamRecord
  <2>5. r.did = stream[s].did /\ r.mode = stream[s].mode /\ r.role = stream[s].role
    BY <1>0 DEF StreamRecord
  <2> QED BY <2>1, <2>2, <2>3, <2>4, <2>5, WorkerMoves
<1>16. ASSUME NEW s \in Streams, Close(s) PROVE IInv'
  <2> DEFINE r == [Fresh EXCEPT !.pc = "ended", !.conv = Conv(s)]
  <2>1. Conv(s) \in Conversations \cup {NoConversation}
    BY <1>0 DEF Conv, StreamRecord
  <2>2. r \in StreamRecord /\ Asked(r) /\ Stops(r) /\ r.pc \notin Occupied
    BY <2>1, StreamAssumption
    DEF Fresh, StreamRecord, Places, Engines, Modes, Roles, Ended, Asked, Stops, Occupied, Held
  <2>3. stream[s].pc \in Occupied /\ permits' = permits + 1 /\ cards' = cards /\ alive' = alive
    BY <1>16 DEF Close, At, Occupied, Held, ReleasePermit
  <2>4. stream' = [stream EXCEPT ![s] = r]
    BY <1>16 DEF Close
  <2> HIDE DEF r
  <2> QED BY <2>2, <2>3, <2>4, StreamMoves
<1>17. ASSUME NEW s \in Streams, StartInsight(s) PROVE IInv'
  <2>1. PICK engine \in {"plain", "rules"} :
          stream' = [stream EXCEPT ![s] = [Fresh EXCEPT !.pc = "reading", !.engine = engine]]
    BY <1>17 DEF StartInsight
  <2> DEFINE r == [Fresh EXCEPT !.pc = "reading", !.engine = engine]
  <2>2. r \in StreamRecord /\ Asked(r) /\ r.pc \in Occupied
    BY StreamAssumption
    DEF Fresh, StreamRecord, Places, Engines, Modes, Roles, Ended, Asked, Occupied, Held
  <2>3. stream[s].pc \notin Occupied /\ ~Stops(stream[s])
    BY <1>17 DEF StartInsight, At, Occupied, Held, Stops
  <2>4. permits > 0 /\ permits' = permits - 1 /\ cards' = cards /\ alive' = alive
    BY <1>17 DEF StartInsight
  <2> HIDE DEF r
  <2> QED BY <2>1, <2>2, <2>3, <2>4, StreamMoves DEF r
<1>18. ASSUME NEW s \in Streams, Cancel(s) PROVE IInv'
  <2> DEFINE r == [stream[s] EXCEPT !.cancel = TRUE]
  <2>. stream[s].rounds + 1 \in Nat /\ stream[s].made \in Nat /\ stream[s].handled \in Nat
    BY <1>0 DEF StreamRecord
  <2>1. r \in StreamRecord
    BY <1>0 DEF StreamRecord, Places, Ended
  <2>2. stream' = [stream EXCEPT ![s] = r]
    BY <1>18, <1>0, <1>18 DEF Cancel, IInv, StreamsOK
  <2>3. permits' = permits /\ cards' = cards /\ alive' = alive
    BY <1>18 DEF Cancel
  <2>4. stream[s].pc \in Occupied /\ r.pc \in Occupied /\ (Stops(stream[s]) => Stops(r))
    BY <1>0, <1>18 DEF Cancel, At, Occupied, Running, Held, Stops, StreamRecord
  <2>5. r.did = stream[s].did /\ r.mode = stream[s].mode /\ r.role = stream[s].role
    BY <1>0 DEF StreamRecord
  <2> QED BY <2>1, <2>2, <2>3, <2>4, <2>5, WorkerMoves
<1>19. ASSUME NEW s \in Streams, NEW c \in Conversations, StartChat(s, c) PROVE IInv'
  BY <1>19, ChatBegins DEF StartChat
<1>20. ASSUME NEW s \in Streams, NEW k \in resumes, ResumeChat(s, k) PROVE IInv'
  <2>1. Conv(k[1]) \in Conversations
    BY <1>20 DEF ResumeChat, IInv, StreamsOK
  <2> QED BY <1>20, <2>1, ChatBegins DEF ResumeChat
<1>21. ASSUME NEW k \in resumes, ResumeRefused(k) PROVE IInv'
  BY <1>21, StreamsStay DEF ResumeRefused
<1>22. ASSUME NEW k \in cards, DecideCard(k) \/ ExpireCard(k) PROVE IInv'
  BY <1>22, StreamsStay DEF DecideCard, ExpireCard
<1>23. ASSUME NEW c \in Conversations, DeleteConversation(c) PROVE IInv'
  BY <1>23, StreamsStay DEF DeleteConversation
<1>24. CASE Crash
  <2> DEFINE r(s) == [Fresh EXCEPT !.pc = "dead", !.conv = Conv(s)]
  <2>1. \A s \in Streams : stream'[s] = IF stream[s].pc \in Occupied THEN r(s) ELSE stream[s]
    BY <1>24 DEF Crash
  <2>2. \A s \in Streams : r(s) \in StreamRecord /\ Asked(r(s)) /\ Stops(r(s)) /\ r(s).pc \notin Occupied
    <3>1. \A s \in Streams : Conv(s) \in Conversations \cup {NoConversation}
      BY <1>0 DEF Conv, StreamRecord
    <3> QED BY <3>1, StreamAssumption
      DEF Fresh, StreamRecord, Places, Engines, Modes, Roles, Ended, Asked, Stops, Occupied, Held
  <2> HIDE DEF r
  <2>3. StreamsOK'
    <3>1. \A s \in Streams : stream'[s] \in StreamRecord
      BY <1>0, <2>1, <2>2
    <3>2. stream' = [s \in Streams |-> stream'[s]]
      BY <1>24 DEF Crash
    <3> QED BY <1>24, <3>1, <3>2 DEF Crash, IInv, StreamsOK
  <2>4. Counted'
    <3>1. Holders' = {}
      BY <2>1, <2>2 DEF Holders
    <3>2. Cardinality(Holders') = 0
      BY <3>1, FS_EmptySet
    <3>3. permits' = Slots /\ Slots \in Nat
      BY <1>24, StreamAssumption DEF Crash
    <3> QED BY <3>2, <3>3 DEF Counted
  <2>5. AllAsked'
    BY <2>1, <2>2 DEF IInv, AllAsked
  <2>6. CardStops'
    BY <1>24, <2>1, <2>2 DEF Crash, IInv, CardStops
  <2> QED BY <2>3, <2>4, <2>5, <2>6 DEF IInv
<1>25. CASE Restart
  BY <1>25, StreamsStay DEF Restart
<1>26. CASE UNCHANGED vars
  BY <1>26, StreamsStay DEF vars
<1>27. ASSUME NEW s \in Streams, ThreadFails(s) PROVE IInv'
  <2> DEFINE r == [stream[s] EXCEPT !.pc = "unstarted"]
  <2>1. r \in StreamRecord
    BY <1>0 DEF StreamRecord, Places
  <2>2. stream' = [stream EXCEPT ![s] = r]
    BY <1>27 DEF ThreadFails, Goto, IInv, StreamsOK
  <2>3. permits' = permits /\ cards' = cards /\ alive' = alive
    BY <1>27 DEF ThreadFails
  <2>4. stream[s].pc \in Occupied /\ r.pc \in Occupied /\ (Stops(stream[s]) => Stops(r))
    BY <1>0, <1>27 DEF ThreadFails, At, Occupied, Held, Stops, StreamRecord
  <2>5. r.did = stream[s].did /\ r.mode = stream[s].mode /\ r.role = stream[s].role
    BY <1>0 DEF StreamRecord
  <2> QED BY <2>1, <2>2, <2>3, <2>4, <2>5, WorkerMoves
<1>28. ASSUME NEW s \in Streams, InsightThreadFails(s) PROVE IInv'
  <2> DEFINE r == [stream[s] EXCEPT !.pc = "unstarted"]
  <2>1. r \in StreamRecord /\ r.pc = "unstarted"
    BY <1>0 DEF StreamRecord, Places
  <2>2. r.did = stream[s].did /\ r.mode = stream[s].mode /\ r.role = stream[s].role
    BY <1>0 DEF StreamRecord
  <2>3. stream' = [stream EXCEPT ![s] = r]
    BY <1>28 DEF InsightThreadFails, Goto, IInv, StreamsOK
  <2> HIDE DEF r
  <2>4. Asked(r)
    BY <2>2 DEF IInv, AllAsked, Asked
  <2>5. r.pc \in Occupied /\ stream[s].pc \notin Occupied /\ ~Stops(stream[s])
    BY <1>28, <2>1 DEF InsightThreadFails, At, Occupied, Held, Stops
  <2>6. permits > 0 /\ permits' = permits - 1 /\ cards' = cards /\ alive' = alive
    BY <1>28 DEF InsightThreadFails
  <2> QED BY <2>1, <2>3, <2>4, <2>5, <2>6, StreamMoves
<1> QED
  BY <1>1, <1>2, <1>3, <1>4, <1>5, <1>6, <1>7, <1>8, <1>9, <1>10, <1>11, <1>12, <1>13,
     <1>14, <1>15, <1>16, <1>17, <1>18, <1>19, <1>20, <1>21, <1>22, <1>23, <1>24, <1>25,
     <1>26, <1>27, <1>28
  DEF Next, WorkerStep

-----------------------------------------------------------------------------
(* The theorems.                                                           *)

\* The invariant holds of every behaviour.
THEOREM Invariance == Spec => []IInv
<1>1. Init => IInv
  BY InitImpliesInv
<1>2. IInv /\ [Next]_vars => IInv'
  BY StepPreservesInv
<1> QED BY <1>1, <1>2, PTL DEF Spec

\* start_chat, start_insight and the workers take a slot once and give it back
\* at most once, by every path through them.  One way alone keeps it: a thread
\* that cannot be created (thread.start() after the try), until a restart.
THEOREM SlotsAreAccountedFor == Spec => []SlotsAreAccounted
<1>1. IInv => SlotsAreAccounted
  BY DEF IInv, Counted, Holders, SlotsAreAccounted
<1> QED BY <1>1, Invariance, PTL

\* execute() and _handle_tool_call: for every tool, access mode and role, what
\* ran without a card was free to.
THEOREM NothingRanUnasked == Spec => []NothingRunsUnasked
<1>1. IInv => NothingRunsUnasked
  BY DEF IInv, AllAsked, Asked, NothingRunsUnasked
<1> QED BY <1>1, Invariance, PTL

\* A stream whose card is shown asks the model nothing more.
LEMMA StepKeepsRounds ==
  IInv /\ [Next]_vars =>
     [\A s \in Streams : (\E k \in cards : k[1] = s) => stream'[s].rounds \in {0, stream[s].rounds}]_vars
<1> SUFFICES ASSUME IInv, Next, NEW s \in Streams, NEW k \in cards, k[1] = s
             PROVE  stream'[s].rounds \in {0, stream[s].rounds}
  OBVIOUS
<1>0. stream \in [Streams -> StreamRecord] /\ Stops(stream[s])
  BY DEF IInv, StreamsOK, CardStops
<1>1. ASSUME NEW q \in Streams, WorkerStep(q) PROVE stream'[s].rounds \in {0, stream[s].rounds}
  <2>1. CASE Register(q)
    BY <1>0, <2>1 DEF Register, Goto, StreamRecord
  <2>2. CASE StartFails(q)
    BY <1>0, <2>2 DEF StartFails, Fresh, StreamRecord
  <2>3. CASE AnswerByRules(q)
    BY <1>0, <2>3 DEF AnswerByRules, Conclude, Fresh, StreamRecord
  <2>4. CASE ReadHistory(q)
    <3>1. q # s
      BY <1>0, <2>4 DEF ReadHistory, At, Stops
    <3>2. stream'[s] = stream[s]
      BY <1>0, <2>4, <3>1 DEF ReadHistory, Goto
    <3> QED BY <3>2
  <2>5. CASE BeginRound(q)
    BY <1>0, <2>5 DEF BeginRound, At, Stops, StreamRecord
  <2>6. CASE StopCanceled(q)
    BY <1>0, <2>6 DEF StopCanceled, Conclude, Fresh, StreamRecord
  <2>7. CASE Answer(q)
    BY <1>0, <2>7 DEF Answer, Conclude, Fresh, StreamRecord
  <2>8. CASE AnswerWithCalls(q)
    <3>1. q # s
      BY <1>0, <2>8 DEF AnswerWithCalls, At, Stops
    <3>2. stream'[s] = stream[s]
      BY <1>0, <2>8, <3>1 DEF AnswerWithCalls
    <3> QED BY <3>2
  <2>9. CASE ClientFails(q)
    <3>1. q # s
      BY <1>0, <2>9 DEF ClientFails, At, Stops
    <3>2. PICK status \in Ended, w \in BOOLEAN : Conclude(q, status, w)
      BY <2>9, FailureConcludes
    <3>3. stream'[s] = stream[s]
      BY <1>0, <3>1, <3>2 DEF Conclude
    <3> QED BY <3>3
  <2>10. ASSUME NEW t \in Tools, HandleCall(q, t) PROVE stream'[s].rounds \in {0, stream[s].rounds}
    BY <1>0, <2>10 DEF HandleCall, CallRaises, StreamRecord
  <2>11. CASE SubmitCard(q)
    BY <1>0, <2>11 DEF SubmitCard, StreamRecord
  <2>12. CASE WorkerRaises(q)
    BY <1>0, <2>12 DEF WorkerRaises, Conclude, Fresh, StreamRecord
  <2>13. CASE RoundEnds(q)
    <3>1. CASE stream[q].stop
      <4>1. Conclude(q, "done", FALSE) /\ (stream[q].wrote \/ FALSE) \in BOOLEAN
        BY <2>13, <3>1 DEF RoundEnds
      <4>2. Concluded(stream[q], "done", stream[q].wrote \/ FALSE).rounds = 0
        BY <1>0, <4>1, FinalRecord DEF Ended
      <4>3. stream' = [stream EXCEPT ![q] = Concluded(stream[q], "done", stream[q].wrote \/ FALSE)]
        BY <1>0, <4>1, ConcludeMakes
      <4>4. CASE q = s
        BY <1>0, <4>2, <4>3, <4>4
      <4>5. CASE q # s
        <5>1. stream'[s] = stream[s]
          BY <1>0, <4>3, <4>5
        <5> QED BY <5>1
      <4> QED BY <4>4, <4>5
    <3>2. CASE ~stream[q].stop
      BY <1>0, <2>13, <3>2 DEF RoundEnds, StreamRecord
    <3> QED BY <3>1, <3>2
  <2>14. CASE Finalize(q)
    BY <1>0, <2>14 DEF Finalize, Goto, StreamRecord
  <2>15. CASE FinalizeFails(q)
    BY <1>0, <2>15 DEF FinalizeFails, Goto, StreamRecord
  <2>16. CASE Close(q)
    BY <1>0, <2>16 DEF Close, Fresh, StreamRecord
  <2>17. CASE ThreadFails(q)
    BY <1>0, <2>17 DEF ThreadFails, Goto, StreamRecord
  <2> QED
    BY <1>1, <2>1, <2>2, <2>3, <2>4, <2>5, <2>6, <2>7, <2>8, <2>9, <2>10, <2>11, <2>12, <2>13, <2>14, <2>15, <2>16, <2>17
    DEF WorkerStep
<1>2. ASSUME NEW q \in Streams, StartInsight(q) PROVE stream'[s].rounds \in {0, stream[s].rounds}
  BY <1>0, <1>2 DEF StartInsight, At, Stops
<1>3. ASSUME NEW q \in Streams, Cancel(q) PROVE stream'[s].rounds \in {0, stream[s].rounds}
  BY <1>0, <1>3 DEF Cancel, StreamRecord
<1>4. ASSUME NEW q \in Streams, NEW c, Begin(q, c) PROVE stream'[s].rounds \in {0, stream[s].rounds}
  BY <1>0, <1>4 DEF Begin, At, Stops
<1>5. CASE Crash
  BY <1>0, <1>5 DEF Crash, Fresh
<1>6. ASSUME UNCHANGED stream PROVE stream'[s].rounds \in {0, stream[s].rounds}
  BY <1>6
<1>7. ASSUME NEW q \in Streams, InsightThreadFails(q) PROVE stream'[s].rounds \in {0, stream[s].rounds}
  BY <1>0, <1>7 DEF InsightThreadFails, Goto, StreamRecord
<1> QED
  BY <1>1, <1>2, <1>3, <1>4, <1>5, <1>6, <1>7
  DEF Next, StartChat, ResumeChat, ResumeRefused, DecideCard, ExpireCard, DeleteConversation,
      Restart

\* run_chat leaves its loop once a card is submitted: the chat goes on by the
\* decision alone, in a stream of its own.
THEOREM CardsInterruptChats == Spec => CardInterruptsChat
<1> QED BY Invariance, StepKeepsRounds, PTL DEF Spec, CardInterruptsChat

-----------------------------------------------------------------------------
(* Types and the stored history.                                           *)
(*                                                                         *)
(* A second invariant, on top of the first: how far the rounds and calls   *)
(* of a stream have come at each place of its thread (Budget), and who     *)
(* writes the rows that say streaming (Written).                           *)

Budget(r) ==
    /\ r.handled <= r.made /\ r.made <= MaxCalls /\ r.rounds <= MaxRounds + 1
    /\ r.pc \in {"none", "preparing", "reading"} => r.rounds = 0 /\ r.made = 0
    /\ r.pc = "asking" => /\ r.rounds > 0 /\ r.made <= (r.rounds - 1) * CallsPerRound
                          /\ ~r.capped => r.rounds <= MaxRounds
    /\ r.pc \in {"round", "handling", "submitting"} =>
          r.rounds <= MaxRounds /\ r.made <= r.rounds * CallsPerRound
    /\ r.pc = "submitting" => r.handled > 0
    /\ r.pc = "finishing" => r.status \in Ended

Writing == {"reading", "round", "asking", "handling", "submitting", "finishing"}

\* A stream answers for a row of conversation c: it will write it, or could not,
\* or has no thread that would.
Writes(r, c, cut) ==
    r.conv = c /\ (r.pc \in Writing \cup {"unstarted"} \/ (r.pc \in {"closing", "ended"} /\ c \in cut))

RowIsWritten(row, c) ==
    row.status = "streaming" =>
        /\ row.role = "assistant" /\ row.stream \in Streams
        /\ up => Writes(stream[row.stream], c, torn)

Budgets == \A s \in Streams : Budget(stream[s])
Tables ==
    /\ history \in [Conversations -> Seq(Rows)]
    /\ \A c \in Conversations \ alive : history[c] = <<>>
    /\ torn \subseteq Conversations
    /\ cards \subseteq Calls /\ resumes \subseteq Calls
    /\ up \in BOOLEAN /\ faults \in 0 .. MaxFaults
Written == \A c \in Conversations : \A i \in DOMAIN history[c] : RowIsWritten(history[c][i], c)

HInv == Budgets /\ Tables /\ Written

\* One more round has room for one more answer.
LEMMA CallsOfRounds ==
  ASSUME NEW n \in Nat, NEW m \in Nat, n <= m
  PROVE  /\ n * CallsPerRound \in Nat /\ n * CallsPerRound <= m * CallsPerRound
         /\ (n + 1) * CallsPerRound = n * CallsPerRound + CallsPerRound
<1>1. CallsPerRound \in Nat
  BY StreamAssumption
<1>2. \A a, b \in Nat : a * b \in Nat
  OBVIOUS
<1>3. PICK d \in Nat : m = n + d
  <2>1. m - n \in Nat /\ m = n + (m - n)
    OBVIOUS
  <2> QED BY <2>1
<1>4. (n + d) * CallsPerRound = n * CallsPerRound + d * CallsPerRound
  BY <1>1
<1>5. (n + 1) * CallsPerRound = n * CallsPerRound + CallsPerRound
  BY <1>1
<1> QED BY <1>1, <1>2, <1>3, <1>4, <1>5

\* The bounds on which everything rests.
LEMMA BoundsAreNat == /\ MaxCalls \in Nat /\ MaxRounds \in Nat /\ CallsPerRound \in Nat
                      /\ MaxCalls = MaxRounds * CallsPerRound
<1>1. MaxRounds \in Nat /\ CallsPerRound \in Nat
  BY StreamAssumption
<1> QED BY <1>1, CallsOfRounds DEF MaxCalls

\* The record of a stream that has not begun, or has ended.
LEMMA FreshBudget ==
  ASSUME NEW r, r.rounds = 0, r.made = 0, r.handled = 0,
         r.pc \in {"none", "preparing", "reading", "ended", "dead"}
  PROVE  Budget(r)
  BY BoundsAreNat DEF Budget

\* A stream that concludes, or closes, keeps its counters.
LEMMA FinalBudget ==
  ASSUME NEW q \in StreamRecord, NEW r, Budget(q), r.rounds \in {0, q.rounds}, r.made = q.made,
         r.handled = q.handled, r.pc \in {"finishing", "closing"},
         r.pc = "finishing" => r.status \in Ended
  PROVE  Budget(r)
  BY BoundsAreNat DEF Budget, StreamRecord

-----------------------------------------------------------------------------
(* A step of one stream that leaves the rows alone, or adds one.           *)

\* Rows stay answered for when the streams that wrote them do.
LEMMA RowsStay ==
  ASSUME IInv, HInv, NEW s \in Streams, NEW r \in StreamRecord,
         stream' = [stream EXCEPT ![s] = r], Budget(r),
         history' = history, alive' = alive, up' = up,
         torn \subseteq torn', torn' \subseteq Conversations,
         cards' \subseteq Calls, resumes' \subseteq Calls, faults' \in 0 .. MaxFaults,
         \A c \in Conversations : Writes(stream[s], c, torn) => Writes(r, c, torn')
  PROVE  HInv'
<1>1. stream'[s] = r /\ \A q \in Streams \ {s} : stream'[q] = stream[q]
  BY DEF IInv, StreamsOK
<1>2. Budgets'
  BY <1>1 DEF HInv, Budgets
<1>3. Tables'
  BY DEF HInv, Tables
<1>4. ASSUME NEW c \in Conversations, NEW i \in DOMAIN history[c]
      PROVE  RowIsWritten(history[c][i], c)'
  <2> DEFINE row == history[c][i]
  <2>1. RowIsWritten(row, c)
    BY DEF HInv, Written
  <2> SUFFICES ASSUME row.status = "streaming"
               PROVE  /\ row.role = "assistant" /\ row.stream \in Streams
                      /\ up => Writes(stream'[row.stream], c, torn')
    BY DEF RowIsWritten
  <2>2. row.role = "assistant" /\ row.stream \in Streams
        /\ (up => Writes(stream[row.stream], c, torn))
    BY <2>1 DEF RowIsWritten
  <2>3. CASE row.stream = s
    BY <1>1, <2>2, <2>3
  <2>4. CASE row.stream # s
    BY <1>1, <2>2, <2>4 DEF Writes
  <2> QED BY <2>2, <2>3, <2>4
<1>5. Written'
  BY <1>4 DEF Written
<1> QED BY <1>2, <1>3, <1>5 DEF HInv

\* A conversation gets one row more, and its stream answers for it.
LEMMA RowIsAdded ==
  ASSUME IInv, HInv, NEW s \in Streams, NEW r \in StreamRecord,
         NEW c \in Conversations, NEW row \in Rows,
         stream' = [stream EXCEPT ![s] = r], Budget(r),
         history' = [history EXCEPT ![c] = Append(@, row)],
         c \in alive, alive' = alive, up' = up,
         torn \subseteq torn', torn' \subseteq Conversations,
         cards' \subseteq Calls, resumes' \subseteq Calls, faults' \in 0 .. MaxFaults,
         \A d \in Conversations : Writes(stream[s], d, torn) => Writes(r, d, torn'),
         row.status = "streaming" =>
             row.role = "assistant" /\ row.stream = s /\ Writes(r, c, torn')
  PROVE  HInv'
<1>1. stream'[s] = r /\ \A q \in Streams \ {s} : stream'[q] = stream[q]
  BY DEF IInv, StreamsOK
<1>2. Budgets'
  BY <1>1 DEF HInv, Budgets
<1>3. history[c] \in Seq(Rows) /\ history'[c] = Append(history[c], row)
      /\ \A d \in Conversations \ {c} : history'[d] = history[d]
  BY DEF HInv, Tables
<1>4. Tables'
  <2>1. Append(history[c], row) \in Seq(Rows)
    BY <1>3
  <2>2. history' \in [Conversations -> Seq(Rows)]
    BY <2>1 DEF HInv, Tables
  <2>3. \A d \in Conversations \ alive : history'[d] = <<>>
    BY <1>3 DEF HInv, Tables
  <2> QED BY <2>2, <2>3 DEF HInv, Tables
<1>5. ASSUME NEW d \in Conversations, NEW i \in DOMAIN history'[d]
      PROVE  RowIsWritten(history[d][i], d)'
  <2> DEFINE new == history'[d][i]
  <2> SUFFICES ASSUME new.status = "streaming"
               PROVE  /\ new.role = "assistant" /\ new.stream \in Streams
                      /\ up => Writes(stream'[new.stream], d, torn')
    BY DEF RowIsWritten
  <2>1. CASE d = c /\ i = Len(history[c]) + 1
    <3>1. new = row
      BY <1>3, <2>1
    <3> QED BY <1>1, <2>1, <3>1
  <2>2. CASE ~(d = c /\ i = Len(history[c]) + 1)
    <3>1. i \in DOMAIN history[d] /\ new = history[d][i]
      <4>1. CASE d = c
        <5>1. i \in 1 .. Len(history[c]) + 1
          BY <1>3, <4>1
        <5>2. i \in 1 .. Len(history[c])
          BY <1>3, <2>2, <4>1, <5>1
        <5> QED BY <1>3, <4>1, <5>2
      <4>2. CASE d # c
        BY <1>3, <4>2
      <4> QED BY <4>1, <4>2
    <3> HIDE DEF new
    <3>2. RowIsWritten(new, d)
      BY <3>1 DEF HInv, Written
    <3>3. new.role = "assistant" /\ new.stream \in Streams
          /\ (up => Writes(stream[new.stream], d, torn))
      BY <3>2 DEF RowIsWritten
    <3>4. CASE new.stream = s
      BY <1>1, <3>3, <3>4
    <3>5. CASE new.stream # s
      BY <1>1, <3>3, <3>5 DEF Writes
    <3> QED BY <3>3, <3>4, <3>5
  <2> QED BY <2>1, <2>2
<1>6. Written'
  BY <1>5 DEF Written
<1> QED BY <1>2, <1>4, <1>6 DEF HInv

\* Rows, streams and conversations are left alone.
LEMMA HistoryStays ==
  ASSUME HInv, UNCHANGED <<stream, history, alive, up, torn>>,
         cards' \subseteq Calls, resumes' \subseteq Calls, faults' \in 0 .. MaxFaults
  PROVE  HInv'
<1>1. Budgets' /\ Tables'
  BY DEF HInv, Budgets, Tables
<1>2. Written'
  BY DEF HInv, Written, RowIsWritten
<1> QED BY <1>1, <1>2 DEF HInv

\* A worker that moves on at the places where its row is being written.
LEMMA WriterMoves ==
  ASSUME IInv, HInv, NEW s \in Streams, NEW r \in StreamRecord,
         stream' = [stream EXCEPT ![s] = r], Budget(r),
         stream[s].pc \in Writing, r.pc \in Writing, r.conv = stream[s].conv,
         UNCHANGED <<history, alive, up, torn, resumes>>, cards' \subseteq Calls,
         faults' \in 0 .. MaxFaults
  PROVE  HInv'
<1>1. \A c \in Conversations : Writes(stream[s], c, torn) => Writes(r, c, torn')
  BY DEF Writes
<1>2. torn' \subseteq Conversations /\ resumes' \subseteq Calls
  BY DEF HInv, Tables
<1> QED BY <1>1, <1>2, RowsStay

\* A worker concludes.
LEMMA WorkerConcludes ==
  ASSUME IInv, HInv, NEW s \in Streams, NEW status \in Ended, NEW w \in BOOLEAN,
         Conclude(s, status, w), stream[s].pc \in Writing,
         UNCHANGED <<history, alive, cards, resumes, up, torn>>, faults' \in 0 .. MaxFaults
  PROVE  HInv'
<1> DEFINE q == stream[s]
           r == Concluded(q, status, q.wrote \/ w)
<1>1. q \in StreamRecord /\ Budget(q) /\ (q.wrote \/ w) \in BOOLEAN
  BY DEF IInv, StreamsOK, HInv, Budgets
<1>2. r \in StreamRecord
  BY <1>1, FinalRecord
<1>3. stream' = [stream EXCEPT ![s] = r]
  BY ConcludeMakes DEF IInv, StreamsOK
<1>4. r.pc = "finishing" /\ r.status = status /\ r.conv = q.conv /\ r.rounds \in {0, q.rounds}
      /\ r.made = q.made /\ r.handled = q.handled
  BY <1>1, FinalRecord
<1>5. cards' \subseteq Calls
  BY DEF HInv, Tables
<1>6. stream[s].pc \in Writing /\ r.pc \in Writing
  BY <1>4 DEF Writing
<1>7. Budget(r)
  <2> HIDE DEF r, q
  <2> QED BY <1>1, <1>4, FinalBudget
<1> HIDE DEF r
<1> QED BY <1>2, <1>3, <1>4, <1>5, <1>6, <1>7, WriterMoves

\* A chat begins or is resumed: the thread has not a row yet, and the history may
\* have the message of the user.
LEMMA ChatHistoryBegins ==
  ASSUME IInv, HInv, NEW s \in Streams, NEW c \in Conversations, c \in alive, Begin(s, c),
         history' = history \/ history' = [history EXCEPT ![c] = Append(@, UserRow)],
         UNCHANGED <<alive, up, cards, faults>>, resumes' \subseteq resumes
  PROVE  HInv'
<1>1. PICK set \in Settings :
         stream' = [stream EXCEPT ![s] = [Fresh EXCEPT !.pc = "preparing", !.conv = c,
                        !.mode = set.mode, !.role = set.role, !.engine = set.engine]]
  BY DEF Begin
<1> DEFINE r == [Fresh EXCEPT !.pc = "preparing", !.conv = c,
                        !.mode = set.mode, !.role = set.role, !.engine = set.engine]
<1>2. set.mode \in Modes /\ set.role \in Roles /\ set.engine \in Engines
  BY StreamAssumption
<1>3. r \in StreamRecord /\ r.pc = "preparing" /\ r.rounds = 0 /\ r.made = 0 /\ r.handled = 0
  BY <1>2 DEF Fresh, StreamRecord, Places, Ended
<1> HIDE DEF r
<1>4. Budget(r)
  BY <1>3, FreshBudget
<1>5. \A d \in Conversations : ~Writes(stream[s], d, torn)
  BY DEF Begin, At, Writes, Writing
<1>6. torn \subseteq torn' /\ torn' \subseteq Conversations
  BY DEF Begin, HInv, Tables
<1>7. cards' \subseteq Calls /\ resumes' \subseteq Calls /\ faults' \in 0 .. MaxFaults
  BY DEF HInv, Tables
<1>8. UserRow \in Rows /\ UserRow.status # "streaming"
  BY BoundsAreNat DEF UserRow, Rows, Ended
<1>9. stream' = [stream EXCEPT ![s] = r]
  BY <1>1 DEF r
<1>10. CASE history' = history
  BY <1>3, <1>4, <1>5, <1>6, <1>7, <1>9, <1>10, RowsStay
<1>11. CASE history' = [history EXCEPT ![c] = Append(@, UserRow)]
  BY <1>3, <1>4, <1>5, <1>6, <1>7, <1>8, <1>9, <1>11, RowIsAdded
<1> QED BY <1>10, <1>11

\* Finalize rewrites every row the stream has in its conversation.
LEMMA AnswerIsStored ==
  ASSUME IInv, HInv, NEW s \in Streams, Finalize(s)
  PROVE  HInv'
<1> DEFINE q == stream[s]
           r == [q EXCEPT !.pc = "closing"]
           c == Conv(s)
<1>1. q \in StreamRecord /\ Budget(q) /\ q.pc = "finishing"
  BY DEF IInv, StreamsOK, HInv, Budgets, Finalize, At
<1>2. stream' = [stream EXCEPT ![s] = r] /\ alive' = alive /\ up' = up /\ torn' = torn
      /\ cards' = cards /\ resumes' = resumes /\ faults' = faults
  BY DEF Finalize, Goto, IInv, StreamsOK
<1>3. r.pc = "closing" /\ r.conv = q.conv /\ r.rounds = q.rounds
      /\ r.made = q.made /\ r.handled = q.handled
  BY <1>1 DEF StreamRecord
<1>4. q.status \in Ended /\ q.made \in 0 .. MaxCalls /\ q.wrote \in BOOLEAN /\ q.conv = c
  BY <1>1, BoundsAreNat DEF StreamRecord, Budget, Conv
<1>5. stream'[s] = r /\ \A p \in Streams \ {s} : stream'[p] = stream[p]
  BY <1>2 DEF IInv, StreamsOK
<1>6. Budget(r)
  <2> HIDE DEF r, q
  <2> QED BY <1>1, <1>3, FinalBudget
<1> HIDE DEF r
<1>7. Budgets'
  BY <1>5, <1>6 DEF HInv, Budgets
<1>8. CASE c \notin alive
  <2>1. history' = history
    BY <1>8 DEF Finalize
  <2>2. Tables'
    BY <1>2, <2>1 DEF HInv, Tables
  <2>3. ASSUME NEW d \in Conversations, NEW i \in DOMAIN history'[d]
        PROVE  RowIsWritten(history[d][i], d)'
    <3>1. d \in alive
      BY <2>1, <2>3 DEF HInv, Tables
    <3>2. d # c
      BY <1>8, <3>1
    <3> DEFINE row == history[d][i]
    <3>3. RowIsWritten(row, d)
      BY <2>1 DEF HInv, Written
    <3> HIDE DEF row
    <3>4. row.status = "streaming" =>
            row.role = "assistant" /\ row.stream \in Streams
            /\ (up => Writes(stream[row.stream], d, torn))
      BY <3>3 DEF RowIsWritten
    <3>5. row.status = "streaming" => (up => Writes(stream'[row.stream], d, torn))
      <4>1. CASE row.stream = s
        BY <1>4, <3>2, <3>4, <4>1 DEF Writes
      <4>2. CASE row.stream # s
        BY <1>5, <3>4, <4>2
      <4> QED BY <4>1, <4>2
    <3> QED BY <1>2, <2>1, <3>4, <3>5 DEF RowIsWritten, row
  <2>4. Written'
    BY <2>3 DEF Written
  <2> QED BY <1>7, <2>2, <2>4 DEF HInv
<1>9. CASE c \in alive
  <2>1. c \in Conversations /\ history[c] \in Seq(Rows)
    BY <1>9 DEF IInv, StreamsOK, HInv, Tables
  <2> DEFINE Stored(row) == IF row.role = "assistant" /\ row.stream = s
                            THEN [row EXCEPT !.status = q.status, !.calls = q.made,
                                             !.text = q.wrote]
                            ELSE row
             new == [i \in DOMAIN history[c] |-> Stored(history[c][i])]
  <2>2. history' = [history EXCEPT ![c] = new]
    BY <1>9 DEF Finalize, StoredAnswer
  <2>3. \A row \in Rows : Stored(row) \in Rows
    <3> SUFFICES ASSUME NEW row \in Rows
                 PROVE  [row EXCEPT !.status = q.status, !.calls = q.made,
                                    !.text = q.wrote] \in Rows
      OBVIOUS
    <3> HIDE DEF q
    <3> QED BY <1>4 DEF Rows
  <2>4. \A row \in Rows : Stored(row).status = "streaming" =>
            Stored(row) = row /\ ~(row.role = "assistant" /\ row.stream = s)
    <3> SUFFICES ASSUME NEW row \in Rows, row.role = "assistant", row.stream = s
                 PROVE  [row EXCEPT !.status = q.status, !.calls = q.made,
                                    !.text = q.wrote].status # "streaming"
      OBVIOUS
    <3> HIDE DEF q
    <3> QED BY <1>4 DEF Rows, Ended
  <2> HIDE DEF Stored
  <2>5. \A i \in DOMAIN history[c] : history[c][i] \in Rows
    BY <2>1
  <2>6. new \in Seq(Rows) /\ DOMAIN new = DOMAIN history[c]
    <3>1. DOMAIN history[c] = 1 .. Len(history[c]) /\ Len(history[c]) \in Nat
      BY <2>1
    <3>2. new \in [1 .. Len(history[c]) -> Rows]
      BY <2>3, <2>5, <3>1
    <3>3. \A n \in Nat : \A f \in [1 .. n -> Rows] : f \in Seq(Rows)
      BY SeqDef
    <3> QED BY <3>1, <3>2, <3>3
  <2>7. history'[c] = new /\ \A d \in Conversations \ {c} : history'[d] = history[d]
    BY <2>1, <2>2 DEF HInv, Tables
  <2>8. Tables'
    <3>1. history' \in [Conversations -> Seq(Rows)]
      BY <2>2, <2>6 DEF HInv, Tables
    <3>2. \A d \in Conversations \ alive : history'[d] = <<>>
      BY <1>9, <2>7 DEF HInv, Tables
    <3> QED BY <1>2, <3>1, <3>2 DEF HInv, Tables
  <2>9. ASSUME NEW d \in Conversations, NEW i \in DOMAIN history'[d]
        PROVE  RowIsWritten(history[d][i], d)'
    <3> DEFINE row == history'[d][i]
    <3>1. row.status = "streaming" =>
            /\ i \in DOMAIN history[d] /\ row = history[d][i]
            /\ ~(d = c /\ row.role = "assistant" /\ row.stream = s)
      <4>1. CASE d = c
        <5>1. i \in DOMAIN history[c] /\ row = Stored(history[c][i])
          BY <2>6, <2>7, <4>1
        <5> QED BY <2>4, <2>5, <4>1, <5>1
      <4>2. CASE d # c
        BY <2>7, <4>2
      <4> QED BY <4>1, <4>2
    <3> HIDE DEF row
    <3>2. row.status = "streaming" => RowIsWritten(row, d)
      BY <3>1 DEF HInv, Written
    <3>3. row.status = "streaming" =>
            row.role = "assistant" /\ row.stream \in Streams
            /\ (up => Writes(stream[row.stream], d, torn))
      BY <3>2 DEF RowIsWritten
    <3>4. row.status = "streaming" => (up => Writes(stream'[row.stream], d, torn))
      <4>1. CASE row.stream = s
        BY <1>4, <3>1, <3>3, <4>1 DEF Writes
      <4>2. CASE row.stream # s
        BY <1>5, <3>3, <4>2
      <4> QED BY <4>1, <4>2
    <3> QED BY <1>2, <3>3, <3>4 DEF RowIsWritten, row
  <2>10. Written'
    BY <2>9 DEF Written
  <2> QED BY <1>7, <2>8, <2>10 DEF HInv
<1> QED BY <1>8, <1>9

-----------------------------------------------------------------------------
\* Every step preserves the second invariant, given the first.
LEMMA StepPreservesHistory == IInv /\ HInv /\ [Next]_vars => HInv'
<1> SUFFICES ASSUME IInv, HInv, [Next]_vars PROVE HInv'
  OBVIOUS
<1>0. /\ \A s \in Streams : stream[s] \in StreamRecord /\ Budget(stream[s])
      /\ torn \subseteq Conversations /\ cards \subseteq Calls /\ resumes \subseteq Calls
      /\ faults \in 0 .. MaxFaults
  BY DEF IInv, StreamsOK, HInv, Budgets, Tables
<1>00. Fault => faults' \in 0 .. MaxFaults
  BY <1>0, StreamAssumption DEF Fault
<1>1. ASSUME NEW s \in Streams, Register(s) PROVE HInv'
  <2> DEFINE r == [stream[s] EXCEPT !.pc = "reading"]
  <2>1. r \in StreamRecord
    BY <1>0 DEF StreamRecord, Places
  <2>2. stream' = [stream EXCEPT ![s] = r] /\ stream[s].pc = "preparing"
    BY <1>1 DEF Register, Goto, At, IInv, StreamsOK
  <2>3. /\ r.pc = "reading" /\ r.conv = Conv(s) /\ r.rounds = stream[s].rounds
        /\ r.made = stream[s].made /\ r.handled = stream[s].handled
    BY <1>0 DEF StreamRecord, Conv
  <2> HIDE DEF r
  <2>4. Budget(r)
    BY <1>0, <2>2, <2>3 DEF Budget
  <2>5. AssistantRow(s) \in Rows /\ AssistantRow(s).role = "assistant"
        /\ AssistantRow(s).stream = s
    BY BoundsAreNat DEF AssistantRow, Rows
  <2>6. Conv(s) \in Conversations /\ Conv(s) \in alive
    BY <1>1 DEF Register, IInv, StreamsOK
  <2>7. \A d \in Conversations : ~Writes(stream[s], d, torn)
    BY <2>2 DEF Writes, Writing
  <2>8. Writes(r, Conv(s), torn')
    BY <2>3 DEF Writes, Writing
  <2>9. /\ history' = [history EXCEPT ![Conv(s)] = Append(@, AssistantRow(s))]
        /\ alive' = alive /\ up' = up /\ torn' = torn /\ cards' = cards
        /\ resumes' = resumes /\ faults' = faults
    BY <1>1 DEF Register, Append1
  <2> QED BY <1>0, <2>1, <2>2, <2>4, <2>5, <2>6, <2>7, <2>8, <2>9, RowIsAdded
<1>2. ASSUME NEW s \in Streams, StartFails(s) PROVE HInv'
  <2> DEFINE r == [Fresh EXCEPT !.pc = "ended"]
  <2>1. r \in StreamRecord /\ r.pc = "ended" /\ r.rounds = 0 /\ r.made = 0 /\ r.handled = 0
    BY StreamAssumption DEF Fresh, StreamRecord, Places, Engines, Modes, Roles, Ended
  <2>2. stream' = [stream EXCEPT ![s] = r] /\ stream[s].pc = "preparing"
    BY <1>2 DEF StartFails, At
  <2> HIDE DEF r
  <2>3. \A d \in Conversations : ~Writes(stream[s], d, torn)
    BY <2>2 DEF Writes, Writing
  <2>4. /\ history' = history /\ alive' = alive /\ up' = up /\ torn' = torn /\ cards' = cards
        /\ resumes' = resumes /\ faults' \in 0 .. MaxFaults
    BY <1>0, <1>00, <1>2 DEF StartFails
  <2>5. Budget(r)
    BY <2>1, FreshBudget
  <2> QED BY <1>0, <2>1, <2>2, <2>3, <2>4, <2>5, RowsStay
<1>3. ASSUME NEW s \in Streams, AnswerByRules(s) PROVE HInv'
  BY <1>0, <1>3, WorkerConcludes DEF AnswerByRules, At, Writing, Ended
<1>4. ASSUME NEW s \in Streams, ReadHistory(s) PROVE HInv'
  <2>1. stream[s].pc = "reading" /\ stream[s].rounds = 0 /\ stream[s].made = 0
        /\ stream[s].handled <= 0
    BY <1>0, <1>4 DEF ReadHistory, At, Budget
  <2>2. UNCHANGED <<history, alive, up, torn, resumes, cards, faults>>
    BY <1>4 DEF ReadHistory
  <2>3. CASE stream' = [stream EXCEPT ![s].pc = "asking", ![s].rounds = 1]
    <3> DEFINE r == [stream[s] EXCEPT !.pc = "asking", !.rounds = 1]
    <3>1. r \in StreamRecord
      BY <1>0 DEF StreamRecord, Places
    <3>2. stream' = [stream EXCEPT ![s] = r]
      BY <2>3 DEF IInv, StreamsOK
    <3>3. /\ r.pc = "asking" /\ r.conv = stream[s].conv /\ r.rounds = 1
          /\ r.made = 0 /\ r.handled = stream[s].handled
      BY <1>0, <2>1 DEF StreamRecord
    <3> HIDE DEF r
    <3>4. 1 <= MaxRounds /\ MaxRounds \in Nat /\ MaxCalls \in Nat /\ 0 <= 0 * CallsPerRound
      BY BoundsAreNat, StreamAssumption
    <3>5. Budget(r)
      BY <2>1, <3>3, <3>4 DEF Budget
    <3> QED BY <1>0, <2>1, <2>2, <3>1, <3>2, <3>3, <3>5, WriterMoves DEF Writing
  <2>4. CASE stream' = [stream EXCEPT ![s].pc = "round"]
    <3> DEFINE r == [stream[s] EXCEPT !.pc = "round"]
    <3>1. r \in StreamRecord
      BY <1>0 DEF StreamRecord, Places
    <3>2. stream' = [stream EXCEPT ![s] = r]
      BY <2>4 DEF IInv, StreamsOK
    <3>3. /\ r.pc = "round" /\ r.conv = stream[s].conv /\ r.rounds = 0
          /\ r.made = 0 /\ r.handled = stream[s].handled
      BY <1>0, <2>1 DEF StreamRecord
    <3> HIDE DEF r
    <3>4. MaxRounds \in Nat /\ MaxCalls \in Nat /\ 0 <= 0 * CallsPerRound
      BY BoundsAreNat, StreamAssumption
    <3>5. Budget(r)
      BY <2>1, <3>3, <3>4 DEF Budget
    <3> QED BY <1>0, <2>1, <2>2, <3>1, <3>2, <3>3, <3>5, WriterMoves DEF Writing
  <2> QED BY <1>4, <2>3, <2>4 DEF ReadHistory, Goto
<1>5. ASSUME NEW s \in Streams, BeginRound(s) PROVE HInv'
  <2>1. PICK capped \in BOOLEAN :
          /\ stream' = [stream EXCEPT ![s].pc = "asking", ![s].rounds = @ + 1,
                                      ![s].capped = capped]
          /\ stream[s].rounds >= MaxRounds => capped
    BY <1>5 DEF BeginRound, Caps
  <2> DEFINE q == stream[s]
             r == [q EXCEPT !.pc = "asking", !.rounds = q.rounds + 1, !.capped = capped]
  <2>2. q \in StreamRecord /\ q.pc = "round" /\ q.rounds \in Nat /\ q.rounds + 1 \in Nat /\ Budget(q)
    BY <1>0, <1>5 DEF BeginRound, At, StreamRecord
  <2>3. r \in StreamRecord
    BY <2>2, RoundRecord
  <2>4. stream' = [stream EXCEPT ![s] = r]
    BY <2>1 DEF IInv, StreamsOK
  <2>5. r.pc = "asking" /\ r.conv = q.conv /\ r.rounds = q.rounds + 1 /\ r.made = q.made
        /\ r.handled = q.handled
    BY <2>2 DEF StreamRecord
  <2>6. r.capped = capped
    BY <2>2 DEF StreamRecord
  <2>7. ~r.capped => q.rounds < MaxRounds
    BY <2>1, <2>2, <2>6, BoundsAreNat
  <2>8. UNCHANGED <<history, alive, up, torn, resumes, cards, faults>>
    BY <1>5 DEF BeginRound
  <2> HIDE DEF r, q
  <2>9. q.rounds <= MaxRounds /\ q.made <= q.rounds * CallsPerRound /\ q.made <= MaxCalls
        /\ q.handled <= q.made
    BY <2>2 DEF Budget
  <2>10. Budget(r)
    <3>1. r.rounds - 1 = q.rounds /\ r.rounds > 0 /\ r.rounds <= MaxRounds + 1
          /\ (~r.capped => r.rounds <= MaxRounds)
      BY <2>2, <2>5, <2>7, <2>9, BoundsAreNat
    <3> QED BY <2>5, <2>9, <3>1 DEF Budget
  <2> QED BY <1>0, <2>2, <2>3, <2>4, <2>5, <2>8, <2>10, WriterMoves DEF Writing, q
<1>6. ASSUME NEW s \in Streams, StopCanceled(s) PROVE HInv'
  BY <1>0, <1>6, WorkerConcludes DEF StopCanceled, At, Writing, Ended
<1>7. ASSUME NEW s \in Streams, Answer(s) PROVE HInv'
  BY <1>0, <1>7, WorkerConcludes DEF Answer, At, Writing, Ended
<1>8. ASSUME NEW s \in Streams, AnswerWithCalls(s) PROVE HInv'
  <2>1. PICK n \in 1 .. CallsPerRound :
          stream' = [stream EXCEPT ![s].pc = "handling", ![s].made = @ + n]
    BY <1>8 DEF AnswerWithCalls
  <2> DEFINE q == stream[s]
             r == [q EXCEPT !.pc = "handling", !.made = q.made + n]
  <2>2. /\ q \in StreamRecord /\ q.pc = "asking" /\ ~q.capped /\ Budget(q)
        /\ q.rounds \in Nat /\ q.made \in Nat /\ q.handled \in Nat
    BY <1>0, <1>8 DEF AnswerWithCalls, At, StreamRecord
  <2>3. n \in Nat /\ n <= CallsPerRound /\ q.made + n \in Nat
    BY <2>2, BoundsAreNat
  <2>4. r \in StreamRecord
    BY <2>2, <2>3, MadeRecord
  <2>5. stream' = [stream EXCEPT ![s] = r]
    BY <2>1 DEF IInv, StreamsOK
  <2>6. r.pc = "handling" /\ r.conv = q.conv /\ r.rounds = q.rounds /\ r.made = q.made + n
        /\ r.handled = q.handled
    BY <2>2 DEF StreamRecord
  <2>7. UNCHANGED <<history, alive, up, torn, resumes, cards, faults>>
    BY <1>8 DEF AnswerWithCalls
  <2> HIDE DEF r, q
  <2>8. q.rounds > 0 /\ q.rounds <= MaxRounds /\ q.made <= (q.rounds - 1) * CallsPerRound
        /\ q.handled <= q.made
    BY <2>2 DEF Budget
  <2>9. r.made <= q.rounds * CallsPerRound
    <3> DEFINE m == q.rounds - 1
    <3>1. m \in Nat /\ q.rounds = m + 1 /\ q.made <= m * CallsPerRound
      BY <2>2, <2>8
    <3> HIDE DEF m
    <3>2. (m + 1) * CallsPerRound = m * CallsPerRound + CallsPerRound
          /\ m * CallsPerRound \in Nat
      BY <3>1, CallsOfRounds
    <3> DEFINE a == m * CallsPerRound
    <3>3. q.rounds * CallsPerRound = a + CallsPerRound /\ a \in Nat /\ q.made <= a
      BY <3>1, <3>2
    <3> HIDE DEF a
    <3>4. q.made + n <= a + CallsPerRound
      BY <2>2, <2>3, <3>3, BoundsAreNat
    <3> QED BY <2>6, <3>3, <3>4
  <2>10. r.made <= MaxCalls
    <3>1. q.rounds * CallsPerRound \in Nat /\ q.rounds * CallsPerRound <= MaxCalls
      BY <2>2, <2>8, BoundsAreNat, CallsOfRounds
    <3> DEFINE a == q.rounds * CallsPerRound
    <3>2. a \in Nat /\ a <= MaxCalls /\ r.made <= a /\ r.made \in Nat
      BY <2>3, <2>6, <2>9, <3>1
    <3> HIDE DEF a
    <3> QED BY <3>2, BoundsAreNat
  <2>11. r.handled <= r.made /\ r.rounds <= MaxRounds + 1
    BY <2>2, <2>3, <2>6, <2>8, BoundsAreNat
  <2>12. Budget(r)
    BY <2>6, <2>8, <2>9, <2>10, <2>11 DEF Budget
  <2> QED BY <1>0, <2>2, <2>4, <2>5, <2>6, <2>7, <2>12, WriterMoves DEF Writing, q
<1>9. ASSUME NEW s \in Streams, ClientFails(s) PROVE HInv'
  <2>1. PICK status \in Ended, w \in BOOLEAN : Conclude(s, status, w)
    BY <1>9, FailureConcludes
  <2>2. stream[s].pc \in Writing
        /\ UNCHANGED <<history, alive, cards, resumes, up, torn, faults>>
    BY <1>9 DEF ClientFails, At, Writing
  <2> QED BY <1>0, <2>1, <2>2, WorkerConcludes
<1>10. ASSUME NEW s \in Streams, NEW t \in Tools, HandleCall(s, t) PROVE HInv'
  <2>1. PICK o \in Outcomes(stream[s].mode, stream[s].role, t) :
          LET did == IF o \in {"result", "run"} THEN t ELSE NoTool
          IN  IF Conv(s) \in alive
              THEN /\ Append1(Conv(s), ToolRow(s, stream[s].handled + 1))
                   /\ stream' = [stream EXCEPT
                         ![s].did = did, ![s].handled = @ + 1,
                         ![s].pc = IF o = "confirm" THEN "submitting" ELSE @]
              ELSE CallRaises(s, did)
    BY <1>10 DEF HandleCall
  <2> DEFINE did == IF o \in {"result", "run"} THEN t ELSE NoTool
             q == stream[s]
  <2>2. did \in Tools \cup {NoTool}
    OBVIOUS
  <2>3. /\ q \in StreamRecord /\ q.pc = "handling" /\ Budget(q) /\ q.handled < q.made
        /\ q.handled \in Nat /\ q.handled + 1 \in Nat /\ q.made \in Nat /\ q.rounds \in Nat
    BY <1>0, <1>10 DEF HandleCall, At, StreamRecord
  <2>4. UNCHANGED <<alive, up, torn, resumes, cards, faults>>
    BY <1>10 DEF HandleCall
  <2> HIDE DEF did
  <2>5. CASE Conv(s) \in alive
    <3> DEFINE pc == IF o = "confirm" THEN "submitting" ELSE q.pc
               r == [q EXCEPT !.did = did, !.handled = q.handled + 1, !.pc = pc]
               row == ToolRow(s, q.handled + 1)
    <3>1. pc \in Places /\ pc \in {"handling", "submitting"}
      BY <2>3 DEF Places
    <3> HIDE DEF pc
    <3>2. r \in StreamRecord
      BY <2>2, <2>3, <3>1, CallRecord
    <3>3. stream' = [stream EXCEPT ![s] = r]
          /\ history' = [history EXCEPT ![Conv(s)] = Append(@, row)]
      BY <2>1, <2>5 DEF IInv, StreamsOK, did, pc, Append1
    <3>4. r.pc = pc /\ r.conv = q.conv /\ r.rounds = q.rounds /\ r.made = q.made
          /\ r.handled = q.handled + 1
      BY <2>3 DEF StreamRecord
    <3> HIDE DEF r, q
    <3>5. Budget(r)
      <4>1. q.rounds <= MaxRounds /\ q.made <= q.rounds * CallsPerRound /\ q.made <= MaxCalls
        BY <2>3 DEF Budget
      <4>2. r.handled <= r.made /\ r.handled > 0 /\ r.rounds <= MaxRounds + 1
        BY <2>3, <3>4, <4>1, BoundsAreNat
      <4> QED BY <3>1, <3>4, <4>1, <4>2 DEF Budget
    <3>6. row \in Rows /\ row.status # "streaming"
      <4>1. q.handled + 1 \in 0 .. MaxCalls
        BY <2>3, BoundsAreNat DEF Budget
      <4> QED BY <4>1, BoundsAreNat DEF ToolRow, Rows, Ended
    <3> HIDE DEF row
    <3>7. Conv(s) \in Conversations
      BY <2>5 DEF IInv, StreamsOK
    <3>8. \A d \in Conversations : Writes(q, d, torn) => Writes(r, d, torn)
      BY <3>1, <3>4 DEF Writes, Writing
    <3> QED BY <1>0, <2>4, <2>5, <3>2, <3>3, <3>5, <3>6, <3>7, <3>8, RowIsAdded DEF q
  <2>6. CASE Conv(s) \notin alive
    <3> DEFINE r == [q EXCEPT !.did = did, !.pc = "finishing", !.status = "failed"]
    <3>1. r \in StreamRecord
      BY <2>2, <2>3, CallRecord DEF Places
    <3>2. stream' = [stream EXCEPT ![s] = r] /\ history' = history
      BY <2>1, <2>6 DEF IInv, StreamsOK, did, CallRaises
    <3>3. r.pc = "finishing" /\ r.conv = q.conv /\ r.rounds = q.rounds /\ r.made = q.made
          /\ r.handled = q.handled /\ r.status = "failed"
      BY <2>3 DEF StreamRecord
    <3> HIDE DEF r, q
    <3>4. Budget(r)
      BY <2>3, <3>3, FinalBudget DEF Ended
    <3> QED BY <1>0, <2>3, <2>4, <3>1, <3>2, <3>3, <3>4, WriterMoves DEF Writing, q
  <2> QED BY <2>5, <2>6
<1>11. ASSUME NEW s \in Streams, SubmitCard(s) PROVE HInv'
  <2> DEFINE q == stream[s]
             r == [q EXCEPT !.pc = "handling", !.stop = TRUE, !.wrote = TRUE, !.did = NoTool]
  <2>1. /\ q \in StreamRecord /\ q.pc = "submitting" /\ Budget(q)
        /\ q.handled \in Nat /\ q.made \in Nat
    BY <1>0, <1>11 DEF SubmitCard, At, StreamRecord
  <2>2. r \in StreamRecord
    BY <2>1 DEF StreamRecord, Places
  <2>3. stream' = [stream EXCEPT ![s] = r] /\ cards' = cards \cup {<<s, q.handled>>}
        /\ UNCHANGED <<history, alive, up, torn, resumes, faults>>
    BY <1>11 DEF SubmitCard, IInv, StreamsOK
  <2>4. r.pc = "handling" /\ r.conv = q.conv /\ r.rounds = q.rounds /\ r.made = q.made
        /\ r.handled = q.handled
    BY <2>1 DEF StreamRecord
  <2> HIDE DEF r, q
  <2>5. Budget(r)
    BY <2>1, <2>4 DEF Budget
  <2>6. cards' \subseteq Calls
    <3>1. q.handled \in 1 .. MaxCalls
      BY <2>1, BoundsAreNat DEF Budget
    <3> QED BY <1>0, <2>3, <3>1 DEF Calls
  <2> QED BY <1>0, <2>1, <2>2, <2>3, <2>4, <2>5, <2>6, WriterMoves DEF Writing, q
<1>12. ASSUME NEW s \in Streams, WorkerRaises(s) PROVE HInv'
  <2>1. stream[s].pc \in Writing /\ faults' \in 0 .. MaxFaults
    BY <1>0, <1>00, <1>12 DEF WorkerRaises, At, Writing
  <2>2. Conclude(s, "failed", FALSE) /\ UNCHANGED <<history, alive, cards, resumes, up, torn>>
    BY <1>12 DEF WorkerRaises
  <2> QED BY <2>1, <2>2, WorkerConcludes DEF Ended
<1>13. ASSUME NEW s \in Streams, RoundEnds(s) PROVE HInv'
  <2>1. stream[s].pc = "handling" /\ UNCHANGED <<history, alive, cards, resumes, up, torn, faults>>
    BY <1>13 DEF RoundEnds, At
  <2>2. CASE stream[s].stop
    <3>1. Conclude(s, "done", FALSE)
      BY <1>13, <2>2 DEF RoundEnds
    <3> QED BY <1>0, <2>1, <3>1, WorkerConcludes DEF Ended, Writing
  <2>3. CASE ~stream[s].stop
    <3> DEFINE q == stream[s]
               r == [q EXCEPT !.pc = "round", !.did = NoTool]
    <3>1. r \in StreamRecord /\ q \in StreamRecord /\ Budget(q)
      BY <1>0 DEF StreamRecord, Places
    <3>2. stream' = [stream EXCEPT ![s] = r]
      BY <1>13, <2>3 DEF RoundEnds, IInv, StreamsOK
    <3>3. r.pc = "round" /\ r.conv = q.conv /\ r.rounds = q.rounds /\ r.made = q.made
          /\ r.handled = q.handled
      BY <3>1 DEF StreamRecord
    <3> HIDE DEF r
    <3>4. Budget(r)
      BY <2>1, <3>1, <3>3 DEF Budget
    <3> QED BY <1>0, <2>1, <3>1, <3>2, <3>3, <3>4, WriterMoves DEF Writing
  <2> QED BY <2>2, <2>3
<1>14. ASSUME NEW s \in Streams, Finalize(s) PROVE HInv'
  BY <1>14, AnswerIsStored
<1>15. ASSUME NEW s \in Streams, FinalizeFails(s) PROVE HInv'
  <2> DEFINE q == stream[s]
             r == [q EXCEPT !.pc = "closing"]
  <2>1. r \in StreamRecord /\ q \in StreamRecord /\ Budget(q)
    BY <1>0 DEF StreamRecord, Places
  <2>2. stream' = [stream EXCEPT ![s] = r]
    BY <1>15 DEF FinalizeFails, Goto, IInv, StreamsOK
  <2>3. r.pc = "closing" /\ r.conv = q.conv /\ r.rounds = q.rounds /\ r.made = q.made
        /\ r.handled = q.handled
    BY <2>1 DEF StreamRecord
  <2>4. /\ torn' = torn \cup ({q.conv} \cap Conversations) /\ faults' \in 0 .. MaxFaults
        /\ UNCHANGED <<history, alive, cards, resumes, up>>
    BY <1>00, <1>15 DEF FinalizeFails, Conv
  <2> HIDE DEF r
  <2>5. Budget(r)
    BY <2>1, <2>3, FinalBudget
  <2>6. \A c \in Conversations : Writes(q, c, torn) => Writes(r, c, torn')
    BY <2>3, <2>4 DEF Writes
  <2> QED BY <1>0, <2>1, <2>2, <2>4, <2>5, <2>6, RowsStay
<1>16. ASSUME NEW s \in Streams, Close(s) PROVE HInv'
  <2> DEFINE r == [Fresh EXCEPT !.pc = "ended", !.conv = Conv(s)]
  <2>1. Conv(s) \in Conversations \cup {NoConversation}
    BY <1>0 DEF Conv, StreamRecord
  <2>2. /\ r \in StreamRecord /\ r.pc = "ended" /\ r.conv = stream[s].conv
        /\ r.rounds = 0 /\ r.made = 0 /\ r.handled = 0
    BY <2>1, StreamAssumption
    DEF Fresh, StreamRecord, Places, Engines, Modes, Roles, Ended, Conv
  <2>3. stream' = [stream EXCEPT ![s] = r] /\ stream[s].pc = "closing"
        /\ UNCHANGED <<history, alive, cards, resumes, up, faults, torn>>
    BY <1>16 DEF Close, At
  <2> HIDE DEF r
  <2>4. Budget(r)
    BY <2>2, FreshBudget
  <2>5. \A c \in Conversations : Writes(stream[s], c, torn) => Writes(r, c, torn')
    BY <2>2, <2>3 DEF Writes, Writing
  <2> QED BY <1>0, <2>2, <2>3, <2>4, <2>5, RowsStay
<1>17. ASSUME NEW s \in Streams, StartInsight(s) PROVE HInv'
  <2>1. PICK engine \in {"plain", "rules"} :
          stream' = [stream EXCEPT ![s] = [Fresh EXCEPT !.pc = "reading", !.engine = engine]]
    BY <1>17 DEF StartInsight
  <2> DEFINE r == [Fresh EXCEPT !.pc = "reading", !.engine = engine]
  <2>2. r \in StreamRecord /\ r.pc = "reading" /\ r.rounds = 0 /\ r.made = 0 /\ r.handled = 0
    BY StreamAssumption
    DEF Fresh, StreamRecord, Places, Engines, Modes, Roles, Ended
  <2>3. \A d \in Conversations : ~Writes(stream[s], d, torn)
    BY <1>17 DEF StartInsight, At, Writes, Writing
  <2>4. UNCHANGED <<history, alive, cards, resumes, up, faults, torn>>
    BY <1>17 DEF StartInsight
  <2> HIDE DEF r
  <2>5. Budget(r)
    BY <2>2, FreshBudget
  <2>6. stream' = [stream EXCEPT ![s] = r]
    BY <2>1 DEF r
  <2> QED BY <1>0, <2>2, <2>3, <2>4, <2>5, <2>6, RowsStay
<1>18. ASSUME NEW s \in Streams, Cancel(s) PROVE HInv'
  <2> DEFINE q == stream[s]
             r == [q EXCEPT !.cancel = TRUE]
  <2>1. r \in StreamRecord /\ q \in StreamRecord /\ Budget(q)
    BY <1>0 DEF StreamRecord
  <2>2. stream' = [stream EXCEPT ![s] = r]
        /\ UNCHANGED <<history, alive, cards, resumes, up, faults, torn>>
    BY <1>18 DEF Cancel, IInv, StreamsOK
  <2>3. r.pc = q.pc /\ r.conv = q.conv /\ r.rounds = q.rounds /\ r.made = q.made
        /\ r.handled = q.handled /\ r.status = q.status
    BY <2>1 DEF StreamRecord
  <2>4. r.capped = q.capped
    BY <2>1 DEF StreamRecord
  <2> HIDE DEF r
  <2>5. Budget(r)
    BY <2>1, <2>3, <2>4 DEF Budget
  <2>6. \A c \in Conversations : Writes(q, c, torn) => Writes(r, c, torn')
    BY <2>2, <2>3 DEF Writes
  <2> QED BY <1>0, <2>1, <2>2, <2>5, <2>6, RowsStay
<1>19. ASSUME NEW s \in Streams, NEW c \in Conversations, StartChat(s, c) PROVE HInv'
  <2>1. history' = [history EXCEPT ![c] = Append(@, UserRow)] /\ resumes' \subseteq resumes
    BY <1>19 DEF StartChat, Append1
  <2>2. c \in alive /\ Begin(s, c) /\ UNCHANGED <<alive, up, cards, faults>>
    BY <1>19 DEF StartChat
  <2> QED BY <2>1, <2>2, ChatHistoryBegins
<1>20. ASSUME NEW s \in Streams, NEW k \in resumes, ResumeChat(s, k) PROVE HInv'
  <2>1. Conv(k[1]) \in Conversations
    BY <1>20 DEF ResumeChat, IInv, StreamsOK
  <2> QED BY <1>20, <2>1, ChatHistoryBegins DEF ResumeChat
<1>21. ASSUME NEW k \in resumes, ResumeRefused(k) PROVE HInv'
  BY <1>0, <1>21, HistoryStays DEF ResumeRefused
<1>22. ASSUME NEW k \in cards, DecideCard(k) \/ ExpireCard(k) PROVE HInv'
  BY <1>0, <1>22, HistoryStays DEF DecideCard, ExpireCard
<1>23. ASSUME NEW c \in Conversations, DeleteConversation(c) PROVE HInv'
  <2>1. /\ alive' = alive \ {c} /\ history' = [history EXCEPT ![c] = <<>>]
        /\ cards' \subseteq cards
        /\ UNCHANGED <<stream, resumes, up, faults, torn>>
    BY <1>23 DEF DeleteConversation
  <2>2. history'[c] = <<>> /\ \A d \in Conversations \ {c} : history'[d] = history[d]
    BY <2>1 DEF HInv, Tables
  <2>3. Tables'
    <3>1. <<>> \in Seq(Rows)
      OBVIOUS
    <3>2. history' \in [Conversations -> Seq(Rows)]
      BY <2>1, <3>1 DEF HInv, Tables
    <3>3. \A d \in Conversations \ alive' : history'[d] = <<>>
      BY <2>1, <2>2 DEF HInv, Tables
    <3> QED BY <2>1, <3>2, <3>3 DEF HInv, Tables
  <2>4. Budgets'
    BY <2>1 DEF HInv, Budgets
  <2>5. ASSUME NEW d \in Conversations, NEW i \in DOMAIN history'[d]
        PROVE  RowIsWritten(history[d][i], d)'
    <3>1. d # c
      BY <2>2
    <3>2. history'[d][i] = history[d][i] /\ i \in DOMAIN history[d]
      BY <2>2, <3>1
    <3> QED BY <2>1, <3>2 DEF HInv, Written, RowIsWritten
  <2>6. Written'
    BY <2>5 DEF Written
  <2> QED BY <2>3, <2>4, <2>6 DEF HInv
<1>24. CASE Crash
  <2> DEFINE r(s) == [Fresh EXCEPT !.pc = "dead", !.conv = Conv(s)]
  <2>1. \A s \in Streams : stream'[s] = IF stream[s].pc \in Occupied THEN r(s) ELSE stream[s]
    BY <1>24 DEF Crash
  <2>2. \A s \in Streams : Budget(r(s))
    <3> SUFFICES ASSUME NEW s \in Streams PROVE Budget(r(s))
      OBVIOUS
    <3>1. r(s).rounds = 0 /\ r(s).made = 0 /\ r(s).handled = 0 /\ r(s).pc = "dead"
      BY DEF Fresh
    <3> HIDE DEF r
    <3> QED BY <3>1, FreshBudget
  <2> HIDE DEF r
  <2>3. Budgets'
    BY <1>0, <2>1, <2>2 DEF Budgets
  <2>4. Tables'
    <3>1. up' = FALSE /\ resumes' = {} /\ torn' \subseteq Conversations
          /\ faults' \in 0 .. MaxFaults /\ UNCHANGED <<history, alive, cards>>
      BY <1>0, <1>00, <1>24 DEF Crash
    <3>2. up' \in BOOLEAN
      BY <3>1
    <3> QED BY <3>1, <3>2 DEF HInv, Tables
  <2>5. up' = FALSE /\ history' = history
    BY <1>24 DEF Crash
  <2>6. Written'
    BY <2>5 DEF HInv, Written, RowIsWritten
  <2> QED BY <2>3, <2>4, <2>6 DEF HInv
<1>25. CASE Restart
  <2>1. history' = FailStale /\ up' = TRUE
        /\ UNCHANGED <<stream, alive, cards, resumes, faults, torn>>
    BY <1>25 DEF Restart
  <2> DEFINE Failed(row) == [row EXCEPT !.status = IF @ = "streaming" THEN "failed" ELSE @]
  <2>2. \A row \in Rows : Failed(row) \in Rows /\ Failed(row).status # "streaming"
    BY DEF Rows, Ended
  <2>3. ASSUME NEW c \in Conversations
        PROVE  /\ history'[c] \in Seq(Rows)
               /\ \A i \in DOMAIN history'[c] : history'[c][i].status # "streaming"
               /\ history[c] = <<>> => history'[c] = <<>>
    <3> DEFINE new == [i \in DOMAIN history[c] |-> Failed(history[c][i])]
    <3>1. history[c] \in Seq(Rows)
      BY DEF HInv, Tables
    <3>2. history'[c] = new
      BY <2>1 DEF FailStale
    <3>3. DOMAIN history[c] = 1 .. Len(history[c]) /\ Len(history[c]) \in Nat
          /\ \A i \in DOMAIN history[c] : history[c][i] \in Rows
      BY <3>1
    <3> HIDE DEF Failed
    <3>4. new \in [1 .. Len(history[c]) -> Rows]
      BY <2>2, <3>3
    <3>5. \A n \in Nat : \A f \in [1 .. n -> Rows] : f \in Seq(Rows)
      BY SeqDef
    <3>6. \A i \in DOMAIN new : new[i].status # "streaming"
      BY <2>2, <3>3
    <3>7. history[c] = <<>> => new = <<>>
      <4> SUFFICES ASSUME history[c] = <<>> PROVE new = <<>>
        OBVIOUS
      <4>1. Len(history[c]) = 0
        OBVIOUS
      <4>2. new \in Seq(Rows) /\ DOMAIN new = 1 .. 0
        BY <3>3, <3>4, <3>5, <4>1
      <4> HIDE DEF new
      <4>3. Len(new) = 0
        BY <4>2
      <4> QED BY <4>2, <4>3
    <3> QED BY <3>2, <3>3, <3>4, <3>5, <3>6, <3>7
  <2> HIDE DEF Failed
  <2>4. Tables'
    <3>1. history' = [c \in Conversations |-> history'[c]]
      BY <2>1 DEF FailStale
    <3>2. history' \in [Conversations -> Seq(Rows)]
      BY <2>3, <3>1
    <3>3. up' \in BOOLEAN
      BY <2>1
    <3> QED BY <2>1, <2>3, <3>2, <3>3 DEF HInv, Tables
  <2>5. Written'
    BY <2>3 DEF Written, RowIsWritten
  <2>6. Budgets'
    BY <2>1 DEF HInv, Budgets
  <2> QED BY <2>4, <2>5, <2>6 DEF HInv
<1>26. CASE UNCHANGED vars
  BY <1>0, <1>26, HistoryStays DEF vars
<1>27. ASSUME NEW s \in Streams, ThreadFails(s) PROVE HInv'
  <2> DEFINE r == [stream[s] EXCEPT !.pc = "unstarted"]
  <2>1. r \in StreamRecord
    BY <1>0 DEF StreamRecord, Places
  <2>2. stream' = [stream EXCEPT ![s] = r] /\ stream[s].pc = "preparing"
    BY <1>27 DEF ThreadFails, Goto, At, IInv, StreamsOK
  <2>3. /\ r.pc = "unstarted" /\ r.conv = Conv(s) /\ r.rounds = stream[s].rounds
        /\ r.made = stream[s].made /\ r.handled = stream[s].handled
    BY <1>0 DEF StreamRecord, Conv
  <2> HIDE DEF r
  <2>4. Budget(r)
    BY <1>0, <2>2, <2>3 DEF Budget
  <2>5. AssistantRow(s) \in Rows /\ AssistantRow(s).role = "assistant"
        /\ AssistantRow(s).stream = s
    BY BoundsAreNat DEF AssistantRow, Rows
  <2>6. Conv(s) \in Conversations /\ Conv(s) \in alive
    BY <1>27 DEF ThreadFails, IInv, StreamsOK
  <2>7. \A d \in Conversations : ~Writes(stream[s], d, torn)
    BY <2>2 DEF Writes, Writing
  <2>8. Writes(r, Conv(s), torn')
    BY <2>3 DEF Writes
  <2>9. /\ history' = [history EXCEPT ![Conv(s)] = Append(@, AssistantRow(s))]
        /\ alive' = alive /\ up' = up /\ torn' = torn /\ cards' = cards
        /\ resumes' = resumes /\ faults' \in 0 .. MaxFaults
    BY <1>00, <1>27 DEF ThreadFails, Append1
  <2> QED BY <1>0, <2>1, <2>2, <2>4, <2>5, <2>6, <2>7, <2>8, <2>9, RowIsAdded
<1>28. ASSUME NEW s \in Streams, InsightThreadFails(s) PROVE HInv'
  <2> DEFINE r == [stream[s] EXCEPT !.pc = "unstarted"]
  <2>1. r \in StreamRecord
    BY <1>0 DEF StreamRecord, Places
  <2>2. stream' = [stream EXCEPT ![s] = r] /\ stream[s].pc = "none"
    BY <1>28 DEF InsightThreadFails, Goto, At, IInv, StreamsOK
  <2>3. /\ r.pc = "unstarted" /\ r.rounds = stream[s].rounds
        /\ r.made = stream[s].made /\ r.handled = stream[s].handled
    BY <1>0 DEF StreamRecord
  <2> HIDE DEF r
  <2>4. Budget(r)
    BY <1>0, <2>2, <2>3 DEF Budget
  <2>5. \A d \in Conversations : ~Writes(stream[s], d, torn)
    BY <2>2 DEF Writes, Writing
  <2>6. /\ UNCHANGED <<history, alive, cards, resumes, up, torn>>
        /\ faults' \in 0 .. MaxFaults
    BY <1>00, <1>28 DEF InsightThreadFails
  <2> QED BY <1>0, <2>1, <2>2, <2>4, <2>5, <2>6, RowsStay
<1> QED
  BY <1>1, <1>2, <1>3, <1>4, <1>5, <1>6, <1>7, <1>8, <1>9, <1>10, <1>11, <1>12, <1>13,
     <1>14, <1>15, <1>16, <1>17, <1>18, <1>19, <1>20, <1>21, <1>22, <1>23, <1>24, <1>25,
     <1>26, <1>27, <1>28
  DEF Next, WorkerStep

\* The tables are empty and no stream has begun.
LEMMA InitImpliesHistory == Init => HInv
<1> SUFFICES ASSUME Init PROVE HInv
  OBVIOUS
<1>1. Budget(Fresh)
  BY FreshBudget DEF Fresh
<1>2. Budgets
  BY <1>1 DEF Init, Budgets
<1>3. Tables
  <2>1. <<>> \in Seq(Rows)
    OBVIOUS
  <2> QED BY <2>1, StreamAssumption DEF Init, Tables
<1>4. Written
  BY DEF Init, Written
<1> QED BY <1>2, <1>3, <1>4 DEF HInv

\* How far a chat has come and who writes its rows, of every behaviour.
THEOREM HistoryInvariance == Spec => []HInv
<1>1. IInv /\ HInv /\ [Next]_vars => HInv'
  BY StepPreservesHistory
<1> QED BY <1>1, InitImpliesHistory, Invariance, PTL DEF Spec

\* Streams, rows and cards keep their types; the rounds and calls of a chat stay
\* within AI_MAX_TOOL_ROUNDS and one last round without tools.
THEOREM TypeCorrect == Spec => []TypeOK
<1>1. ASSUME IInv, HInv PROVE TypeOK
  <2>1. ASSUME NEW s \in Streams PROVE StreamOK(stream[s])
    <3> DEFINE r == stream[s]
    <3>1. r \in StreamRecord /\ Budget(r)
      BY <1>1 DEF IInv, StreamsOK, HInv, Budgets
    <3> HIDE DEF r
    <3>2. r.rounds \in 0 .. MaxRounds + 1 /\ r.made \in 0 .. MaxCalls
          /\ r.handled \in 0 .. r.made
      BY <3>1, BoundsAreNat DEF StreamRecord, Budget
    <3>3. /\ r.pc \in Places /\ r.conv \in Conversations \cup {NoConversation}
          /\ r.engine \in Engines /\ r.mode \in Modes /\ r.role \in Roles
          /\ r.did \in Tools \cup {NoTool} /\ r.status \in Ended \cup {"streaming"}
      BY <3>1 DEF StreamRecord
    <3>4. {r.stop, r.capped, r.wrote, r.cancel} \subseteq BOOLEAN
      BY <3>1, Zenon DEF StreamRecord
    <3> QED BY <3>2, <3>3, <3>4 DEF StreamOK, r
  <2>2. permits \in 0 .. Slots
    BY <1>1, HoldersAreFinite, StreamAssumption DEF IInv, Counted
  <2>3. /\ DOMAIN history = Conversations
        /\ \A c \in Conversations : \A i \in DOMAIN history[c] : history[c][i] \in Rows
    BY <1>1 DEF HInv, Tables
  <2>4. DOMAIN stream = Streams /\ alive \subseteq Conversations
    BY <1>1 DEF IInv, StreamsOK
  <2> QED BY <1>1, <2>1, <2>2, <2>3, <2>4 DEF TypeOK, HInv, Tables
<1> QED BY <1>1, Invariance, HistoryInvariance, PTL

\* A message that says streaming has a thread that writes it, after any deletion,
\* crash and restart, with any chats side by side; a failing finish_ai_message
\* alone leaves one behind (_finalize, fail_stale_streaming_messages).
THEOREM StreamingMessagesAreWritten == Spec => []StreamingIsWritten
<1>1. HInv => StreamingIsWritten
  BY DEF HInv, Written, RowIsWritten, Writes, Writing, Occupied, Held, At, StreamingIsWritten
<1> QED BY <1>1, HistoryInvariance, PTL

-----------------------------------------------------------------------------
(* The request that is built from rows in order.                           *)
(*                                                                         *)
(* FlattenSeq is a fold: what it makes of n blocks is not proved by        *)
(* induction but by the least number at which it would fail.               *)

\* The order of the numbers, as a relation.
Below == {ss \in Nat \X Nat : ss[1] < ss[2]}

\* A set of numbers that is not empty has a least one.
LEMMA LeastNumber ==
  ASSUME NEW T \in SUBSET Nat, T # {}
  PROVE  \E x \in T : \A y \in T : x <= y
<1>1. IsWellFoundedOn(Below, Nat)
  BY NatLessThanWellFounded DEF OpToRel, Below
<1>2. PICK x \in T : \A y \in T : ~ (<<y, x>> \in Below)
  BY <1>1, WFMin
<1>3. ASSUME NEW y \in T PROVE x <= y
  <2>1. y < x => <<y, x>> \in Below
    BY DEF Below
  <2> QED BY <1>2, <2>1
<1> QED BY <1>3

\* Step by step a set comes to hold every number up to n.
LEMMA StepByStep ==
  ASSUME NEW T, NEW n \in Nat, 1 \in T, \A i \in 1 .. n - 1 : i \in T => i + 1 \in T
  PROVE  1 .. n \subseteq T
<1> DEFINE missing == (1 .. n) \ T
<1> SUFFICES ASSUME missing # {} PROVE FALSE
  OBVIOUS
<1>1. missing \in SUBSET Nat
  OBVIOUS
<1>2. PICK x \in missing : \A y \in missing : x <= y
  BY <1>1, LeastNumber
<1>3. x - 1 \in 1 .. n - 1 /\ x - 1 \notin missing
  BY <1>2
<1>4. (x - 1) + 1 = x
  BY <1>2
<1> QED BY <1>2, <1>3, <1>4

-----------------------------------------------------------------------------
\* The concatenation of the first i blocks, for every i, is a function.
Joins(f, B, n) ==
    /\ f = [i \in 1 .. n |-> f[i]]
    /\ f[1] = B[1]
    /\ \A i \in 1 .. n - 1 : f[i + 1] = f[i] \o B[i + 1]

\* There is such a function: its domain grows one block at a time.
LEMMA JoinsExist ==
  ASSUME NEW B, NEW n \in Nat \ {0}
  PROVE  \E f : Joins(f, B, n)
<1> DEFINE T == {i \in 1 .. n : \E f : Joins(f, B, i)}
<1>1. 1 \in T
  <2>1. Joins([i \in 1 .. 1 |-> B[1]], B, 1)
    BY DEF Joins
  <2> QED BY <2>1
<1>2. ASSUME NEW i \in 1 .. n - 1, i \in T PROVE i + 1 \in T
  <2>1. PICK f : Joins(f, B, i)
    BY <1>2
  <2> DEFINE g == [j \in 1 .. i + 1 |-> IF j = i + 1 THEN f[i] \o B[i + 1] ELSE f[j]]
  <2>2. g = [j \in 1 .. i + 1 |-> g[j]] /\ g[1] = B[1]
    BY <2>1 DEF Joins
  <2>3. g[i + 1] = f[i] \o B[i + 1] /\ \A j \in 1 .. i : g[j] = f[j]
    <3>1. i + 1 \in 1 .. i + 1 /\ \A j \in 1 .. i : j \in 1 .. i + 1 /\ j # i + 1
      OBVIOUS
    <3> QED BY <3>1, Zenon
  <2> HIDE DEF g
  <2>4. ASSUME NEW j \in 1 .. i PROVE g[j + 1] = g[j] \o B[j + 1]
    <3>1. CASE j = i
      BY <2>3, <3>1
    <3>2. CASE j # i
      <4>1. j \in 1 .. i - 1 /\ j + 1 \in 1 .. i
        BY <3>2
      <4>2. f[j + 1] = f[j] \o B[j + 1]
        BY <2>1, <4>1 DEF Joins
      <4> QED BY <2>3, <4>1, <4>2
    <3> QED BY <3>1, <3>2
  <2>5. (i + 1) - 1 = i
    OBVIOUS
  <2>6. Joins(g, B, i + 1)
    BY <2>2, <2>4, <2>5 DEF Joins
  <2>7. i + 1 \in 1 .. n
    OBVIOUS
  <2> QED BY <2>6, <2>7
<1> HIDE DEF T
<1>3. 1 .. n \subseteq T
  BY <1>1, <1>2, StepByStep
<1>4. n \in T
  BY <1>3
<1> QED BY <1>4 DEF T

\* FlattenSeq is the last of them.
LEMMA FlattenJoins ==
  ASSUME NEW B, NEW n \in Nat \ {0}, Len(B) = n
  PROVE  \E f : Joins(f, B, n) /\ FlattenSeq(B) = f[n]
<1> DEFINE flatten[i \in 1 .. Len(B)] == IF i = 1 THEN B[i] ELSE flatten[i - 1] \o B[i]
<1>1. FlattenSeq(B) = flatten[Len(B)]
  BY DEF FlattenSeq
<1>2. PICK f : Joins(f, B, n)
  BY JoinsExist
<1>3. ASSUME NEW i \in 1 .. n, i # 1 PROVE f[i] = f[i - 1] \o B[i]
  <2>1. i - 1 \in 1 .. n - 1 /\ (i - 1) + 1 = i
    BY <1>3
  <2> QED BY <1>2, <2>1 DEF Joins
<1> DEFINE Next1(h) == [i \in 1 .. Len(B) |-> IF i = 1 THEN B[i] ELSE h[i - 1] \o B[i]]
<1>4. f = Next1(f)
  <2>1. f = [i \in 1 .. n |-> f[i]] /\ f[1] = B[1]
    BY <1>2 DEF Joins
  <2> QED BY <1>3, <2>1
<1>5. flatten = CHOOSE h : h = Next1(h)
  OBVIOUS
<1> HIDE DEF Next1
<1>6. flatten = Next1(flatten)
  BY <1>4, <1>5
<1> USE DEF Next1
<1>7. flatten = [i \in 1 .. n |-> flatten[i]] /\ flatten[1] = B[1]
  <2>1. 1 \in 1 .. Len(B)
    OBVIOUS
  <2> HIDE DEF flatten
  <2>2. flatten[1] = B[1]
    BY <1>6, <2>1, Zenon
  <2>3. flatten = [i \in 1 .. Len(B) |-> flatten[i]]
    BY <1>6, Zenon
  <2> QED BY <2>2, <2>3
<1>8. ASSUME NEW i \in 1 .. n - 1 PROVE flatten[i + 1] = flatten[i] \o B[i + 1]
  <2>1. i + 1 \in 1 .. Len(B) /\ i + 1 # 1 /\ (i + 1) - 1 = i
    OBVIOUS
  <2> HIDE DEF flatten
  <2>2. \A k \in 1 .. Len(B) : k # 1 => flatten[k] = flatten[k - 1] \o B[k]
    BY <1>6, Zenon
  <2> QED BY <2>1, <2>2
<1> HIDE DEF flatten, Next1
<1>9. Joins(flatten, B, n)
  BY <1>7, <1>8 DEF Joins
<1> QED BY <1>1, <1>9

\* Where the blocks of B begin in their concatenation m.
Offsets(o, B, n) ==
    /\ o \in [0 .. n -> Nat] /\ o[0] = 0
    /\ \A b \in 1 .. n : o[b] = o[b - 1] + Len(B[b])
Laid(m, o, B, n) ==
    /\ Len(m) = o[n]
    /\ \A b \in 1 .. n : \A k \in 1 .. Len(B[b]) : m[o[b - 1] + k] = B[b][k]

\* Blocks begin in their order.
LEMMA OffsetsGrow ==
  ASSUME NEW M, NEW n \in Nat, NEW B \in [1 .. n -> Seq(M)], NEW o, Offsets(o, B, n)
  PROVE  \A a, b \in 0 .. n : a <= b => o[a] <= o[b]
<1> DEFINE T == {b \in 1 .. n : \A a \in 0 .. b : o[a] <= o[b]}
<1>1. \A b \in 0 .. n : o[b] \in Nat
  BY DEF Offsets
<1>2. \A b \in 1 .. n : o[b - 1] <= o[b]
  <2> TAKE b \in 1 .. n
  <2>1. Len(B[b]) \in Nat
    BY LenProperties
  <2>2. o[b] = o[b - 1] + Len(B[b]) /\ o[b - 1] \in Nat
    BY DEF Offsets
  <2> QED BY <2>1, <2>2
<1>3. n # 0 => 1 \in T
  <2> SUFFICES ASSUME n # 0 PROVE \A a \in 0 .. 1 : o[a] <= o[1]
    OBVIOUS
  <2>1. o[0] <= o[1]
    <3>1. 1 \in 1 .. n /\ 1 - 1 = 0
      OBVIOUS
    <3> QED BY <1>2, <3>1
  <2>2. o[1] <= o[1]
    BY <1>1
  <2> QED BY <2>1, <2>2
<1>4. ASSUME NEW b \in 1 .. n - 1, b \in T PROVE b + 1 \in T
  <2>1. b + 1 \in 1 .. n /\ (b + 1) - 1 = b
    OBVIOUS
  <2>2. o[b] <= o[b + 1] /\ o[b] \in Nat /\ o[b + 1] \in Nat
    BY <1>1, <1>2, <2>1
  <2>3. ASSUME NEW a \in 0 .. b + 1 PROVE o[a] <= o[b + 1]
    <3>1. CASE a = b + 1
      BY <2>2, <3>1
    <3>2. CASE a # b + 1
      <4>1. o[a] <= o[b] /\ o[a] \in Nat
        BY <1>1, <1>4, <3>2
      <4> QED BY <2>2, <4>1
    <3> QED BY <3>1, <3>2
  <2> QED BY <2>1, <2>3
<1> HIDE DEF T
<1>5. n # 0 => 1 .. n \subseteq T
  BY <1>3, <1>4, StepByStep
<1> SUFFICES ASSUME NEW a \in 0 .. n, NEW b \in 0 .. n, a <= b PROVE o[a] <= o[b]
  OBVIOUS
<1>6. CASE b = 0
  BY <1>1, <1>6
<1>7. CASE b # 0
  <2>1. b \in T /\ a \in 0 .. b
    BY <1>5, <1>7
  <2> QED BY <2>1 DEF T
<1> QED BY <1>6, <1>7

\* Every place of the concatenation is in a block.
LEMMA BlockOfPlace ==
  ASSUME NEW M, NEW n \in Nat \ {0}, NEW B \in [1 .. n -> Seq(M)], NEW o, Offsets(o, B, n),
         NEW p \in 1 .. o[n]
  PROVE  \E b \in 1 .. n : o[b - 1] < p /\ p <= o[b]
<1> DEFINE T == {b \in 1 .. n : p <= o[b]}
<1>1. \A b \in 0 .. n : o[b] \in Nat
  BY DEF Offsets
<1>2. n \in T /\ T \in SUBSET Nat
  BY <1>1
<1>3. PICK b \in T : \A c \in T : b <= c
  BY <1>2, LeastNumber
<1>4. CASE b = 1
  BY <1>3, <1>4 DEF Offsets
<1>5. CASE b # 1
  <2>1. b - 1 \in 1 .. n /\ b - 1 \notin T
    BY <1>3, <1>5
  <2> QED BY <1>1, <1>3, <2>1
<1> QED BY <1>4, <1>5

\* Joined blocks lie where their offsets say.
LEMMA Joined ==
  ASSUME NEW M, NEW s \in Seq(M), NEW t \in Seq(M), NEW u, u = s \o t
  PROVE  /\ u \in Seq(M) /\ Len(u) = Len(s) + Len(t)
         /\ \A k \in 1 .. Len(s) : u[k] = s[k]
         /\ \A k \in 1 .. Len(t) : u[Len(s) + k] = t[k]
<1>1. Len(s) \in Nat /\ Len(t) \in Nat
  BY LenProperties
<1>2. /\ u \in Seq(M) /\ Len(u) = Len(s) + Len(t)
      /\ \A k \in 1 .. Len(s) + Len(t) : u[k] = IF k <= Len(s) THEN s[k] ELSE t[k - Len(s)]
  BY ConcatProperties, Zenon
<1>3. ASSUME NEW k \in 1 .. Len(s) PROVE u[k] = s[k]
  BY <1>1, <1>2
<1>4. ASSUME NEW k \in 1 .. Len(t) PROVE u[Len(s) + k] = t[k]
  <2>1. Len(s) + k \in 1 .. Len(s) + Len(t) /\ ~(Len(s) + k <= Len(s)) /\ (Len(s) + k) - Len(s) = k
    BY <1>1
  <2> QED BY <1>2, <2>1
<1> QED BY <1>2, <1>3, <1>4

\* So does what FlattenSeq returns.
LEMMA Flattened ==
  ASSUME NEW M, NEW n \in Nat \ {0}, NEW B \in [1 .. n -> Seq(M)], Len(B) = n
  PROVE  /\ FlattenSeq(B) \in Seq(M)
         /\ \E o : Offsets(o, B, n) /\ Laid(FlattenSeq(B), o, B, n)
<1>1. PICK f : Joins(f, B, n) /\ FlattenSeq(B) = f[n]
  BY FlattenJoins
<1> DEFINE Typed == {i \in 1 .. n : f[i] \in Seq(M)}
<1>2. 1 \in Typed
  BY <1>1 DEF Joins
<1>3. ASSUME NEW i \in 1 .. n - 1, i \in Typed PROVE i + 1 \in Typed
  <2>1. i + 1 \in 1 .. n
    OBVIOUS
  <2>2. f[i + 1] = f[i] \o B[i + 1]
    BY <1>1, Zenon DEF Joins
  <2>3. f[i] \in Seq(M) /\ B[i + 1] \in Seq(M)
    BY <1>3, <2>1
  <2>4. f[i + 1] \in Seq(M)
    BY <2>2, <2>3, Joined
  <2> QED BY <2>1, <2>4
<1> HIDE DEF Typed
<1>4. 1 .. n \subseteq Typed
  BY <1>2, <1>3, StepByStep
<1>5. \A i \in 1 .. n : f[i] \in Seq(M)
  BY <1>4 DEF Typed
<1> DEFINE o == [i \in 0 .. n |-> IF i = 0 THEN 0 ELSE Len(f[i])]
<1>6. o[0] = 0 /\ \A i \in 1 .. n : o[i] = Len(f[i])
  OBVIOUS
<1>7. o \in [0 .. n -> Nat]
  BY <1>5, LenProperties
<1> HIDE DEF o
<1>8. ASSUME NEW i \in 1 .. n - 1
      PROVE  /\ i + 1 \in 1 .. n
             /\ o[i + 1] = o[i] + Len(B[i + 1])
             /\ \A k \in 1 .. o[i] : f[i + 1][k] = f[i][k]
             /\ \A k \in 1 .. Len(B[i + 1]) : f[i + 1][o[i] + k] = B[i + 1][k]
  <2>1. i + 1 \in 1 .. n /\ i \in 1 .. n
    OBVIOUS
  <2>2. f[i + 1] = f[i] \o B[i + 1]
    BY <1>1, Zenon DEF Joins
  <2>3. f[i] \in Seq(M) /\ B[i + 1] \in Seq(M) /\ o[i] = Len(f[i]) /\ o[i + 1] = Len(f[i + 1])
    BY <1>5, <1>6, <2>1
  <2>4. /\ Len(f[i + 1]) = Len(f[i]) + Len(B[i + 1])
        /\ \A k \in 1 .. Len(f[i]) : f[i + 1][k] = f[i][k]
        /\ \A k \in 1 .. Len(B[i + 1]) : f[i + 1][Len(f[i]) + k] = B[i + 1][k]
    <3> DEFINE x == f[i]
               y == B[i + 1]
               z == f[i + 1]
    <3>1. x \in Seq(M) /\ y \in Seq(M) /\ z = x \o y
      BY <2>2, <2>3
    <3> HIDE DEF x, y, z
    <3>2. /\ Len(z) = Len(x) + Len(y) /\ \A k \in 1 .. Len(x) : z[k] = x[k]
          /\ \A k \in 1 .. Len(y) : z[Len(x) + k] = y[k]
      BY <3>1, Joined
    <3> QED BY <3>2 DEF x, y, z
  <2> QED BY <2>1, <2>3, <2>4, Zenon
<1>9. Offsets(o, B, n)
  <2>1. ASSUME NEW b \in 1 .. n PROVE o[b] = o[b - 1] + Len(B[b])
    <3>1. CASE b = 1
      <4>1. o[1] = Len(B[1]) /\ o[0] = 0 /\ Len(B[1]) \in Nat
        BY <1>1, <1>6, LenProperties DEF Joins
      <4> QED BY <3>1, <4>1
    <3>2. CASE b # 1
      <4>1. b - 1 \in 1 .. n - 1 /\ (b - 1) + 1 = b
        BY <3>2
      <4> QED BY <1>8, <4>1
    <3> QED BY <3>1, <3>2
  <2> QED BY <1>6, <1>7, <2>1 DEF Offsets
<1> DEFINE There == {i \in 1 .. n : Laid(f[i], o, B, i)}
<1>10. 1 \in There
  <2>1. f[1] = B[1] /\ o[0] = 0 /\ o[1] = Len(f[1])
    BY <1>1, <1>6 DEF Joins
  <2>2. ASSUME NEW b \in 1 .. 1, NEW k \in 1 .. Len(B[b]) PROVE f[1][o[b - 1] + k] = B[b][k]
    BY <2>1
  <2> QED BY <2>1, <2>2 DEF Laid
<1>11. ASSUME NEW i \in 1 .. n - 1, i \in There PROVE i + 1 \in There
  <2>1. Laid(f[i], o, B, i)
    BY <1>11
  <2>2. ASSUME NEW b \in 1 .. i + 1, NEW k \in 1 .. Len(B[b])
        PROVE  f[i + 1][o[b - 1] + k] = B[b][k]
    <3>1. CASE b = i + 1
      BY <1>8, <3>1
    <3>2. CASE b # i + 1
      <4>1. b \in 1 .. i /\ b \in 0 .. n /\ i \in 0 .. n /\ b \in 1 .. n /\ b - 1 \in 0 .. n
        BY <3>2
      <4>2. f[i][o[b - 1] + k] = B[b][k]
        BY <2>1, <4>1 DEF Laid
      <4>3. o[b] <= o[i] /\ o[b] = o[b - 1] + Len(B[b]) /\ Len(B[b]) \in Nat
        <5>0. \A c, d \in 0 .. n : c <= d => o[c] <= o[d]
          BY <1>9, OffsetsGrow
        <5>1. o[b] <= o[i]
          BY <4>1, <5>0
        <5>2. Len(B[b]) \in Nat
          BY <4>1, LenProperties
        <5> QED BY <1>9, <4>1, <5>1, <5>2 DEF Offsets
      <4>4. o[b - 1] \in Nat /\ o[b] \in Nat /\ o[i] \in Nat
        BY <1>7, <4>1
      <4>5. o[b - 1] + k \in 1 .. o[i]
        <5>1. k \in Nat /\ 1 <= k /\ k <= Len(B[b])
          BY <4>3
        <5> QED BY <4>3, <4>4, <5>1
      <4> QED BY <1>8, <4>2, <4>5
    <3> QED BY <3>1, <3>2
  <2>3. i + 1 \in 1 .. n /\ Len(f[i + 1]) = o[i + 1]
    BY <1>6
  <2> QED BY <2>2, <2>3 DEF Laid
<1> HIDE DEF There
<1>12. 1 .. n \subseteq There
  BY <1>10, <1>11, StepByStep
<1>13. Laid(f[n], o, B, n) /\ f[n] \in Seq(M)
  BY <1>5, <1>12 DEF There
<1> QED BY <1>1, <1>9, <1>13

-----------------------------------------------------------------------------
\* The messages a request can hold.
Msgs == [role : {"user", "assistant", "tool"},
         calls : SUBSET (Calls \cup ({NoStream} \X (1 .. MaxCalls))),
         call : {<<>>} \cup ((Streams \cup {NoStream}) \X (0 .. MaxCalls))]

\* The elements of a finite set, in a row.
LEMMA SetInARow ==
  ASSUME NEW S, IsFiniteSet(S)
  PROVE  /\ SetToSeq(S) \in Seq(S)
         /\ \A x \in S : \E k \in 1 .. Len(SetToSeq(S)) : SetToSeq(S)[k] = x
<1> DEFINE n == Cardinality(S)
           f == SetToSeq(S)
<1>1. n \in Nat /\ ExistsBijection(1 .. n, S)
  BY FS_CardinalityType
<1>2. \E g \in [1 .. n -> S] : IsInjective(g)
  BY <1>1 DEF ExistsBijection, Bijection, Injection
<1>3. f \in [1 .. n -> S] /\ IsInjective(f)
  BY <1>2 DEF SetToSeq
<1> HIDE DEF f
<1>4. f \in Injection(1 .. n, S)
  BY <1>3 DEF Injection
<1>5. Cardinality(1 .. n) = n
  BY <1>1, FS_Interval
<1>6. f \in Surjection(1 .. n, S)
  BY <1>4, <1>5, FS_Injection
<1>7. f \in Seq(S) /\ Len(f) = n
  BY <1>1, <1>3
<1>8. \A x \in S : \E k \in 1 .. n : f[k] = x
  BY <1>6 DEF Surjection
<1> QED BY <1>7, <1>8 DEF f

\* The calls of a row are of its stream, and numbered.
LEMMA CallsAreFinite ==
  ASSUME NEW r \in Rows
  PROVE  IsFiniteSet(CallsOf(r)) /\ \A c \in CallsOf(r) : c = <<r.stream, c[2]>> /\ c[2] \in 1 .. r.calls
<1> DEFINE f == [c \in CallsOf(r) |-> c[2]]
<1>1. r.calls \in Nat
  BY BoundsAreNat DEF Rows
<1>2. \A c \in CallsOf(r) : c = <<r.stream, c[2]>> /\ c[2] \in 1 .. r.calls
  BY DEF CallsOf
<1>3. f \in Injection(CallsOf(r), 1 .. r.calls)
  BY <1>2 DEF Injection, IsInjective
<1>4. IsFiniteSet(1 .. r.calls)
  BY <1>1, FS_Interval
<1> QED BY <1>2, <1>3, <1>4, FS_Injection

\* What history_messages makes of one row.
Block(b, r, answered) ==
    /\ b \in Seq(Msgs)
    /\ \A k \in 1 .. Len(b) : b[k].calls # {} =>
          k = 1 /\ r.role = "assistant" /\ r.calls > 0 /\ b[k].calls = CallsOf(r)
    /\ \A k \in 1 .. Len(b) : b[k].role = "tool" =>
          \/ r.role = "tool" /\ b[k].call = <<r.stream, r.call>>
          \/ k > 1 /\ r.role = "assistant" /\ r.calls > 0 /\ b[k].call \in CallsOf(r)
    /\ r.role = "assistant" /\ r.calls > 0 =>
          /\ Len(b) > 0 /\ b[1].calls = CallsOf(r)
          /\ \A k \in 2 .. Len(b) : b[k].role = "tool"
          /\ \A c \in CallsOf(r) \ answered : \E k \in 2 .. Len(b) : b[k].call = c
    /\ r.role = "tool" =>
          Len(b) = 1 /\ b[1].role = "tool" /\ b[1].call = <<r.stream, r.call>>

\* A block of one message.
LEMMA OneMessage ==
  ASSUME NEW x \in Msgs
  PROVE  <<x>> \in Seq(Msgs) /\ Len(<<x>>) = 1 /\ <<x>>[1] = x
  OBVIOUS

\* MessagesOf makes such a block of every row.
LEMMA RowBecomesBlock ==
  ASSUME NEW r \in Rows, NEW answered
  PROVE  Block(MessagesOf(r, answered), r, answered)
<1> DEFINE b == MessagesOf(r, answered)
<1>1. CASE r.role = "assistant" /\ r.calls > 0
  <2> DEFINE head == Message("assistant", CallsOf(r), <<>>)
             open == {Message("tool", {}, c) : c \in CallsOf(r) \ answered}
             tail == SetToSeq(open)
  <2>1. b = <<head>> \o tail
    BY <1>1 DEF MessagesOf
  <2>2. r.stream \in Streams \cup {NoStream} /\ r.calls \in 0 .. MaxCalls /\ MaxCalls \in Nat
    BY BoundsAreNat DEF Rows
  <2>3. CallsOf(r) \subseteq Calls \cup ({NoStream} \X (1 .. MaxCalls))
    BY <2>2 DEF CallsOf, Calls
  <2>4. \A c \in CallsOf(r) : c \in (Streams \cup {NoStream}) \X (0 .. MaxCalls)
    BY <2>2 DEF CallsOf
  <2>5. head \in Msgs /\ open \subseteq Msgs
    BY <2>3, <2>4 DEF Message, Msgs
  <2>6. IsFiniteSet(open)
    <3> DEFINE f == [x \in open |-> x.call]
    <3>1. f \in Injection(open, CallsOf(r))
      BY DEF Injection, IsInjective, Message
    <3> QED BY <3>1, CallsAreFinite, FS_Injection
  <2> HIDE DEF head, open
  <2>7. tail \in Seq(open) /\ \A x \in open : \E k \in 1 .. Len(tail) : tail[k] = x
    BY <2>6, SetInARow
  <2> HIDE DEF tail
  <2>8. tail \in Seq(Msgs) /\ <<head>> \in Seq(Msgs) /\ Len(<<head>>) = 1 /\ <<head>>[1] = head
    BY <2>5, <2>7, SeqMonotonic, OneMessage
  <2>9. /\ b \in Seq(Msgs) /\ Len(b) = 1 + Len(tail) /\ b[1] = head
        /\ \A k \in 1 .. Len(tail) : b[1 + k] = tail[k]
    <3> DEFINE first == <<head>>
    <3>1. first \in Seq(Msgs) /\ Len(first) = 1 /\ first[1] = head
      BY <2>8
    <3> HIDE DEF first
    <3> QED BY <2>1, <2>8, <3>1, Joined DEF first
  <2> HIDE DEF b
  <2>10. Len(tail) \in Nat /\ \A k \in 1 .. Len(tail) : tail[k] \in open
    BY <2>7, LenProperties
  <2>11. \A k \in 2 .. Len(b) : \E c \in CallsOf(r) \ answered : b[k] = Message("tool", {}, c)
    <3> TAKE k \in 2 .. Len(b)
    <3>1. k - 1 \in 1 .. Len(tail) /\ 1 + (k - 1) = k
      BY <2>9, <2>10
    <3>2. b[k] \in open
      BY <2>9, <2>10, <3>1
    <3> QED BY <3>2 DEF open
  <2>12. ASSUME NEW c \in CallsOf(r) \ answered PROVE \E k \in 2 .. Len(b) : b[k].call = c
    <3>1. PICK k \in 1 .. Len(tail) : tail[k] = Message("tool", {}, c)
      BY <2>7 DEF open
    <3>2. 1 + k \in 2 .. Len(b) /\ b[1 + k] = Message("tool", {}, c)
      BY <2>9, <2>10, <3>1
    <3> QED BY <3>2 DEF Message
  <2>13. b[1].role = "assistant" /\ b[1].calls = CallsOf(r)
    BY <2>9 DEF head, Message
  <2>14. \A k \in 2 .. Len(b) : b[k].role = "tool" /\ b[k].calls = {} /\ b[k].call \in CallsOf(r)
    <3> TAKE k \in 2 .. Len(b)
    <3>1. PICK c \in CallsOf(r) : b[k] = Message("tool", {}, c)
      BY <2>11
    <3> QED BY <3>1 DEF Message
  <2>15. \A k \in 1 .. Len(b) : k = 1 \/ (k \in 2 .. Len(b) /\ k > 1)
    OBVIOUS
  <2>16. Len(b) > 0
    BY <2>9, <2>10
  <2> QED BY <1>1, <2>9, <2>12, <2>13, <2>14, <2>15, <2>16 DEF Block, b
<1>2. CASE r.role = "assistant" /\ ~(r.calls > 0)
  <2>1. r.calls = 0
    BY <1>2, BoundsAreNat DEF Rows
  <2> DEFINE x == Message("assistant", {}, <<>>)
  <2>2. b = IF r.text THEN <<x>> ELSE <<>>
    BY <1>2, <2>1 DEF MessagesOf
  <2>3. x \in Msgs /\ x.role # "tool" /\ x.calls = {}
    BY DEF Msgs, Message
  <2> HIDE DEF x, b
  <2>4. b \in Seq(Msgs) /\ \A k \in 1 .. Len(b) : b[k] = x
    BY <2>2, <2>3, OneMessage
  <2> QED BY <1>2, <2>3, <2>4 DEF Block, b
<1>3. CASE r.role = "tool"
  <2> DEFINE x == Message("tool", {}, <<r.stream, r.call>>)
  <2>1. b = <<x>>
    BY <1>3 DEF MessagesOf
  <2>2. x \in Msgs /\ x.role = "tool" /\ x.calls = {} /\ x.call = <<r.stream, r.call>>
    BY DEF Msgs, Message, Rows
  <2> HIDE DEF x, b
  <2>3. b \in Seq(Msgs) /\ Len(b) = 1 /\ b[1] = x
    BY <2>1, <2>2, OneMessage
  <2> QED BY <1>3, <2>2, <2>3 DEF Block, b
<1>4. CASE r.role = "user"
  <2> DEFINE x == Message("user", {}, <<>>)
  <2>1. b = <<x>>
    BY <1>4 DEF MessagesOf
  <2>2. x \in Msgs /\ x.role = "user" /\ x.calls = {}
    BY DEF Msgs, Message
  <2> HIDE DEF x, b
  <2>3. b \in Seq(Msgs) /\ Len(b) = 1 /\ b[1] = x
    BY <2>1, <2>2, OneMessage
  <2> QED BY <1>4, <2>2, <2>3 DEF Block, b
<1> QED BY <1>1, <1>2, <1>3, <1>4 DEF Rows

-----------------------------------------------------------------------------
\* Rows as history_messages needs them.
Headed(w) == Len(w) > 0 => w[1].role # "tool"
Follows(w) ==
    \A i \in 2 .. Len(w) : w[i].role = "tool" =>
        w[i - 1].role \in {"assistant", "tool"} /\ w[i - 1].stream = w[i].stream
Single(w) ==
    \A i, j \in 1 .. Len(w) :
        w[i].role = "assistant" /\ w[j].role = "assistant" /\ w[i].stream = w[j].stream => i = j
Settled(w) ==
    \A i, j \in 1 .. Len(w) :
        w[i].role = "tool" /\ w[j].role = "assistant" /\ w[i].stream = w[j].stream =>
            w[i].call \in 1 .. w[j].calls

\* Between a result and the row of its stream there are results only.
LEMMA ResultsFollowTheirRow ==
  ASSUME NEW w \in Seq(Rows), Headed(w), Follows(w), NEW t \in 1 .. Len(w), w[t].role = "tool"
  PROVE  \E a \in 1 .. t - 1 :
            /\ w[a].role = "assistant" /\ w[a].stream = w[t].stream
            /\ \A i \in a + 1 .. t : w[i].role = "tool"
<1> DEFINE T == {d \in 0 .. t - 1 : w[t - d].role # "tool"}
<1>1. Len(w) \in Nat /\ w[1].role # "tool"
  BY LenProperties DEF Headed
<1>2. t - 1 \in T /\ T \in SUBSET Nat
  BY <1>1
<1>3. PICK d \in T : \A e \in T : d <= e
  BY <1>2, LeastNumber
<1>4. \A e \in 0 .. d - 1 : w[t - e].role = "tool"
  BY <1>3
<1>5. d \in 1 .. t - 1
  BY <1>3
<1> DEFINE Same == {e \in 1 .. d : w[t - e].stream = w[t].stream /\ w[t - e].role \in {"assistant", "tool"}}
<1>6. ASSUME NEW e \in 0 .. d - 1
      PROVE  w[t - (e + 1)].stream = w[t - e].stream /\ w[t - (e + 1)].role \in {"assistant", "tool"}
  <2>1. t - e \in 2 .. Len(w) /\ (t - e) - 1 = t - (e + 1)
    BY <1>1, <1>5
  <2> QED BY <1>4, <2>1 DEF Follows
<1>7. 1 \in Same
  BY <1>5, <1>6
<1>8. ASSUME NEW e \in 1 .. d - 1, e \in Same PROVE e + 1 \in Same
  BY <1>6, <1>8
<1> HIDE DEF Same
<1>9. 1 .. d \subseteq Same
  BY <1>5, <1>7, <1>8, StepByStep
<1>10. w[t - d].stream = w[t].stream /\ w[t - d].role = "assistant"
  BY <1>3, <1>5, <1>9 DEF Same
<1>11. ASSUME NEW i \in (t - d) + 1 .. t PROVE w[i].role = "tool"
  <2>1. t - i \in 0 .. d - 1 /\ t - (t - i) = i
    BY <1>5
  <2> QED BY <1>4, <2>1
<1>12. t - d \in 1 .. t - 1
  BY <1>5
<1> QED BY <1>10, <1>11, <1>12

\* The messages of rows in such an order are as the model service wants them.
LEMMA RowsMakeAWellFormedRequest ==
  ASSUME NEW w \in Seq(Rows), Headed(w), Follows(w), Single(w), Settled(w)
  PROVE  WellFormed(HistoryMessages(w))
<1> DEFINE n == Len(w)
           answered == Answered(w)
           B == [i \in DOMAIN w |-> MessagesOf(w[i], answered)]
           m == HistoryMessages(w)
<1>1. n \in Nat /\ DOMAIN w = 1 .. n /\ \A i \in 1 .. n : w[i] \in Rows
  BY LenProperties
<1>2. CASE n = 0
  <2>1. B = <<>>
    BY <1>1, <1>2
  <2>2. m = <<>>
    BY <2>1 DEF FlattenSeq, HistoryMessages
  <2> HIDE DEF m
  <2>3. DOMAIN m = {}
    BY <2>2
  <2>4. WellFormed(m)
    BY <2>3 DEF WellFormed
  <2> QED BY <2>4 DEF m
<1>3. CASE n # 0
  <2>1. n \in Nat \ {0}
    BY <1>1, <1>3
  <2>2. \A i \in 1 .. n : Block(B[i], w[i], answered)
    BY <1>1, RowBecomesBlock
  <2>3. B \in [1 .. n -> Seq(Msgs)] /\ Len(B) = n
    <3>1. B = [i \in 1 .. n |-> B[i]] /\ \A i \in 1 .. n : B[i] \in Seq(Msgs)
      BY <1>1, <2>2 DEF Block
    <3> HIDE DEF B, n
    <3>2. B \in [1 .. n -> Seq(Msgs)]
      BY <3>1
    <3>3. Len(B) = n
      BY <2>1, <3>1, <3>2
    <3> QED BY <3>2, <3>3
  <2>4. m = FlattenSeq(B)
    BY DEF HistoryMessages
  <2> HIDE DEF B, m, n, answered
  <2>5. PICK o : Offsets(o, B, n) /\ Laid(m, o, B, n) /\ m \in Seq(Msgs)
    BY <2>1, <2>3, <2>4, Flattened
  <2>6. \A b \in 0 .. n : o[b] \in Nat
    BY <2>5 DEF Offsets
  <2>7. \A b \in 1 .. n : Len(B[b]) \in Nat /\ o[b] = o[b - 1] + Len(B[b])
    BY <2>3, <2>5, LenProperties DEF Offsets
  <2>8. \A a, b \in 0 .. n : a <= b => o[a] <= o[b]
    BY <2>3, <2>5, <2>1, OffsetsGrow
  <2>9. Len(m) = o[n] /\ DOMAIN m = 1 .. o[n] /\ o[n] \in Nat
    BY <2>1, <2>5, <2>6, LenProperties DEF Laid
  \* A place is a row and a place in its block.
  <2>10. ASSUME NEW p \in 1 .. o[n]
         PROVE  \E b \in 1 .. n : \E k \in 1 .. Len(B[b]) : p = o[b - 1] + k /\ m[p] = B[b][k]
    <3>1. PICK b \in 1 .. n : o[b - 1] < p /\ p <= o[b]
      BY <2>1, <2>3, <2>5, BlockOfPlace
    <3>2. b - 1 \in 0 .. n /\ b \in 0 .. n
      BY <2>1
    <3>3. o[b - 1] \in Nat /\ o[b] \in Nat
      BY <2>6, <3>2
    <3>4. p - o[b - 1] \in 1 .. Len(B[b]) /\ p = o[b - 1] + (p - o[b - 1])
      BY <2>7, <3>1, <3>3
    <3>5. m[o[b - 1] + (p - o[b - 1])] = B[b][p - o[b - 1]]
      BY <2>5, <3>4 DEF Laid
    <3> QED BY <3>4, <3>5
  <2>11. ASSUME NEW b \in 1 .. n, NEW k \in 1 .. Len(B[b])
         PROVE  o[b - 1] + k \in 1 .. o[b] /\ o[b - 1] + k \in 1 .. o[n] /\ m[o[b - 1] + k] = B[b][k]
    <3>1. b - 1 \in 0 .. n /\ b \in 0 .. n /\ n \in 0 .. n
      BY <2>1
    <3>2. o[b - 1] \in Nat /\ o[b] \in Nat /\ o[b] <= o[n] /\ o[n] \in Nat
      BY <2>6, <2>8, <3>1
    <3>3. o[b] = o[b - 1] + Len(B[b]) /\ Len(B[b]) \in Nat
      BY <2>7
    <3>4. m[o[b - 1] + k] = B[b][k]
      BY <2>5 DEF Laid
    <3> QED BY <3>2, <3>3, <3>4
  \* From a row with calls to the last of its results there are answers only.
  <2>12. ASSUME NEW a \in 1 .. n, NEW t \in a .. n, w[a].role = "assistant", w[a].calls > 0,
                \A i \in a + 1 .. t : w[i].role = "tool",
                NEW p \in Nat, o[a - 1] + 1 < p, p <= o[t]
         PROVE  p \in 1 .. o[n] /\ m[p].role = "tool"
    <3>1. a \in 0 .. n /\ a - 1 \in 0 .. n /\ t \in 0 .. n /\ n \in 0 .. n /\ t \in 1 .. n
      BY <2>1
    <3>2. o[a - 1] \in Nat /\ o[t] \in Nat /\ o[t] <= o[n] /\ o[n] \in Nat
      BY <2>6, <2>8, <3>1
    <3>3. p \in 1 .. o[n]
      BY <2>12, <3>2
    <3>4. PICK b \in 1 .. n : \E k \in 1 .. Len(B[b]) : p = o[b - 1] + k /\ m[p] = B[b][k]
      BY <2>10, <3>3
    <3>5. PICK k \in 1 .. Len(B[b]) : p = o[b - 1] + k /\ m[p] = B[b][k]
      BY <3>4
    <3>6. b \in 0 .. n /\ b - 1 \in 0 .. n
      BY <2>1
    <3>7. o[b - 1] \in Nat /\ o[b] \in Nat /\ p <= o[b] /\ o[b - 1] < p
      BY <2>6, <2>11, <3>5, <3>6
    <3>8. a <= b
      <4> SUFFICES ASSUME b <= a - 1 PROVE FALSE
        BY <2>1, <3>1
      <4>1. o[b] <= o[a - 1]
        BY <2>8, <3>1, <3>6
      <4> QED BY <2>12, <3>2, <3>7, <4>1
    <3>9. b <= t
      <4> SUFFICES ASSUME t <= b - 1 PROVE FALSE
        BY <2>1, <3>1
      <4>1. o[t] <= o[b - 1]
        BY <2>8, <3>1, <3>6
      <4> QED BY <2>12, <3>2, <3>7, <4>1
    <3>10. CASE b = a
      <4>1. k \in 2 .. Len(B[a])
        BY <2>12, <3>2, <3>5, <3>10
      <4> QED BY <2>2, <2>12, <3>3, <3>5, <3>10, <4>1 DEF Block
    <3>11. CASE b # a
      <4>1. b \in a + 1 .. t
        BY <2>1, <3>8, <3>9, <3>11
      <4>2. w[b].role = "tool"
        BY <2>12, <4>1
      <4>3. Len(B[b]) = 1 /\ B[b][1].role = "tool"
        BY <2>2, <4>2 DEF Block
      <4>4. k = 1
        BY <4>3
      <4> QED BY <3>3, <3>5, <4>3, <4>4
    <3> QED BY <3>10, <3>11
  \* The first message of a row with calls.
  <2>13. ASSUME NEW a \in 1 .. n, w[a].role = "assistant", w[a].calls > 0
         PROVE  /\ o[a - 1] + 1 \in 1 .. o[n] /\ m[o[a - 1] + 1].calls = CallsOf(w[a])
    <3>1. Len(B[a]) > 0 /\ B[a][1].calls = CallsOf(w[a])
      BY <2>2, <2>13 DEF Block
    <3>2. 1 \in 1 .. Len(B[a])
      BY <2>7, <3>1
    <3> QED BY <2>11, <3>1, <3>2
  <2>14. ASSUME NEW p \in 1 .. o[n], NEW c \in m[p].calls PROVE c \in AnswersAfter(m, p)
    <3> SUFFICES ASSUME TRUE
                 PROVE  \E q \in p + 1 .. Len(m) : m[q].call = c /\ \A x \in p + 1 .. q : m[x].role = "tool"
      BY DEF AnswersAfter
    <3>1. PICK b \in 1 .. n : \E k \in 1 .. Len(B[b]) : p = o[b - 1] + k /\ m[p] = B[b][k]
      BY <2>10
    <3>2. PICK k \in 1 .. Len(B[b]) : p = o[b - 1] + k /\ m[p] = B[b][k]
      BY <3>1
    <3>3. k = 1 /\ w[b].role = "assistant" /\ w[b].calls > 0 /\ c \in CallsOf(w[b])
      BY <2>2, <2>14, <3>2 DEF Block
    <3>4. b \in 0 .. n /\ b - 1 \in 0 .. n /\ o[b - 1] \in Nat /\ o[b] \in Nat /\ p = o[b - 1] + 1
      BY <2>1, <2>6, <3>2, <3>3
    <3>5. CASE c \notin answered
      <4>1. PICK l \in 2 .. Len(B[b]) : B[b][l].call = c
        BY <2>2, <3>3, <3>5 DEF Block
      <4> DEFINE q == o[b - 1] + l
      <4>2. l \in 1 .. Len(B[b])
        OBVIOUS
      <4>3. q \in 1 .. o[b] /\ q \in 1 .. o[n] /\ m[q].call = c
        BY <2>11, <4>1, <4>2
      <4>4. q \in p + 1 .. Len(m)
        BY <2>9, <3>4, <4>3
      <4>5. ASSUME NEW x \in p + 1 .. q PROVE m[x].role = "tool"
        <5> HIDE DEF q
        <5>1. p \in Nat /\ q \in Nat /\ q <= o[b]
          BY <3>4, <4>3
        <5>2. x \in Nat /\ p < x /\ x <= q
          BY <5>1
        <5>3. x \in Nat /\ o[b - 1] + 1 < x /\ x <= o[b]
          BY <3>4, <5>1, <5>2
        <5>4. b \in b .. n /\ \A i \in b + 1 .. b : w[i].role = "tool"
          BY <2>1
        <5> QED BY <2>12, <3>3, <5>3, <5>4
      <4> QED BY <4>3, <4>4, <4>5
    <3>6. CASE c \in answered
      <4>1. PICK t \in 1 .. n : w[t].role = "tool" /\ c = <<w[t].stream, w[t].call>>
        BY <1>1, <3>6 DEF Answered, answered
      <4>2. PICK a \in 1 .. t - 1 : /\ w[a].role = "assistant" /\ w[a].stream = w[t].stream
                                    /\ \A i \in a + 1 .. t : w[i].role = "tool"
        BY <4>1, ResultsFollowTheirRow DEF n
      <4>3. w[b].stream = w[t].stream
        BY <1>1, <3>3, <4>1, CallsAreFinite
      <4>4. a = b
        <5>1. a \in 1 .. n
          BY <2>1
        <5> QED BY <3>3, <4>2, <4>3, <5>1 DEF Single, n
      <4>5. Len(B[t]) = 1 /\ B[t][1].call = c
        BY <2>2, <4>1 DEF Block
      <4> DEFINE q == o[t - 1] + 1
      <4>6. 1 \in 1 .. Len(B[t])
        BY <4>5
      <4>7. q \in 1 .. o[t] /\ q \in 1 .. o[n] /\ m[q].call = c
        BY <2>11, <4>5, <4>6
      <4>8. o[b] <= o[t - 1] /\ o[t - 1] \in Nat /\ o[b - 1] + 1 <= o[b] /\ o[t] \in Nat
        <5>1. t - 1 \in 0 .. n /\ t \in 0 .. n /\ b <= t - 1
          BY <2>1, <4>2, <4>4
        <5>2. k <= Len(B[b]) /\ o[b] = o[b - 1] + Len(B[b]) /\ Len(B[b]) \in Nat
          BY <2>7
        <5> QED BY <2>6, <2>8, <3>3, <3>4, <5>1, <5>2
      <4>9. q \in p + 1 .. Len(m)
        BY <2>9, <3>4, <4>7, <4>8
      <4>10. ASSUME NEW x \in p + 1 .. q PROVE m[x].role = "tool"
        <5>1. x \in Nat /\ o[b - 1] + 1 < x /\ x <= o[t]
          <6>1. q <= o[t] /\ p = o[b - 1] + 1 /\ o[b - 1] \in Nat
            BY <3>4, <4>7
          <6>2. p + 1 <= x /\ x <= q /\ x \in Int /\ q \in Int
            BY <4>8
          <6>3. o[t] \in Nat
            BY <4>8
          <6> HIDE DEF q
          <6>4. o[b - 1] + 1 < x
            BY <6>1, <6>2
          <6>5. x <= o[t]
            BY <6>1, <6>2, <6>3
          <6>6. x \in Nat
            BY <6>1, <6>2, <6>4
          <6> QED BY <6>4, <6>5, <6>6
        <5>2. t \in b .. n /\ \A i \in b + 1 .. t : w[i].role = "tool"
          BY <2>1, <4>2, <4>4
        <5> QED BY <2>12, <3>3, <5>1, <5>2
      <4> QED BY <4>7, <4>9, <4>10
    <3> QED BY <3>5, <3>6
  <2>15. ASSUME NEW p \in 1 .. o[n], m[p].role = "tool"
         PROVE  \E q \in 1 .. p - 1 : /\ m[p].call \in m[q].calls
                                       /\ \A x \in q + 1 .. p : m[x].role = "tool"
    <3>1. PICK b \in 1 .. n : \E k \in 1 .. Len(B[b]) : p = o[b - 1] + k /\ m[p] = B[b][k]
      BY <2>10
    <3>2. PICK k \in 1 .. Len(B[b]) : p = o[b - 1] + k /\ m[p] = B[b][k]
      BY <3>1
    <3>3. p <= o[b]
      BY <2>11, <3>2
    <3>4. PICK a \in 1 .. b : /\ w[a].role = "assistant" /\ w[a].calls > 0
                              /\ m[p].call \in CallsOf(w[a])
                              /\ \A i \in a + 1 .. b : w[i].role = "tool"
                              /\ a = b => k > 1
      <4>1. CASE w[b].role = "tool" /\ m[p].call = <<w[b].stream, w[b].call>>
        <5>1. PICK a \in 1 .. b - 1 : /\ w[a].role = "assistant" /\ w[a].stream = w[b].stream
                                      /\ \A i \in a + 1 .. b : w[i].role = "tool"
          BY <4>1, ResultsFollowTheirRow DEF n
        <5>2. a \in 1 .. n
          BY <2>1
        <5>3. w[b].call \in 1 .. w[a].calls
          BY <4>1, <5>1, <5>2 DEF Settled, n
        <5>4. w[a].calls \in Nat
          BY <1>1, <5>2, BoundsAreNat DEF Rows
        <5>5. w[a].calls > 0
          BY <5>3, <5>4
        <5>6. m[p].call \in CallsOf(w[a])
          BY <4>1, <5>1, <5>3 DEF CallsOf
        <5>7. a \in 1 .. b /\ a # b
          OBVIOUS
        <5> QED BY <5>1, <5>5, <5>6, <5>7
      <4>2. CASE k > 1 /\ w[b].role = "assistant" /\ w[b].calls > 0 /\ B[b][k].call \in CallsOf(w[b])
        <5>1. b \in 1 .. b /\ \A i \in b + 1 .. b : w[i].role = "tool"
          BY <2>1
        <5> QED BY <3>2, <4>2, <5>1
      <4> QED BY <2>2, <2>15, <3>2, <4>1, <4>2 DEF Block
    <3> DEFINE q == o[a - 1] + 1
    <3>5. a \in 1 .. n /\ b \in a .. n /\ a - 1 \in 0 .. n /\ b - 1 \in 0 .. n /\ a \in 0 .. n
      BY <2>1
    <3>6. o[a - 1] \in Nat /\ o[b - 1] \in Nat /\ o[a] \in Nat
      BY <2>6, <3>5
    <3>7. q \in 1 .. o[n] /\ m[q].calls = CallsOf(w[a])
      BY <2>13, <3>4, <3>5
    <3>8. q < p
      <4>1. CASE a = b
        BY <3>2, <3>4, <3>6, <4>1
      <4>2. CASE a # b
        <5>1. a <= b - 1
          BY <3>5, <4>2
        <5>2. o[a] <= o[b - 1]
          BY <2>8, <3>5, <5>1
        <5>3. Len(B[a]) > 0 /\ Len(B[a]) \in Nat /\ o[a] = o[a - 1] + Len(B[a])
          BY <2>2, <2>7, <3>4, <3>5 DEF Block
        <5>4. p = o[b - 1] + k /\ k \in Nat /\ 1 <= k
          BY <3>2
        <5>5. o[a - 1] + 1 <= o[a]
          BY <3>6, <5>3
        <5> QED BY <3>6, <5>2, <5>4, <5>5
      <4> QED BY <4>1, <4>2
    <3>9. ASSUME NEW x \in q + 1 .. p PROVE m[x].role = "tool"
      <4>1. x \in Nat /\ o[a - 1] + 1 < x /\ x <= o[b]
        <5>1. b \in 0 .. n
          BY <2>1
        <5> QED BY <2>6, <3>3, <3>6, <5>1
      <4> QED BY <2>12, <3>4, <3>5, <4>1
    <3>10. q \in 1 .. p - 1
      BY <3>6, <3>8
    <3> QED BY <3>4, <3>7, <3>9, <3>10
  <2> QED BY <2>9, <2>14, <2>15 DEF WellFormed, m
<1> QED BY <1>2, <1>3

-----------------------------------------------------------------------------
(* The order of the rows.                                                  *)
(*                                                                         *)
(* A third invariant, of the conversations that only one chat at a time    *)
(* has written and that no cut has torn: results follow the row of their   *)
(* stream, and the row will know of them (Ordered).                        *)

\* A stream is at work in conversation c, or may still write there.
In(r, c) == r.conv = c /\ r.pc \in Held
WritesIn(r, c) == r.conv = c /\ r.pc \in Writing

\* A result is one of those its stream has had so far, or of the calls stored with
\* the answer.
Foreseen(w, c, st) ==
    \A i \in 1 .. Len(w) : w[i].role = "tool" =>
        IF WritesIn(st[w[i].stream], c)
        THEN w[i].call \in 1 .. st[w[i].stream].handled
        ELSE \A j \in 1 .. Len(w) :
                w[j].role = "assistant" /\ w[j].stream = w[i].stream => w[i].call \in 1 .. w[j].calls

\* The last row is of the stream that writes.
InHand(w, c, st) ==
    \A s \in Streams : WritesIn(st[s], c) =>
        /\ Len(w) > 0 /\ w[Len(w)].role \in {"assistant", "tool"} /\ w[Len(w)].stream = s

\* A stream that has not begun has no row.
Begun(w, st) ==
    \A i \in 1 .. Len(w) : w[i].role # "user" =>
        w[i].stream \in Streams /\ st[w[i].stream].pc \notin {"none", "preparing"}

Alone(c, st) == \A p, q \in Streams : In(st[p], c) /\ In(st[q], c) => p = q

Ordered(w, c, st) ==
    Follows(w) /\ Single(w) /\ Foreseen(w, c, st) /\ InHand(w, c, st) /\ Begun(w, st)
    /\ Alone(c, st)

OInv == \A c \in alive \ torn : Ordered(history[c], c, stream)

-----------------------------------------------------------------------------
(* What happens to a stream, and to a row, in an orderly conversation.     *)

\* The stream is at work as before, and writes what it wrote.
Alike(q, r, c) ==
    /\ r.pc \in {"none", "preparing"} => q.pc \in {"none", "preparing"}
    /\ In(r, c) => In(q, c)
    /\ WritesIn(r, c) <=> WritesIn(q, c)
    /\ WritesIn(q, c) => r.handled = q.handled

\* Then a conversation in order stays so.
LEMMA OrderStays ==
  ASSUME NEW c, NEW w, NEW st, NEW new, Ordered(w, c, st),
         \A s \in Streams : Alike(st[s], new[s], c)
  PROVE  Ordered(w, c, new)
<1>1. Foreseen(w, c, new)
  <2> SUFFICES ASSUME NEW i \in 1 .. Len(w), w[i].role = "tool"
               PROVE  IF WritesIn(new[w[i].stream], c)
                      THEN w[i].call \in 1 .. new[w[i].stream].handled
                      ELSE \A j \in 1 .. Len(w) :
                              w[j].role = "assistant" /\ w[j].stream = w[i].stream
                                  => w[i].call \in 1 .. w[j].calls
    BY DEF Foreseen
  <2>1. w[i].stream \in Streams
    BY DEF Ordered, Begun
  <2>2. Alike(st[w[i].stream], new[w[i].stream], c)
    BY <2>1
  <2> QED BY <2>2 DEF Ordered, Foreseen, Alike
<1>2. InHand(w, c, new)
  BY DEF Ordered, InHand, Alike
<1>3. Begun(w, new)
  <2> SUFFICES ASSUME NEW i \in 1 .. Len(w), w[i].role # "user"
               PROVE  w[i].stream \in Streams /\ new[w[i].stream].pc \notin {"none", "preparing"}
    BY DEF Begun
  <2>1. w[i].stream \in Streams /\ st[w[i].stream].pc \notin {"none", "preparing"}
    BY DEF Ordered, Begun
  <2> QED BY <2>1 DEF Alike
<1>4. Alone(c, new)
  BY DEF Ordered, Alone, Alike
<1> QED BY <1>1, <1>2, <1>3, <1>4 DEF Ordered

\* A stream comes to a conversation where none is at work.
LEMMA StreamComes ==
  ASSUME NEW c, NEW w, NEW st, NEW new, Ordered(w, c, st), NEW s \in Streams,
         \A p \in Streams : ~In(st[p], c),
         st[s].pc = "none", new[s].pc \notin Writing,
         \A p \in Streams \ {s} : new[p] = st[p]
  PROVE  Ordered(w, c, new)
<1>1. \A p \in Streams : ~WritesIn(st[p], c)
  BY DEF In, WritesIn, Writing, Held
<1>2. \A p \in Streams : ~WritesIn(new[p], c)
  <2> SUFFICES ASSUME NEW p \in Streams PROVE ~WritesIn(new[p], c)
    OBVIOUS
  <2>1. CASE p = s
    BY <2>1 DEF WritesIn
  <2>2. CASE p # s
    BY <1>1, <2>2
  <2> QED BY <2>1, <2>2
<1>3. Foreseen(w, c, new)
  <2> SUFFICES ASSUME NEW i \in 1 .. Len(w), NEW j \in 1 .. Len(w), w[i].role = "tool",
                      w[j].role = "assistant", w[j].stream = w[i].stream
               PROVE  w[i].call \in 1 .. w[j].calls
    <3>1. \A i \in 1 .. Len(w) : w[i].role = "tool" => ~WritesIn(new[w[i].stream], c)
      BY <1>2 DEF Ordered, Begun
    <3> QED BY <3>1 DEF Foreseen
  <2>1. w[i].stream \in Streams
    BY DEF Ordered, Begun
  <2> QED BY <1>1, <2>1 DEF Ordered, Foreseen
<1>4. InHand(w, c, new)
  BY <1>2 DEF InHand
<1>5. Begun(w, new)
  <2> SUFFICES ASSUME NEW i \in 1 .. Len(w), w[i].role # "user"
               PROVE  w[i].stream \in Streams /\ new[w[i].stream].pc \notin {"none", "preparing"}
    BY DEF Begun
  <2>1. w[i].stream \in Streams /\ st[w[i].stream].pc \notin {"none", "preparing"}
    BY DEF Ordered, Begun
  <2>2. w[i].stream # s
    BY <2>1
  <2> QED BY <2>1, <2>2
<1>6. Alone(c, new)
  <2>1. \A p \in Streams : In(new[p], c) => p = s
    OBVIOUS
  <2> QED BY <2>1 DEF Alone
<1> QED BY <1>3, <1>4, <1>5, <1>6 DEF Ordered

\* What a row more is to the rows there are.
LEMMA OneMore ==
  ASSUME NEW w \in Seq(Rows), NEW row \in Rows, NEW v, v = Append(w, row)
  PROVE  /\ Len(w) \in Nat /\ Len(v) = Len(w) + 1
         /\ v[Len(w) + 1] = row
         /\ \A i \in 1 .. Len(w) : v[i] = w[i]
         /\ \A i \in 1 .. Len(v) : i \in 1 .. Len(w) \/ i = Len(w) + 1
<1>1. Len(w) \in Nat
  BY LenProperties
<1>2. Len(v) = Len(w) + 1 /\ v[Len(w) + 1] = row /\ \A i \in 1 .. Len(w) : v[i] = w[i]
  BY AppendProperties
<1> QED BY <1>1, <1>2

\* The message of a user, as long as no stream writes.
LEMMA UserRowKeepsOrder ==
  ASSUME NEW c, NEW w \in Seq(Rows), NEW st, Ordered(w, c, st),
         \A p \in Streams : ~WritesIn(st[p], c), NEW v, v = Append(w, UserRow)
  PROVE  Ordered(v, c, st)
<1> DEFINE n == Len(w)
<1>1. UserRow \in Rows /\ UserRow.role = "user"
  BY BoundsAreNat DEF UserRow, Rows, Ended
<1>2. /\ n \in Nat /\ Len(v) = n + 1 /\ v[n + 1] = UserRow
      /\ \A i \in 1 .. n : v[i] = w[i]
      /\ \A i \in 1 .. Len(v) : i \in 1 .. n \/ i = n + 1
  BY <1>1, OneMore
<1> HIDE DEF n
<1>3. Follows(v)
  <2> SUFFICES ASSUME NEW i \in 2 .. Len(v), v[i].role = "tool"
               PROVE  v[i - 1].role \in {"assistant", "tool"} /\ v[i - 1].stream = v[i].stream
    BY DEF Follows
  <2>1. i \in 2 .. n /\ i \in 1 .. n /\ i - 1 \in 1 .. n
    BY <1>1, <1>2
  <2>2. v[i] = w[i] /\ v[i - 1] = w[i - 1]
    BY <1>2, <2>1
  <2> QED BY <2>1, <2>2 DEF Ordered, Follows, n
<1>4. Single(v)
  BY <1>1, <1>2 DEF Ordered, Single, n
<1>5. Foreseen(v, c, st)
  <2>1. \A i, j \in 1 .. Len(v) : v[i].role = "tool" /\ v[j].role = "assistant" =>
          i \in 1 .. n /\ v[i] = w[i] /\ j \in 1 .. n /\ v[j] = w[j]
    BY <1>1, <1>2
  <2>2. \A i \in 1 .. Len(v) : v[i].role = "tool" => i \in 1 .. n /\ v[i] = w[i]
    BY <1>1, <1>2
  <2> QED BY <2>1, <2>2 DEF Ordered, Foreseen, n
<1>6. InHand(v, c, st)
  BY DEF InHand
<1>7. Begun(v, st)
  BY <1>1, <1>2 DEF Ordered, Begun, n
<1> QED BY <1>3, <1>4, <1>5, <1>6, <1>7 DEF Ordered

\* A stream writes a row of its own: the one of its answer, before all others, or
\* one of its results.
LEMMA OwnRowKeepsOrder ==
  ASSUME NEW c, NEW w \in Seq(Rows), NEW st, NEW new, Ordered(w, c, st), NEW s \in Streams,
         \A p \in Streams \ {s} : new[p] = st[p],
         In(st[s], c), new[s].pc \notin {"none", "preparing"}, st[s].handled \in Nat,
         NEW row \in Rows, row.stream = s,
         \/ row.role = "assistant" /\ st[s].pc = "preparing"
         \/ /\ row.role = "tool" /\ WritesIn(st[s], c) /\ WritesIn(new[s], c)
            /\ row.call = st[s].handled + 1 /\ new[s].handled = st[s].handled + 1,
         NEW v, v = Append(w, row)
  PROVE  Ordered(v, c, new)
<1> DEFINE n == Len(w)
<1>1. /\ n \in Nat /\ Len(v) = n + 1 /\ v[n + 1] = row
      /\ \A i \in 1 .. n : v[i] = w[i]
      /\ \A i \in 1 .. Len(v) : i \in 1 .. n \/ i = n + 1
  BY OneMore
<1> HIDE DEF n
<1>2. Follows(v)
  <2> SUFFICES ASSUME NEW i \in 2 .. Len(v), v[i].role = "tool"
               PROVE  v[i - 1].role \in {"assistant", "tool"} /\ v[i - 1].stream = v[i].stream
    BY DEF Follows
  <2>1. CASE i = n + 1
    <3>1. row.role = "tool" /\ WritesIn(st[s], c) /\ v[i] = row /\ i - 1 = n
      BY <1>1, <2>1
    <3>2. n > 0 /\ w[n].role \in {"assistant", "tool"} /\ w[n].stream = s
      BY <3>1 DEF Ordered, InHand, n
    <3>3. v[n] = w[n]
      BY <1>1, <3>2
    <3> QED BY <3>1, <3>2, <3>3
  <2>2. CASE i # n + 1
    <3>1. i \in 2 .. n /\ i \in 1 .. n /\ i - 1 \in 1 .. n
      BY <1>1, <2>2
    <3>2. v[i] = w[i] /\ v[i - 1] = w[i - 1]
      BY <1>1, <3>1
    <3> QED BY <3>1, <3>2 DEF Ordered, Follows, n
  <2> QED BY <2>1, <2>2
<1>3. ASSUME row.role = "assistant", NEW i \in 1 .. n, w[i].role # "user" PROVE w[i].stream # s
  BY <1>3 DEF Ordered, Begun, n, WritesIn, Writing
<1>4. Single(v)
  <2> SUFFICES ASSUME NEW i \in 1 .. Len(v), NEW j \in 1 .. Len(v), v[i].role = "assistant",
                      v[j].role = "assistant", v[i].stream = v[j].stream
               PROVE  i = j
    BY DEF Single
  <2>1. CASE i \in 1 .. n /\ j \in 1 .. n
    BY <1>1, <2>1 DEF Ordered, Single, n
  <2>2. CASE i \in 1 .. n /\ j = n + 1
    BY <1>1, <1>3, <2>2
  <2>3. CASE i = n + 1 /\ j \in 1 .. n
    BY <1>1, <1>3, <2>3
  <2> QED BY <1>1, <2>1, <2>2, <2>3
<1>5. Foreseen(v, c, new)
  <2> SUFFICES ASSUME NEW i \in 1 .. Len(v), v[i].role = "tool"
               PROVE  IF WritesIn(new[v[i].stream], c)
                      THEN v[i].call \in 1 .. new[v[i].stream].handled
                      ELSE \A j \in 1 .. Len(v) :
                              v[j].role = "assistant" /\ v[j].stream = v[i].stream
                                  => v[i].call \in 1 .. v[j].calls
    BY DEF Foreseen
  <2>1. CASE i = n + 1
    <3>1. v[i] = row /\ v[i].stream = s /\ v[i].call = new[s].handled
      BY <1>1, <2>1
    <3> QED BY <2>1, <3>1, <1>1
  <2>2. CASE i # n + 1
    <3>1. i \in 1 .. n /\ v[i] = w[i] /\ w[i].role = "tool"
      BY <1>1, <2>2
    <3>2. w[i].stream \in Streams /\ st[w[i].stream].pc \notin {"none", "preparing"}
      BY <3>1 DEF Ordered, Begun, n
    <3>3. CASE w[i].stream = s
      <4>1. WritesIn(st[s], c) /\ WritesIn(new[s], c) /\ new[s].handled = st[s].handled + 1
        BY <3>2, <3>3
      <4>2. w[i].call \in 1 .. st[s].handled
        BY <3>1, <3>3, <4>1 DEF Ordered, Foreseen, n
      <4> QED BY <3>1, <3>3, <4>1, <4>2
    <3>4. CASE w[i].stream # s
      <4>1. new[w[i].stream] = st[w[i].stream]
        BY <3>2, <3>4
      <4>2. ASSUME NEW j \in 1 .. Len(v), v[j].stream = w[i].stream
            PROVE  j \in 1 .. n /\ v[j] = w[j]
        BY <1>1, <3>4, <4>2
      <4>3. IF WritesIn(st[w[i].stream], c)
            THEN w[i].call \in 1 .. st[w[i].stream].handled
            ELSE \A j \in 1 .. n :
                    w[j].role = "assistant" /\ w[j].stream = w[i].stream => w[i].call \in 1 .. w[j].calls
        BY <3>1 DEF Ordered, Foreseen, n
      <4>4. CASE WritesIn(st[w[i].stream], c)
        BY <3>1, <4>1, <4>3, <4>4
      <4>5. CASE ~WritesIn(st[w[i].stream], c)
        <5>1. ASSUME NEW j \in 1 .. Len(v), v[j].role = "assistant", v[j].stream = v[i].stream
              PROVE  v[i].call \in 1 .. v[j].calls
          BY <3>1, <4>2, <4>3, <4>5, <5>1
        <5> QED BY <3>1, <4>1, <4>5, <5>1
      <4> QED BY <4>4, <4>5
    <3> QED BY <3>3, <3>4
  <2> QED BY <2>1, <2>2
<1>6. InHand(v, c, new)
  <2> SUFFICES ASSUME NEW p \in Streams, WritesIn(new[p], c)
               PROVE  Len(v) > 0 /\ v[Len(v)].role \in {"assistant", "tool"} /\ v[Len(v)].stream = p
    BY DEF InHand
  <2>1. p = s
    <3> SUFFICES ASSUME p # s PROVE FALSE
      OBVIOUS
    <3>1. In(st[p], c)
      BY DEF WritesIn, In, Writing, Held
    <3> QED BY <3>1 DEF Ordered, Alone
  <2> QED BY <1>1, <2>1
<1>7. Begun(v, new)
  <2> SUFFICES ASSUME NEW i \in 1 .. Len(v), v[i].role # "user"
               PROVE  v[i].stream \in Streams /\ new[v[i].stream].pc \notin {"none", "preparing"}
    BY DEF Begun
  <2>2. CASE i = n + 1
    BY <1>1, <2>2
  <2>3. CASE i # n + 1
    <3>1. i \in 1 .. n /\ v[i] = w[i]
      BY <1>1, <2>3
    <3>2. w[i].stream \in Streams /\ st[w[i].stream].pc \notin {"none", "preparing"}
      BY <3>1 DEF Ordered, Begun, n
    <3> QED BY <3>1, <3>2
  <2> QED BY <2>2, <2>3
<1>8. Alone(c, new)
  <2>1. \A p \in Streams : In(new[p], c) => In(st[p], c)
    OBVIOUS
  <2> QED BY <2>1 DEF Ordered, Alone
<1> QED BY <1>2, <1>4, <1>5, <1>6, <1>7, <1>8 DEF Ordered

\* Rows that are rewritten in place: roles, streams and results stay, and calls are
\* known at least as well.
LEMMA RewritingKeepsOrder ==
  ASSUME NEW c, NEW w, NEW v, NEW st, Ordered(w, c, st), Len(v) = Len(w),
         \A i \in 1 .. Len(w) : /\ v[i].role = w[i].role /\ v[i].stream = w[i].stream
                                /\ v[i].call = w[i].call
                                /\ w[i].role = "assistant" => v[i].calls = w[i].calls
  PROVE  Ordered(v, c, st)
<1> DEFINE n == Len(w)
<1>1. \A i \in 2 .. n : i \in 1 .. n /\ i - 1 \in 1 .. n
  <2> TAKE i \in 2 .. n
  <2> QED OBVIOUS
<1>2. Follows(v)
  BY <1>1 DEF Ordered, Follows
<1>3. Single(v)
  BY DEF Ordered, Single
<1>4. Foreseen(v, c, st)
  BY DEF Ordered, Foreseen
<1>5. InHand(v, c, st)
  <2> SUFFICES ASSUME NEW s \in Streams, WritesIn(st[s], c)
               PROVE  n > 0 /\ v[n].role \in {"assistant", "tool"} /\ v[n].stream = s
    BY DEF InHand
  <2>1. n > 0 /\ w[n].role \in {"assistant", "tool"} /\ w[n].stream = s
    BY DEF Ordered, InHand
  <2> QED BY <2>1
<1>6. Begun(v, st)
  BY DEF Ordered, Begun
<1> QED BY <1>2, <1>3, <1>4, <1>5, <1>6 DEF Ordered

\* The answer is stored: the row of the stream has all calls, and no result of the
\* stream is beyond them.
LEMMA AnswerKeepsOrder ==
  ASSUME NEW c, NEW w, NEW v, NEW st, NEW new, Ordered(w, c, st), NEW s \in Streams,
         \A p \in Streams \ {s} : new[p] = st[p],
         WritesIn(st[s], c), new[s].pc = "closing",
         st[s].handled \in Nat, st[s].made \in Nat, st[s].handled <= st[s].made,
         Len(v) = Len(w),
         \A i \in 1 .. Len(w) : /\ v[i].role = w[i].role /\ v[i].stream = w[i].stream
                                /\ v[i].call = w[i].call
                                /\ w[i].role = "assistant" =>
                                     v[i].calls = IF w[i].stream = s THEN st[s].made ELSE w[i].calls
  PROVE  Ordered(v, c, new)
<1> DEFINE n == Len(w)
<1>1. \A i \in 2 .. n : i \in 1 .. n /\ i - 1 \in 1 .. n
  OBVIOUS
<1>2. Follows(v)
  BY <1>1 DEF Ordered, Follows
<1>3. Single(v)
  BY DEF Ordered, Single
<1>4. ~WritesIn(new[s], c)
  BY DEF WritesIn, Writing
<1>5. Foreseen(v, c, new)
  <2> SUFFICES ASSUME NEW i \in 1 .. n, w[i].role = "tool"
               PROVE  IF WritesIn(new[w[i].stream], c)
                      THEN w[i].call \in 1 .. new[w[i].stream].handled
                      ELSE \A j \in 1 .. n :
                              w[j].role = "assistant" /\ w[j].stream = w[i].stream
                                  => w[i].call \in 1 .. v[j].calls
    BY DEF Foreseen
  <2>1. w[i].stream \in Streams
    BY DEF Ordered, Begun
  <2>2. CASE w[i].stream = s
    <3>1. w[i].call \in 1 .. st[s].handled
      BY <2>2 DEF Ordered, Foreseen
    <3>2. w[i].call \in 1 .. st[s].made
      BY <3>1
    <3> QED BY <1>4, <2>2, <3>2
  <2>3. CASE w[i].stream # s
    BY <2>1, <2>3 DEF Ordered, Foreseen
  <2> QED BY <2>2, <2>3
<1>6. InHand(v, c, new)
  <2> SUFFICES ASSUME NEW p \in Streams, WritesIn(new[p], c) PROVE FALSE
    BY DEF InHand
  <2>1. p # s
    BY <1>4
  <2>2. In(st[p], c) /\ In(st[s], c)
    BY <2>1 DEF WritesIn, In, Writing, Held
  <2> QED BY <2>1, <2>2 DEF Ordered, Alone
<1>7. Begun(v, new)
  <2> SUFFICES ASSUME NEW i \in 1 .. n, w[i].role # "user"
               PROVE  w[i].stream \in Streams /\ new[w[i].stream].pc \notin {"none", "preparing"}
    BY DEF Begun
  <2>1. w[i].stream \in Streams /\ st[w[i].stream].pc \notin {"none", "preparing"}
    BY DEF Ordered, Begun
  <2>2. CASE w[i].stream = s
    BY <2>2
  <2>3. CASE w[i].stream # s
    BY <2>1, <2>3
  <2> QED BY <2>1, <2>2, <2>3
<1>8. Alone(c, new)
  <2>1. \A p \in Streams : In(new[p], c) => In(st[p], c)
    BY DEF In, WritesIn, Writing, Held
  <2> QED BY <2>1 DEF Ordered, Alone
<1> QED BY <1>2, <1>3, <1>5, <1>6, <1>7, <1>8 DEF Ordered

-----------------------------------------------------------------------------
(* The steps.                                                              *)

\* One stream moves, and its moves change nothing for an orderly conversation.
LEMMA QuietMove ==
  ASSUME IInv, OInv, NEW s \in Streams, NEW r,
         stream' = [stream EXCEPT ![s] = r], history' = history, alive' = alive,
         torn \subseteq torn', \A c \in alive \ torn' : Alike(stream[s], r, c)
  PROVE  OInv'
<1> SUFFICES ASSUME NEW c \in alive \ torn' PROVE Ordered(history[c], c, stream')
  BY DEF OInv
<1>1. Ordered(history[c], c, stream)
  BY DEF OInv
<1>2. stream'[s] = r /\ \A p \in Streams \ {s} : stream'[p] = stream[p]
  BY DEF IInv, StreamsOK
<1>3. \A p \in Streams : Alike(stream[p], stream'[p], c)
  BY <1>2 DEF Alike
<1> QED BY <1>1, <1>3, OrderStays

\* One stream moves, and one conversation with it.
LEMMA ConversationMoves ==
  ASSUME IInv, HInv, OInv, NEW s \in Streams, NEW r, NEW c \in Conversations, NEW v,
         stream' = [stream EXCEPT ![s] = r], history' = [history EXCEPT ![c] = v],
         alive' = alive, torn \subseteq torn',
         c \in alive \ torn' => Ordered(v, c, stream'),
         \A d \in (alive \ torn') \ {c} : Alike(stream[s], r, d)
  PROVE  OInv'
<1> SUFFICES ASSUME NEW d \in alive \ torn' PROVE Ordered(history'[d], d, stream')
  BY DEF OInv
<1>1. d \in Conversations
  BY DEF IInv, StreamsOK
<1>2. CASE d = c
  BY <1>2 DEF HInv, Tables
<1>3. CASE d # c
  <2>1. history'[d] = history[d] /\ Ordered(history[d], d, stream)
    BY <1>1, <1>3 DEF OInv
  <2>2. stream'[s] = r /\ \A p \in Streams \ {s} : stream'[p] = stream[p]
    BY DEF IInv, StreamsOK
  <2>3. \A p \in Streams : Alike(stream[p], stream'[p], d)
    BY <1>3, <2>2 DEF Alike
  <2> QED BY <2>1, <2>3, OrderStays
<1> QED BY <1>2, <1>3

\* A worker that goes on, or concludes.
LEMMA WriterGoesOn ==
  ASSUME IInv, OInv, NEW s \in Streams, NEW r,
         stream' = [stream EXCEPT ![s] = r], UNCHANGED <<history, alive, torn>>,
         stream[s].pc \in Writing, r.pc \in Writing, r.conv = stream[s].conv,
         r.handled = stream[s].handled
  PROVE  OInv'
<1>1. \A c \in alive : Alike(stream[s], r, c)
  BY DEF Alike, In, WritesIn, Writing, Held
<1> QED BY <1>1, QuietMove

\* Concluding writes no row yet.
LEMMA ConcludingKeepsOrder ==
  ASSUME IInv, OInv, NEW s \in Streams, NEW status \in Ended, NEW w \in BOOLEAN,
         Conclude(s, status, w), stream[s].pc \in Writing, UNCHANGED <<history, alive, torn>>
  PROVE  OInv'
<1> DEFINE q == stream[s]
           r == Concluded(q, status, q.wrote \/ w)
<1>1. q \in StreamRecord /\ (q.wrote \/ w) \in BOOLEAN
  BY DEF IInv, StreamsOK
<1>2. stream' = [stream EXCEPT ![s] = r]
  BY ConcludeMakes DEF IInv, StreamsOK
<1>3. r.pc = "finishing" /\ r.conv = q.conv /\ r.handled = q.handled
  BY <1>1, FinalRecord
<1> HIDE DEF r
<1>4. r.pc \in Writing
  BY <1>3 DEF Writing
<1> QED BY <1>2, <1>3, <1>4, WriterGoesOn

\* A chat begins or is resumed: where another is at work the conversation is torn.
LEMMA BeginningKeepsOrder ==
  ASSUME IInv, HInv, OInv, NEW s \in Streams, NEW c \in Conversations, c \in alive, Begin(s, c),
         history' = history \/ history' = [history EXCEPT ![c] = Append(@, UserRow)],
         alive' = alive
  PROVE  OInv'
<1>1. PICK set \in Settings :
         stream' = [stream EXCEPT ![s] = [Fresh EXCEPT !.pc = "preparing", !.conv = c,
                        !.mode = set.mode, !.role = set.role, !.engine = set.engine]]
  BY DEF Begin
<1> DEFINE r == [Fresh EXCEPT !.pc = "preparing", !.conv = c,
                        !.mode = set.mode, !.role = set.role, !.engine = set.engine]
<1>2. r.pc = "preparing" /\ r.conv = c
  BY DEF Fresh
<1>3. stream' = [stream EXCEPT ![s] = r]
  BY <1>1
<1> HIDE DEF r
<1>4. stream'[s] = r /\ \A p \in Streams \ {s} : stream'[p] = stream[p]
  BY <1>3 DEF IInv, StreamsOK
<1>5. stream[s].pc = "none" /\ torn \subseteq torn' /\ (Chatting(c) # {} => c \in torn')
  BY DEF Begin, At
<1> DEFINE v == history'[c]
<1>6. history[c] \in Seq(Rows) /\ (v = history[c] \/ v = Append(history[c], UserRow))
      /\ history' = [history EXCEPT ![c] = v]
  BY DEF HInv, Tables
<1>7. ASSUME c \notin torn' PROVE Ordered(v, c, stream')
  <2>1. \A p \in Streams : ~In(stream[p], c)
    BY <1>5, <1>7 DEF Chatting, In, Conv
  <2>2. \A p \in Streams : ~WritesIn(stream[p], c)
    BY <2>1 DEF In, WritesIn, Writing, Held
  <2>3. Ordered(history[c], c, stream)
    BY <1>5, <1>7 DEF OInv
  <2> HIDE DEF v
  <2>4. Ordered(v, c, stream)
    BY <1>6, <2>2, <2>3, UserRowKeepsOrder
  <2>5. stream'[s].pc \notin Writing
    BY <1>2, <1>4 DEF Writing
  <2> QED BY <1>4, <1>5, <2>1, <2>4, <2>5, StreamComes
<1>8. ASSUME NEW d \in alive \ {c} PROVE Alike(stream[s], r, d)
  BY <1>2, <1>5, <1>8 DEF Alike, In, WritesIn, Writing
<1> HIDE DEF v
<1> QED BY <1>3, <1>5, <1>6, <1>7, <1>8, ConversationMoves

\* The row of an answer is stored, or the conversation is gone.
LEMMA StoringKeepsOrder ==
  ASSUME IInv, HInv, OInv, NEW s \in Streams, Finalize(s)
  PROVE  OInv'
<1> DEFINE q == stream[s]
           r == [q EXCEPT !.pc = "closing"]
           c == Conv(s)
<1>1. q \in StreamRecord /\ Budget(q) /\ q.pc = "finishing"
  BY DEF IInv, StreamsOK, HInv, Budgets, Finalize, At
<1>2. stream' = [stream EXCEPT ![s] = r] /\ alive' = alive /\ torn' = torn
  BY DEF Finalize, Goto, IInv, StreamsOK
<1>3. r.pc = "closing" /\ r.conv = q.conv /\ q.conv = c
  BY <1>1 DEF StreamRecord, Conv
<1>4. q.handled \in Nat /\ q.made \in Nat /\ q.handled <= q.made
  BY <1>1 DEF StreamRecord, Budget
<1> HIDE DEF r
<1>5. ASSUME NEW d \in alive, d # c PROVE Alike(stream[s], r, d)
  BY <1>1, <1>3, <1>5 DEF Alike, In, WritesIn
<1>6. CASE c \notin alive
  <2>1. history' = history
    BY <1>6 DEF Finalize
  <2>2. \A d \in alive : Alike(stream[s], r, d)
    BY <1>5, <1>6
  <2> QED BY <1>2, <2>1, <2>2, QuietMove
<1>7. CASE c \in alive
  <2> DEFINE w == history[c]
             v == StoredAnswer(s)
  <2>1. c \in Conversations
    BY <1>7 DEF IInv, StreamsOK
  <2>2. w \in Seq(Rows) /\ history' = [history EXCEPT ![c] = v]
    BY <1>7, <2>1 DEF HInv, Tables, Finalize
  <2>3. DOMAIN w = 1 .. Len(w) /\ Len(w) \in Nat /\ \A i \in 1 .. Len(w) : w[i] \in Rows
    BY <2>2, LenProperties
  <2>4. v = [i \in 1 .. Len(w) |->
              IF w[i].role = "assistant" /\ w[i].stream = s
              THEN [w[i] EXCEPT !.status = q.status, !.calls = q.made, !.text = q.wrote]
              ELSE w[i]]
    BY <2>3 DEF StoredAnswer
  <2> HIDE DEF v, w
  <2>5. Len(v) = Len(w)
    <3> DEFINE f(i) == IF w[i].role = "assistant" /\ w[i].stream = s
                       THEN [w[i] EXCEPT !.status = q.status, !.calls = q.made, !.text = q.wrote]
                       ELSE w[i]
    <3>1. v = [i \in 1 .. Len(w) |-> f(i)]
      BY <2>4
    <3> HIDE DEF f
    <3> QED BY <2>3, <3>1
  <2>6. ASSUME NEW i \in 1 .. Len(w)
        PROVE  /\ v[i].role = w[i].role /\ v[i].stream = w[i].stream /\ v[i].call = w[i].call
               /\ w[i].role = "assistant" =>
                     v[i].calls = IF w[i].stream = s THEN q.made ELSE w[i].calls
    <3>1. w[i] \in Rows
      BY <2>3
    <3>2. CASE w[i].role = "assistant" /\ w[i].stream = s
      <4>1. v[i] = [w[i] EXCEPT !.status = q.status, !.calls = q.made, !.text = q.wrote]
        BY <2>4, <3>2
      <4> HIDE DEF q
      <4> QED BY <3>1, <3>2, <4>1 DEF Rows
    <3>3. CASE ~(w[i].role = "assistant" /\ w[i].stream = s)
      BY <2>4, <3>3
    <3> QED BY <3>2, <3>3
  <2>7. ASSUME c \notin torn' PROVE Ordered(v, c, stream')
    <3>1. Ordered(w, c, stream)
      BY <1>2, <1>7, <2>7 DEF OInv, w
    <3>2. stream'[s] = r /\ \A p \in Streams \ {s} : stream'[p] = stream[p]
      BY <1>2 DEF IInv, StreamsOK
    <3>3. WritesIn(stream[s], c)
      BY <1>1, <1>3 DEF WritesIn, Writing
    <3> HIDE DEF c
    <3> QED BY <1>3, <1>4, <2>5, <2>6, <3>1, <3>2, <3>3, AnswerKeepsOrder
  <2>8. torn \subseteq torn' /\ alive' = alive
    BY <1>2
  <2> QED BY <1>2, <1>5, <2>1, <2>2, <2>7, <2>8, ConversationMoves
<1> QED BY <1>6, <1>7

\* Every step, action by action.
LEMMA StepPreservesOrder == IInv /\ HInv /\ OInv /\ [Next]_vars => OInv'
<1> SUFFICES ASSUME IInv, HInv, OInv, [Next]_vars PROVE OInv'
  OBVIOUS
<1>0. /\ \A s \in Streams : stream[s] \in StreamRecord /\ Budget(stream[s])
      /\ alive \subseteq Conversations
  BY DEF IInv, StreamsOK, HInv, Budgets
<1>1. ASSUME NEW s \in Streams, Register(s) PROVE OInv'
  <2> DEFINE q == stream[s]
             r == [q EXCEPT !.pc = "reading"]
             c == Conv(s)
             v == Append(history[c], AssistantRow(s))
  <2>1. q \in StreamRecord /\ q.pc = "preparing" /\ q.conv = c /\ c \in alive /\ c \in Conversations
    BY <1>0, <1>1 DEF Register, At, Conv
  <2>2. stream' = [stream EXCEPT ![s] = r] /\ history' = [history EXCEPT ![c] = v]
        /\ alive' = alive /\ torn' = torn
    BY <1>1 DEF Register, Goto, Append1, IInv, StreamsOK
  <2>3. r.pc = "reading" /\ r.conv = c /\ q.handled \in Nat
    BY <2>1 DEF StreamRecord
  <2> HIDE DEF r
  <2>4. stream'[s] = r /\ \A p \in Streams \ {s} : stream'[p] = stream[p]
    BY <2>2 DEF IInv, StreamsOK
  <2>5. ASSUME NEW d \in alive \ {c} PROVE Alike(stream[s], r, d)
    BY <2>1, <2>3, <2>5 DEF Alike, In, WritesIn
  <2>6. ASSUME c \notin torn PROVE Ordered(v, c, stream')
    <3>1. Ordered(history[c], c, stream) /\ history[c] \in Seq(Rows)
      BY <2>1, <2>6 DEF OInv, HInv, Tables
    <3>2. AssistantRow(s) \in Rows /\ AssistantRow(s).stream = s /\ AssistantRow(s).role = "assistant"
      BY BoundsAreNat DEF AssistantRow, Rows
    <3>3. In(stream[s], c) /\ WritesIn(stream'[s], c) /\ stream[s].pc = "preparing"
      BY <2>1, <2>3, <2>4 DEF In, WritesIn, Held, Writing
    <3> HIDE DEF c
    <3> QED BY <2>3, <2>4, <3>1, <3>2, <3>3, OwnRowKeepsOrder
  <2> HIDE DEF v, c
  <2> QED BY <2>1, <2>2, <2>5, <2>6, ConversationMoves
<1>2. ASSUME NEW s \in Streams, StartFails(s) PROVE OInv'
  <2> DEFINE r == [Fresh EXCEPT !.pc = "ended"]
  <2>1. stream' = [stream EXCEPT ![s] = r] /\ UNCHANGED <<history, alive, torn>>
        /\ stream[s].pc = "preparing"
    BY <1>2 DEF StartFails, At
  <2>2. r.pc = "ended"
    BY DEF Fresh
  <2> HIDE DEF r
  <2>3. \A c \in alive : Alike(stream[s], r, c)
    BY <2>1, <2>2 DEF Alike, In, WritesIn, Held, Writing
  <2> QED BY <2>1, <2>3, QuietMove
<1>3. ASSUME NEW s \in Streams, AnswerByRules(s) PROVE OInv'
  BY <1>3, ConcludingKeepsOrder DEF AnswerByRules, At, Writing, Ended
<1>4. ASSUME NEW s \in Streams, ReadHistory(s) PROVE OInv'
  <2> DEFINE q == stream[s]
             r == [q EXCEPT !.pc = "asking", !.rounds = 1]
             x == [q EXCEPT !.pc = "round"]
  <2>1. q \in StreamRecord /\ q.pc = "reading" /\ UNCHANGED <<history, alive, torn>>
    BY <1>0, <1>4 DEF ReadHistory, At
  <2>2. stream' = [stream EXCEPT ![s] = r] \/ stream' = [stream EXCEPT ![s] = x]
    BY <1>4 DEF ReadHistory, Goto, IInv, StreamsOK
  <2>3. /\ r.pc = "asking" /\ r.conv = q.conv /\ r.handled = q.handled
        /\ x.pc = "round" /\ x.conv = q.conv /\ x.handled = q.handled
    BY <2>1 DEF StreamRecord
  <2> HIDE DEF r, x
  <2>4. q.pc \in Writing /\ r.pc \in Writing /\ x.pc \in Writing
    BY <2>1, <2>3 DEF Writing
  <2>5. CASE stream' = [stream EXCEPT ![s] = r]
    BY <2>1, <2>3, <2>4, <2>5, WriterGoesOn
  <2>6. CASE stream' = [stream EXCEPT ![s] = x]
    BY <2>1, <2>3, <2>4, <2>6, WriterGoesOn
  <2> QED BY <2>2, <2>5, <2>6
<1>5. ASSUME NEW s \in Streams, BeginRound(s) PROVE OInv'
  <2>1. PICK capped :
          stream' = [stream EXCEPT ![s].pc = "asking", ![s].rounds = @ + 1, ![s].capped = capped]
    BY <1>5 DEF BeginRound
  <2> DEFINE q == stream[s]
             r == [q EXCEPT !.pc = "asking", !.rounds = q.rounds + 1, !.capped = capped]
  <2>2. q \in StreamRecord /\ q.pc = "round" /\ UNCHANGED <<history, alive, torn>>
    BY <1>0, <1>5 DEF BeginRound, At
  <2>3. stream' = [stream EXCEPT ![s] = r]
    BY <2>1 DEF IInv, StreamsOK
  <2>4. r.pc = "asking" /\ r.conv = q.conv /\ r.handled = q.handled
    BY <2>2 DEF StreamRecord
  <2> HIDE DEF r
  <2>5. q.pc \in Writing /\ r.pc \in Writing
    BY <2>2, <2>4 DEF Writing
  <2> QED BY <2>2, <2>3, <2>4, <2>5, WriterGoesOn
<1>6. ASSUME NEW s \in Streams, StopCanceled(s) PROVE OInv'
  BY <1>6, ConcludingKeepsOrder DEF StopCanceled, At, Writing, Ended
<1>7. ASSUME NEW s \in Streams, Answer(s) PROVE OInv'
  BY <1>7, ConcludingKeepsOrder DEF Answer, At, Writing, Ended
<1>8. ASSUME NEW s \in Streams, AnswerWithCalls(s) PROVE OInv'
  <2>1. PICK n \in 1 .. CallsPerRound :
          stream' = [stream EXCEPT ![s].pc = "handling", ![s].made = @ + n]
    BY <1>8 DEF AnswerWithCalls
  <2> DEFINE q == stream[s]
             r == [q EXCEPT !.pc = "handling", !.made = q.made + n]
  <2>2. q \in StreamRecord /\ q.pc = "asking" /\ UNCHANGED <<history, alive, torn>>
    BY <1>0, <1>8 DEF AnswerWithCalls, At
  <2>3. stream' = [stream EXCEPT ![s] = r]
    BY <2>1 DEF IInv, StreamsOK
  <2>4. r.pc = "handling" /\ r.conv = q.conv /\ r.handled = q.handled
    BY <2>2 DEF StreamRecord
  <2> HIDE DEF r
  <2>5. q.pc \in Writing /\ r.pc \in Writing
    BY <2>2, <2>4 DEF Writing
  <2> QED BY <2>2, <2>3, <2>4, <2>5, WriterGoesOn
<1>9. ASSUME NEW s \in Streams, ClientFails(s) PROVE OInv'
  <2>1. PICK status \in Ended, w \in BOOLEAN : Conclude(s, status, w)
    BY <1>9, FailureConcludes
  <2>2. stream[s].pc \in Writing /\ UNCHANGED <<history, alive, torn>>
    BY <1>9 DEF ClientFails, At, Writing
  <2> QED BY <2>1, <2>2, ConcludingKeepsOrder
<1>10. ASSUME NEW s \in Streams, NEW t \in Tools, HandleCall(s, t) PROVE OInv'
  <2>1. PICK o \in Outcomes(stream[s].mode, stream[s].role, t) :
          LET did == IF o \in {"result", "run"} THEN t ELSE NoTool
          IN  IF Conv(s) \in alive
              THEN /\ Append1(Conv(s), ToolRow(s, stream[s].handled + 1))
                   /\ stream' = [stream EXCEPT
                         ![s].did = did, ![s].handled = @ + 1,
                         ![s].pc = IF o = "confirm" THEN "submitting" ELSE @]
              ELSE CallRaises(s, did)
    BY <1>10 DEF HandleCall
  <2> DEFINE did == IF o \in {"result", "run"} THEN t ELSE NoTool
             q == stream[s]
             c == Conv(s)
  <2>2. /\ q \in StreamRecord /\ q.pc = "handling" /\ Budget(q) /\ q.handled < q.made
        /\ q.handled \in Nat /\ q.made \in Nat /\ q.conv = c
    BY <1>0, <1>10 DEF HandleCall, At, StreamRecord, Conv
  <2>3. UNCHANGED <<alive, torn>>
    BY <1>10 DEF HandleCall
  <2> HIDE DEF did
  <2>4. CASE c \in alive
    <3> DEFINE pc == IF o = "confirm" THEN "submitting" ELSE q.pc
               r == [q EXCEPT !.did = did, !.handled = q.handled + 1, !.pc = pc]
               row == ToolRow(s, q.handled + 1)
               v == Append(history[c], row)
    <3>1. pc \in {"handling", "submitting"}
      BY <2>2
    <3> HIDE DEF pc
    <3>2. stream' = [stream EXCEPT ![s] = r] /\ history' = [history EXCEPT ![c] = v]
      BY <2>1, <2>4 DEF IInv, StreamsOK, did, pc, Append1
    <3>3. r.pc = pc /\ r.conv = q.conv /\ r.handled = q.handled + 1
      BY <2>2 DEF StreamRecord
    <3> HIDE DEF r
    <3>4. stream'[s] = r /\ \A p \in Streams \ {s} : stream'[p] = stream[p]
      BY <3>2 DEF IInv, StreamsOK
    <3>5. row \in Rows /\ row.role = "tool" /\ row.stream = s /\ row.call = q.handled + 1
      <4>1. q.handled + 1 \in 0 .. MaxCalls
        BY <2>2, BoundsAreNat DEF Budget
      <4> QED BY <4>1, BoundsAreNat DEF ToolRow, Rows, Ended
    <3> HIDE DEF row
    <3>6. ASSUME NEW d \in alive \ {c} PROVE Alike(stream[s], r, d)
      BY <2>2, <3>1, <3>3, <3>6 DEF Alike, In, WritesIn, Writing, Held
    <3>7. ASSUME c \notin torn PROVE Ordered(v, c, stream')
      <4>1. Ordered(history[c], c, stream) /\ history[c] \in Seq(Rows)
        BY <1>0, <2>4, <3>7 DEF OInv, HInv, Tables
      <4>2. In(stream[s], c) /\ WritesIn(stream[s], c) /\ WritesIn(stream'[s], c)
            /\ stream'[s].pc \notin {"none", "preparing"}
        BY <2>2, <3>1, <3>3, <3>4 DEF In, WritesIn, Held, Writing
      <4>3. /\ row.call = stream[s].handled + 1 /\ stream'[s].handled = stream[s].handled + 1
            /\ stream[s].handled \in Nat /\ v = Append(history[c], row)
        BY <2>2, <3>3, <3>4, <3>5
      <4> HIDE DEF c, v, q
      <4> QED BY <3>4, <3>5, <4>1, <4>2, <4>3, OwnRowKeepsOrder
    <3>8. c \in Conversations
      BY <1>0, <2>4
    <3> HIDE DEF v, c
    <3> QED BY <2>3, <3>2, <3>6, <3>7, <3>8, ConversationMoves
  <2>5. CASE c \notin alive
    <3> DEFINE r == [q EXCEPT !.did = did, !.pc = "finishing", !.status = "failed"]
    <3>1. stream' = [stream EXCEPT ![s] = r] /\ history' = history
      BY <2>1, <2>5 DEF IInv, StreamsOK, did, CallRaises
    <3>2. r.pc = "finishing" /\ r.conv = q.conv /\ r.handled = q.handled
      BY <2>2 DEF StreamRecord
    <3> HIDE DEF r
    <3>3. q.pc \in Writing /\ r.pc \in Writing
      BY <2>2, <3>2 DEF Writing
    <3> QED BY <2>3, <3>1, <3>2, <3>3, WriterGoesOn
  <2> QED BY <2>4, <2>5
<1>11. ASSUME NEW s \in Streams, SubmitCard(s) PROVE OInv'
  <2> DEFINE q == stream[s]
             r == [q EXCEPT !.pc = "handling", !.stop = TRUE, !.wrote = TRUE, !.did = NoTool]
  <2>1. q \in StreamRecord /\ q.pc = "submitting" /\ UNCHANGED <<history, alive, torn>>
    BY <1>0, <1>11 DEF SubmitCard, At
  <2>2. stream' = [stream EXCEPT ![s] = r]
    BY <1>11 DEF SubmitCard, IInv, StreamsOK
  <2>3. r.pc = "handling" /\ r.conv = q.conv /\ r.handled = q.handled
    BY <2>1 DEF StreamRecord
  <2> HIDE DEF r
  <2>4. q.pc \in Writing /\ r.pc \in Writing
    BY <2>1, <2>3 DEF Writing
  <2> QED BY <2>1, <2>2, <2>3, <2>4, WriterGoesOn
<1>12. ASSUME NEW s \in Streams, WorkerRaises(s) PROVE OInv'
  <2>1. stream[s].pc \in Writing /\ Conclude(s, "failed", FALSE) /\ UNCHANGED <<history, alive, torn>>
    BY <1>12 DEF WorkerRaises, At, Writing
  <2> QED BY <2>1, ConcludingKeepsOrder DEF Ended
<1>13. ASSUME NEW s \in Streams, RoundEnds(s) PROVE OInv'
  <2>1. stream[s].pc \in Writing /\ UNCHANGED <<history, alive, torn>>
    BY <1>13 DEF RoundEnds, At, Writing
  <2>2. CASE stream[s].stop
    <3>1. Conclude(s, "done", FALSE)
      BY <1>13, <2>2 DEF RoundEnds
    <3> QED BY <2>1, <3>1, ConcludingKeepsOrder DEF Ended
  <2>3. CASE ~stream[s].stop
    <3> DEFINE q == stream[s]
               r == [q EXCEPT !.pc = "round", !.did = NoTool]
    <3>1. stream' = [stream EXCEPT ![s] = r] /\ q \in StreamRecord
      BY <1>0, <1>13, <2>3 DEF RoundEnds, IInv, StreamsOK
    <3>2. r.pc = "round" /\ r.conv = q.conv /\ r.handled = q.handled
      BY <3>1 DEF StreamRecord
    <3> HIDE DEF r
    <3>3. r.pc \in Writing
      BY <3>2 DEF Writing
    <3> QED BY <2>1, <3>1, <3>2, <3>3, WriterGoesOn
  <2> QED BY <2>2, <2>3
<1>14. ASSUME NEW s \in Streams, Finalize(s) PROVE OInv'
  BY <1>14, StoringKeepsOrder
<1>15. ASSUME NEW s \in Streams, FinalizeFails(s) PROVE OInv'
  <2> DEFINE q == stream[s]
             r == [q EXCEPT !.pc = "closing"]
  <2>1. q \in StreamRecord /\ q.pc = "finishing"
    BY <1>0, <1>15 DEF FinalizeFails, At
  <2>2. /\ stream' = [stream EXCEPT ![s] = r] /\ history' = history /\ alive' = alive
        /\ torn' = torn \cup ({q.conv} \cap Conversations)
    BY <1>15 DEF FinalizeFails, Goto, IInv, StreamsOK, Conv
  <2>3. r.pc = "closing" /\ r.conv = q.conv
    BY <2>1 DEF StreamRecord
  <2> HIDE DEF r
  <2>4. ASSUME NEW c \in alive \ torn' PROVE Alike(stream[s], r, c)
    <3>1. q.conv # c
      BY <1>0, <2>2, <2>4
    <3> QED BY <2>3, <3>1 DEF Alike, In, WritesIn
  <2> QED BY <2>2, <2>4, QuietMove
<1>16. ASSUME NEW s \in Streams, Close(s) PROVE OInv'
  <2> DEFINE r == [Fresh EXCEPT !.pc = "ended", !.conv = Conv(s)]
  <2>1. stream' = [stream EXCEPT ![s] = r] /\ stream[s].pc = "closing"
        /\ UNCHANGED <<history, alive, torn>>
    BY <1>16 DEF Close, At
  <2>2. r.pc = "ended"
    BY DEF Fresh
  <2> HIDE DEF r
  <2>3. \A c \in alive : Alike(stream[s], r, c)
    BY <2>1, <2>2 DEF Alike, In, WritesIn, Held, Writing
  <2> QED BY <2>1, <2>3, QuietMove
<1>17. ASSUME NEW s \in Streams, StartInsight(s) PROVE OInv'
  <2>1. PICK engine \in {"plain", "rules"} :
          stream' = [stream EXCEPT ![s] = [Fresh EXCEPT !.pc = "reading", !.engine = engine]]
    BY <1>17 DEF StartInsight
  <2> DEFINE r == [Fresh EXCEPT !.pc = "reading", !.engine = engine]
  <2>2. r.pc = "reading" /\ r.conv = NoConversation
    BY DEF Fresh
  <2>3. stream[s].pc = "none" /\ UNCHANGED <<history, alive, torn>>
        /\ stream' = [stream EXCEPT ![s] = r]
    BY <1>17, <2>1 DEF StartInsight, At
  <2> HIDE DEF r
  <2>4. ASSUME NEW c \in alive PROVE Alike(stream[s], r, c)
    <3>1. c # NoConversation
      BY <1>0, StreamAssumption
    <3> QED BY <2>2, <2>3, <3>1 DEF Alike, In, WritesIn, Held, Writing
  <2> QED BY <2>3, <2>4, QuietMove
<1>18. ASSUME NEW s \in Streams, Cancel(s) PROVE OInv'
  <2> DEFINE q == stream[s]
             r == [q EXCEPT !.cancel = TRUE]
  <2>1. q \in StreamRecord
    BY <1>0
  <2>2. stream' = [stream EXCEPT ![s] = r] /\ UNCHANGED <<history, alive, torn>>
    BY <1>18 DEF Cancel, IInv, StreamsOK
  <2>3. r.pc = q.pc /\ r.conv = q.conv /\ r.handled = q.handled
    BY <2>1 DEF StreamRecord
  <2> HIDE DEF r
  <2>4. \A c \in alive : Alike(q, r, c)
    BY <2>3 DEF Alike, In, WritesIn
  <2> QED BY <2>2, <2>4, QuietMove
<1>19. ASSUME NEW s \in Streams, NEW c \in Conversations, StartChat(s, c) PROVE OInv'
  BY <1>19, BeginningKeepsOrder DEF StartChat, Append1
<1>20. ASSUME NEW s \in Streams, NEW k \in resumes, ResumeChat(s, k) PROVE OInv'
  <2>1. Conv(k[1]) \in Conversations
    BY <1>0, <1>20 DEF ResumeChat
  <2> QED BY <1>20, <2>1, BeginningKeepsOrder DEF ResumeChat
<1>21. ASSUME NEW k \in resumes, ResumeRefused(k) PROVE OInv'
  BY <1>21 DEF ResumeRefused, OInv
<1>22. ASSUME NEW k \in cards, DecideCard(k) \/ ExpireCard(k) PROVE OInv'
  BY <1>22 DEF DecideCard, ExpireCard, OInv
<1>23. ASSUME NEW c \in Conversations, DeleteConversation(c) PROVE OInv'
  <2>1. /\ alive' = alive \ {c} /\ history' = [history EXCEPT ![c] = <<>>]
        /\ UNCHANGED <<stream, torn>>
    BY <1>23 DEF DeleteConversation
  <2>2. \A d \in alive' : history'[d] = history[d]
    BY <1>0, <2>1 DEF HInv, Tables
  <2> QED BY <2>1, <2>2 DEF OInv
<1>24. CASE Crash
  <2> DEFINE r(s) == [Fresh EXCEPT !.pc = "dead", !.conv = Conv(s)]
  <2>1. /\ \A s \in Streams : stream'[s] = IF stream[s].pc \in Occupied THEN r(s) ELSE stream[s]
        /\ UNCHANGED <<history, alive>>
        /\ torn' = torn \cup {c \in Conversations : Chatting(c) # {}}
    BY <1>24 DEF Crash
  <2>2. \A s \in Streams : r(s).pc = "dead"
    BY DEF Fresh
  <2> HIDE DEF r
  <2> SUFFICES ASSUME NEW c \in alive \ torn' PROVE Ordered(history[c], c, stream')
    BY <2>1 DEF OInv
  <2>3. Ordered(history[c], c, stream) /\ \A s \in Streams : ~In(stream[s], c)
    BY <1>0, <2>1 DEF OInv, Chatting, In, Conv
  <2>4. ASSUME NEW s \in Streams PROVE Alike(stream[s], stream'[s], c)
    <3>1. CASE stream[s].pc \in Occupied
      <4>1. stream'[s].pc = "dead" /\ ~In(stream[s], c)
        BY <2>1, <2>2, <2>3, <3>1
      <4> QED BY <3>1, <4>1 DEF Alike, In, WritesIn, Held, Writing
    <3>2. CASE stream[s].pc \notin Occupied
      BY <2>1, <3>2 DEF Alike
    <3> QED BY <3>1, <3>2
  <2> QED BY <2>3, <2>4, OrderStays
<1>25. CASE Restart
  <2>1. history' = FailStale /\ UNCHANGED <<stream, alive, torn>>
    BY <1>25 DEF Restart
  <2> SUFFICES ASSUME NEW c \in alive \ torn PROVE Ordered(history'[c], c, stream)
    BY <2>1 DEF OInv
  <2> DEFINE w == history[c]
             v == history'[c]
  <2>2. w \in Seq(Rows) /\ Ordered(w, c, stream)
    BY <1>0 DEF OInv, HInv, Tables
  <2>3. DOMAIN w = 1 .. Len(w) /\ Len(w) \in Nat /\ \A i \in 1 .. Len(w) : w[i] \in Rows
    BY <2>2, LenProperties
  <2>4. v = [i \in 1 .. Len(w) |->
               [w[i] EXCEPT !.status = IF @ = "streaming" THEN "failed" ELSE @]]
    BY <1>0, <2>1, <2>3 DEF FailStale
  <2> HIDE DEF v, w
  <2>5. Len(v) = Len(w)
    BY <2>3, <2>4
  <2>6. \A i \in 1 .. Len(w) : /\ v[i].role = w[i].role /\ v[i].stream = w[i].stream
                               /\ v[i].call = w[i].call /\ v[i].calls = w[i].calls
    BY <2>3, <2>4 DEF Rows
  <2>7. Ordered(v, c, stream)
    BY <2>2, <2>5, <2>6, RewritingKeepsOrder
  <2> QED BY <2>7 DEF v
<1>26. CASE UNCHANGED vars
  BY <1>26 DEF vars, OInv
<1>27. ASSUME NEW s \in Streams, ThreadFails(s) PROVE OInv'
  <2> DEFINE q == stream[s]
             r == [q EXCEPT !.pc = "unstarted"]
             c == Conv(s)
             v == Append(history[c], AssistantRow(s))
  <2>1. q \in StreamRecord /\ q.pc = "preparing" /\ q.conv = c /\ c \in alive /\ c \in Conversations
    BY <1>0, <1>27 DEF ThreadFails, At, Conv
  <2>2. stream' = [stream EXCEPT ![s] = r] /\ history' = [history EXCEPT ![c] = v]
        /\ alive' = alive /\ torn' = torn
    BY <1>27 DEF ThreadFails, Goto, Append1, IInv, StreamsOK
  <2>3. r.pc = "unstarted" /\ r.conv = c /\ q.handled \in Nat
    BY <2>1 DEF StreamRecord
  <2> HIDE DEF r
  <2>4. stream'[s] = r /\ \A p \in Streams \ {s} : stream'[p] = stream[p]
    BY <2>2 DEF IInv, StreamsOK
  <2>5. ASSUME NEW d \in alive \ {c} PROVE Alike(stream[s], r, d)
    BY <2>1, <2>3, <2>5 DEF Alike, In, WritesIn
  <2>6. ASSUME c \notin torn PROVE Ordered(v, c, stream')
    <3>1. Ordered(history[c], c, stream) /\ history[c] \in Seq(Rows)
      BY <2>1, <2>6 DEF OInv, HInv, Tables
    <3>2. AssistantRow(s) \in Rows /\ AssistantRow(s).stream = s /\ AssistantRow(s).role = "assistant"
      BY BoundsAreNat DEF AssistantRow, Rows
    <3>3. In(stream[s], c) /\ ~WritesIn(stream'[s], c) /\ stream[s].pc = "preparing"
      BY <2>1, <2>3, <2>4 DEF In, WritesIn, Held, Writing
    <3> HIDE DEF c
    <3> QED BY <2>3, <2>4, <3>1, <3>2, <3>3, OwnRowKeepsOrder
  <2> HIDE DEF v, c
  <2> QED BY <2>1, <2>2, <2>5, <2>6, ConversationMoves
<1>28. ASSUME NEW s \in Streams, InsightThreadFails(s) PROVE OInv'
  <2> DEFINE r == [stream[s] EXCEPT !.pc = "unstarted"]
  <2>1. r.pc = "unstarted"
    BY <1>0 DEF StreamRecord
  <2>2. stream' = [stream EXCEPT ![s] = r] /\ stream[s].pc = "none"
        /\ UNCHANGED <<history, alive, torn>>
    BY <1>28 DEF InsightThreadFails, Goto, At, IInv, StreamsOK
  <2> HIDE DEF r
  <2>3. \A c \in alive : Alike(stream[s], r, c)
    BY <2>1, <2>2 DEF Alike, In, WritesIn, Held, Writing
  <2> QED BY <2>2, <2>3, QuietMove
<1> QED
  BY <1>1, <1>2, <1>3, <1>4, <1>5, <1>6, <1>7, <1>8, <1>9, <1>10, <1>11, <1>12, <1>13,
     <1>14, <1>15, <1>16, <1>17, <1>18, <1>19, <1>20, <1>21, <1>22, <1>23, <1>24, <1>25,
     <1>26, <1>27, <1>28
  DEF Next, WorkerStep

\* Conversations begin empty.
LEMMA InitIsOrdered == Init => OInv
<1> SUFFICES ASSUME Init, NEW c \in alive \ torn PROVE Ordered(history[c], c, stream)
  BY DEF OInv
<1>1. history[c] = <<>> /\ Len(<<>>) = 0 /\ \A s \in Streams : stream[s].pc = "none"
  BY DEF Init, Fresh
<1>2. \A s \in Streams : ~In(stream[s], c) /\ ~WritesIn(stream[s], c)
  BY <1>1 DEF In, WritesIn, Held, Writing
<1>3. Follows(<<>>) /\ Single(<<>>) /\ Foreseen(<<>>, c, stream) /\ Begun(<<>>, stream)
  BY <1>1 DEF Follows, Single, Foreseen, Begun
<1>4. InHand(<<>>, c, stream) /\ Alone(c, stream)
  BY <1>2 DEF InHand, Alone
<1> QED BY <1>1, <1>3, <1>4 DEF Ordered

\* One chat at a time leaves results behind the row that asked for them.
THEOREM OrderInvariance == Spec => []OInv
<1>1. IInv /\ HInv /\ OInv /\ [Next]_vars => OInv'
  BY StepPreservesOrder
<1> QED BY <1>1, InitIsOrdered, Invariance, HistoryInvariance, PTL DEF Spec

-----------------------------------------------------------------------------
(* The rows within the context limit, and the theorem.                     *)

\* w is what follows the first rows of h.
EndsWith(h, w) ==
    \E d \in Nat : Len(h) = d + Len(w) /\ \A i \in 1 .. Len(w) : w[i] = h[d + i]

\* A cut at the head, as _context_rows makes them.
LEMMA CutIsAnEnd ==
  ASSUME NEW h \in Seq(Rows), NEW d \in 0 .. Len(h), NEW w, w = SubSeq(h, d + 1, Len(h))
  PROVE  /\ w \in Seq(Rows) /\ Len(w) = Len(h) - d /\ EndsWith(h, w)
         /\ \A i \in 1 .. Len(w) : w[i] = h[d + i]
<1>1. Len(h) \in Nat /\ \A i \in 1 .. Len(h) : h[i] \in Rows
  BY LenProperties
<1>2. \A i \in d + 1 .. Len(h) : h[i] \in Rows
  BY <1>1
<1>3. d + 1 \in Int /\ Len(h) \in Int
  BY <1>1
<1>4. /\ w \in Seq(Rows)
      /\ Len(w) = IF d + 1 <= Len(h) THEN Len(h) - (d + 1) + 1 ELSE 0
      /\ \A i \in 1 .. Len(h) - (d + 1) + 1 : w[i] = h[(d + 1) + i - 1]
  BY <1>2, <1>3, SubSeqProperties
<1>5. Len(w) = Len(h) - d
  BY <1>1, <1>4
<1>6. ASSUME NEW i \in 1 .. Len(w) PROVE w[i] = h[d + i]
  <2>1. i \in 1 .. Len(h) - (d + 1) + 1 /\ (d + 1) + i - 1 = d + i
    BY <1>1, <1>5
  <2> QED BY <1>4, <2>1
<1>7. d \in Nat /\ Len(h) = d + Len(w)
  BY <1>1, <1>5
<1> QED BY <1>4, <1>5, <1>6, <1>7 DEF EndsWith

\* What holds of the rows of a conversation holds of their end.
LEMMA EndsKeepOrder ==
  ASSUME NEW h \in Seq(Rows), NEW w \in Seq(Rows), EndsWith(h, w),
         Follows(h), Single(h), Settled(h)
  PROVE  Follows(w) /\ Single(w) /\ Settled(w)
<1>1. PICK d \in Nat : Len(h) = d + Len(w) /\ \A i \in 1 .. Len(w) : w[i] = h[d + i]
  BY DEF EndsWith
<1>2. Len(w) \in Nat
  BY LenProperties
<1>3. \A i \in 1 .. Len(w) : d + i \in 1 .. Len(h) /\ w[i] = h[d + i]
  BY <1>1, <1>2
<1>4. Follows(w)
  <2> SUFFICES ASSUME NEW i \in 2 .. Len(w), w[i].role = "tool"
               PROVE  w[i - 1].role \in {"assistant", "tool"} /\ w[i - 1].stream = w[i].stream
    BY DEF Follows
  <2>1. i \in 1 .. Len(w) /\ i - 1 \in 1 .. Len(w)
    BY <1>2
  <2>2. d + i \in 2 .. Len(h) /\ (d + i) - 1 = d + (i - 1)
    BY <1>1, <1>2
  <2> QED BY <1>3, <2>1, <2>2 DEF Follows
<1>5. Single(w)
  <2> SUFFICES ASSUME NEW i \in 1 .. Len(w), NEW j \in 1 .. Len(w),
                      w[i].role = "assistant", w[j].role = "assistant", w[i].stream = w[j].stream
               PROVE  i = j
    BY DEF Single
  <2>1. d + i = d + j
    BY <1>3 DEF Single
  <2> QED BY <2>1
<1>6. Settled(w)
  BY <1>3 DEF Settled
<1> QED BY <1>4, <1>5, <1>6

\* The request is built from an end of the conversation that no result heads.
LEMMA ContextIsAnEnd ==
  ASSUME NEW h \in Seq(Rows), NEW limit \in Nat, NEW w, w = ContextRows(h, limit)
  PROVE  w \in Seq(Rows) /\ EndsWith(h, w) /\ Headed(w)
<1> DEFINE last == IF Len(h) > limit THEN SubSeq(h, Len(h) - limit + 1, Len(h)) ELSE h
           kept == {i \in DOMAIN last : \E j \in 1 .. i : last[j].role # "tool"}
           n == Len(last)
           d == n - Cardinality(kept)
<1>1. Len(h) \in Nat
  BY LenProperties
<1>2. last \in Seq(Rows) /\ EndsWith(h, last)
  <2>1. CASE Len(h) > limit
    <3>1. Len(h) - limit \in 0 .. Len(h) /\ Len(h) - limit + 1 = (Len(h) - limit) + 1
      BY <1>1, <2>1
    <3>2. last = SubSeq(h, (Len(h) - limit) + 1, Len(h))
      BY <2>1
    <3> QED BY <3>1, <3>2, CutIsAnEnd
  <2>2. CASE ~(Len(h) > limit)
    <3>1. Len(h) = 0 + Len(h) /\ \A i \in 1 .. Len(h) : h[i] = h[0 + i]
      BY <1>1
    <3> QED BY <2>2, <3>1 DEF EndsWith
  <2> QED BY <2>1, <2>2
<1>3. w = SubSeq(last, d + 1, n)
  BY DEF ContextRows
<1> HIDE DEF last
<1>4. n \in Nat /\ DOMAIN last = 1 .. n
  BY <1>2, LenProperties
<1>5. Cardinality(kept) \in 0 .. n /\ (Cardinality(kept) > 0 => last[d + 1].role # "tool")
  <2>1. CASE kept = {}
    <3>1. Cardinality(kept) = 0
      BY <2>1, FS_EmptySet
    <3> HIDE DEF kept
    <3> QED BY <1>4, <3>1
  <2>2. CASE kept # {}
    <3> DEFINE T == {i \in 1 .. n : last[i].role # "tool"}
    <3>1. T # {} /\ T \in SUBSET Nat
      BY <1>4, <2>2
    <3>2. PICK f \in T : \A i \in T : f <= i
      BY <3>1, LeastNumber
    <3>3. f \in 1 .. n /\ last[f].role # "tool" /\ \A j \in 1 .. n : last[j].role # "tool" => f <= j
      BY <3>2
    <3>4. kept = f .. n
      BY <1>4, <3>3
    <3> HIDE DEF kept
    <3>5. Cardinality(kept) = n - f + 1
      BY <1>4, <3>3, <3>4, FS_Interval
    <3>6. d + 1 = f
      BY <1>4, <3>3, <3>5
    <3> QED BY <1>4, <3>3, <3>5, <3>6
  <2> QED BY <2>1, <2>2
<1> HIDE DEF kept
<1>6. d \in 0 .. n /\ n - d = Cardinality(kept)
  BY <1>4, <1>5
<1> HIDE DEF d
<1>7. /\ w \in Seq(Rows) /\ Len(w) = n - d /\ EndsWith(last, w)
      /\ \A i \in 1 .. Len(w) : w[i] = last[d + i]
  BY <1>2, <1>3, <1>6, CutIsAnEnd
<1>8. Headed(w)
  <2> SUFFICES ASSUME Len(w) > 0 PROVE w[1].role # "tool"
    BY DEF Headed
  <2>1. w[1] = last[d + 1]
    BY <1>4, <1>6, <1>7
  <2> QED BY <1>5, <1>6, <1>7, <2>1
<1>9. EndsWith(h, w)
  <2>1. PICK a \in Nat : Len(h) = a + n /\ \A i \in 1 .. n : last[i] = h[a + i]
    BY <1>2 DEF EndsWith
  <2>2. a + d \in Nat /\ Len(h) = (a + d) + Len(w)
    BY <1>4, <1>6, <1>7, <2>1
  <2>3. ASSUME NEW i \in 1 .. Len(w) PROVE w[i] = h[(a + d) + i]
    <3>1. d + i \in 1 .. n /\ a + (d + i) = (a + d) + i
      BY <1>4, <1>6, <1>7
    <3> QED BY <1>7, <2>1, <3>1
  <2> QED BY <2>2, <2>3 DEF EndsWith
<1> QED BY <1>7, <1>8, <1>9

\* Before the first round nothing is open: every result is of a stored row.
LEMMA OrderedRequest ==
  ASSUME IInv, HInv, OInv
  PROVE  OrderlyRequestIsWellFormed
<1> SUFFICES ASSUME NEW s \in Streams, At(s, "reading"), Conv(s) \in alive \ torn
             PROVE  WellFormed(Request(s))
  BY DEF OrderlyRequestIsWellFormed
<1> DEFINE c == Conv(s)
           h == history[c]
           w == ContextRows(h, ContextLimit)
<1>1. h \in Seq(Rows) /\ Ordered(h, c, stream)
  BY DEF OInv, HInv, Tables, IInv, StreamsOK
<1>2. stream[s].handled = 0 /\ WritesIn(stream[s], c)
  <2>1. stream[s] \in StreamRecord /\ Budget(stream[s]) /\ stream[s].pc = "reading"
    BY DEF IInv, StreamsOK, HInv, Budgets, At
  <2>2. stream[s].made = 0 /\ stream[s].handled \in Nat /\ stream[s].handled <= stream[s].made
    BY <2>1 DEF Budget, StreamRecord
  <2>3. stream[s].handled = 0
    BY <2>2
  <2> QED BY <2>1, <2>3 DEF WritesIn, Writing, Conv
<1> HIDE DEF c, h
<1>3. \A p \in Streams : WritesIn(stream[p], c) => p = s
  BY <1>1, <1>2 DEF Ordered, Alone, In, WritesIn, Held, Writing
<1>4. Settled(h)
  <2> SUFFICES ASSUME NEW i \in 1 .. Len(h), NEW j \in 1 .. Len(h), h[i].role = "tool",
                      h[j].role = "assistant", h[i].stream = h[j].stream
               PROVE  h[i].call \in 1 .. h[j].calls
    BY DEF Settled
  <2>1. h[i].stream \in Streams
    BY <1>1 DEF Ordered, Begun
  <2>2. ~WritesIn(stream[h[i].stream], c)
    <3> SUFFICES ASSUME WritesIn(stream[h[i].stream], c) PROVE FALSE
      OBVIOUS
    <3>1. h[i].call \in 1 .. 0
      BY <1>1, <1>2, <1>3, <2>1 DEF Ordered, Foreseen
    <3> QED BY <3>1
  <2> QED BY <1>1, <2>2 DEF Ordered, Foreseen
<1>5. w \in Seq(Rows) /\ EndsWith(h, w) /\ Headed(w)
  BY <1>1, ContextIsAnEnd, StreamAssumption
<1> HIDE DEF w
<1>6. Follows(w) /\ Single(w) /\ Settled(w)
  BY <1>1, <1>4, <1>5, EndsKeepOrder DEF Ordered
<1>7. WellFormed(HistoryMessages(w))
  BY <1>5, <1>6, RowsMakeAWellFormedRequest
<1> QED BY <1>7 DEF Request, w, h, c

\* Every request of an orderly conversation is one the model service accepts,
\* wherever the context limit cuts it: no result without its call, no call
\* without its result (ai_service.py: _context_rows, history_messages).
THEOREM RequestsAreWellFormed == Spec => []OrderlyRequestIsWellFormed
<1>1. IInv /\ HInv /\ OInv => OrderlyRequestIsWellFormed
  BY OrderedRequest
<1> QED BY <1>1, Invariance, HistoryInvariance, OrderInvariance, PTL
=============================================================================
