------------------------------- MODULE AiStream -------------------------------
(***************************************************************************)
(* The generations of the assistant (ai_service.py): start_chat and        *)
(* start_insight, the worker threads with their rounds of tool calls, the  *)
(* concurrency semaphore, cancellation, the stored history, the resumption *)
(* after a card is decided, crash and recovery.                            *)
(*                                                                         *)
(* A card is here the call it asks for; its own protocol is AiActions.     *)
(* The model service is the environment: it answers, calls tools of its    *)
(* choice or fails.  The daily token limit, which only refuses a request,  *)
(* and the buffers kept for the page after a stream has ended are left out.*)
(***************************************************************************)
EXTENDS AccessModes, ChatHistory

CONSTANTS
    Streams,            \* generations, each used once
    Conversations,
    Tools,              \* tools the model may call, some of them unknown
    NoTool,
    NoConversation,     \* an insight belongs to no conversation
    Settings,           \* bound: engines, access modes and roles of the chats
    Slots,              \* AI_MAX_CONCURRENCY
    MaxRounds,          \* AI_MAX_TOOL_ROUNDS
    CallsPerRound,      \* bound: calls in one answer of the model
    ContextLimit,       \* AI_MAX_CONTEXT_MESSAGES
    MaxFaults           \* bound: database errors and crashes

\* _run_chat, _run_plain or _run_traditional.
Engines == {"tools", "plain", "rules"}

ASSUME StreamAssumption ==
    /\ IsFiniteSet(Streams)
    /\ Slots \in Nat \ {0} /\ MaxRounds \in Nat \ {0}
    /\ CallsPerRound \in Nat \ {0} /\ ContextLimit \in Nat \ {0, 1}
    /\ MaxFaults \in Nat
    /\ Settings \subseteq [engine : Engines, mode : Modes, role : Roles]
    /\ NoStream \notin Streams /\ NoConversation \notin Conversations
    /\ NoTool \notin Tools

VARIABLES
    stream,     \* stream[s]: the _Stream and where its thread is
    permits,    \* what _semaphore has left
    history,    \* history[c]: rows of ai_messages
    alive,      \* conversations not deleted
    cards,      \* calls that wait for a decision (ai_actions, pending)
    resumes,    \* calls decided, whose request will resume the chat
    up, faults,
    torn        \* history: conversations where two chats overlapped, or whose
                \* chat was cut short, so that its calls were not stored

vars == <<stream, permits, history, alive, cards, resumes, up, faults, torn>>

MaxCalls == MaxRounds * CallsPerRound
Calls == Streams \X (1 .. MaxCalls)
Ended == {"done", "failed", "canceled"}
Places == {"none", "preparing", "reading", "round", "asking", "handling",
           "submitting", "finishing", "closing", "ended", "unstarted", "dead"}
Held == {"preparing", "reading", "round", "asking", "handling", "submitting",
         "finishing", "closing"}
Running == Held \ {"preparing"}
\* A stream without a thread keeps what its start has taken.
Occupied == Held \cup {"unstarted"}

Fresh == [pc |-> "none", conv |-> NoConversation, engine |-> "tools",
          mode |-> "change", role |-> "operator", rounds |-> 0, made |-> 0,
          handled |-> 0, stop |-> FALSE, capped |-> FALSE, wrote |-> FALSE,
          cancel |-> FALSE, did |-> NoTool, status |-> "streaming"]

Rows == [role : {"user", "assistant", "tool"}, stream : Streams \cup {NoStream},
         calls : 0 .. MaxCalls, call : 0 .. MaxCalls,
         status : Ended \cup {"streaming"}, text : BOOLEAN]

StreamOK(r) ==
    /\ r.pc \in Places /\ r.conv \in Conversations \cup {NoConversation}
    /\ r.engine \in Engines
    /\ r.mode \in Modes /\ r.role \in Roles
    /\ r.rounds \in 0 .. MaxRounds + 1
    /\ r.made \in 0 .. MaxCalls /\ r.handled \in 0 .. r.made
    /\ {r.stop, r.capped, r.wrote, r.cancel} \subseteq BOOLEAN
    /\ r.did \in Tools \cup {NoTool}
    /\ r.status \in Ended \cup {"streaming"}

TypeOK ==
    /\ DOMAIN stream = Streams /\ \A s \in Streams : StreamOK(stream[s])
    /\ permits \in 0 .. Slots
    /\ DOMAIN history = Conversations
    /\ \A c \in Conversations : \A i \in DOMAIN history[c] : history[c][i] \in Rows
    /\ alive \subseteq Conversations /\ torn \subseteq Conversations
    /\ cards \subseteq Calls /\ resumes \subseteq Calls
    /\ up \in BOOLEAN /\ faults \in 0 .. MaxFaults

Init ==
    /\ stream = [s \in Streams |-> Fresh]
    /\ permits = Slots
    /\ history = [c \in Conversations |-> <<>>]
    /\ alive = Conversations
    /\ cards = {} /\ resumes = {}
    /\ up = TRUE /\ faults = 0
    /\ torn = {}

-----------------------------------------------------------------------------
At(s, pc) == stream[s].pc = pc
Conv(s) == stream[s].conv
Goto(s, pc) == stream' = [stream EXCEPT ![s].pc = pc]

\* The outcome of the worker: its status, then _finalize.  What no one looks at
\* from here on is forgotten.
Conclude(s, status, wrote) ==
    stream' = [stream EXCEPT ![s] =
        [Fresh EXCEPT !.pc = "finishing", !.conv = Conv(s), !.made = stream[s].made,
                      !.handled = stream[s].handled, !.status = status,
                      !.wrote = stream[s].wrote \/ wrote]]

Fault == faults < MaxFaults /\ faults' = faults + 1

Append1(c, row) == history' = [history EXCEPT ![c] = Append(@, row)]

Chatting(c) == {s \in Streams : Conv(s) = c /\ stream[s].pc \in Held}

\* Slip: the exception is passed on without release.
DropPermit(s) == UNCHANGED permits

ReleasePermit(s) == permits' = permits + 1

-----------------------------------------------------------------------------
(* start_chat and start_insight, in the thread of a request.               *)

\* A generation gets a new id; which one that is makes no difference.
Unused == CHOOSE s \in Streams : At(s, "none")

\* Up to the row of the user's message.  Nothing asks whether a chat of this
\* conversation is already going on.
Begin(s, c) ==
    /\ up /\ permits > 0
    /\ At(s, "none") /\ s = Unused
    /\ permits' = permits - 1
    /\ \E set \in Settings :
          stream' = [stream EXCEPT ![s] = [Fresh EXCEPT !.pc = "preparing", !.conv = c,
                        !.mode = set.mode, !.role = set.role, !.engine = set.engine]]
    /\ torn' = IF Chatting(c) # {} THEN torn \cup {c} ELSE torn

StartChat(s, c) ==
    /\ c \in alive
    /\ Begin(s, c)
    /\ Append1(c, UserRow)
    /\ UNCHANGED <<alive, cards, resumes, up, faults>>

\* _ai_after_action: a decided card resumes the chat, without a message.
ResumeChat(s, k) ==
    /\ k \in resumes /\ Conv(k[1]) \in alive
    /\ Begin(s, Conv(k[1]))
    /\ resumes' = resumes \ {k}
    /\ UNCHANGED <<history, alive, cards, up, faults>>

\* All slots taken (429), or the conversation is gone (404): the decision
\* stands and the chat is not resumed.
ResumeRefused(k) ==
    /\ k \in resumes
    /\ permits = 0 \/ Conv(k[1]) \notin alive
    /\ resumes' = resumes \ {k}
    /\ UNCHANGED <<stream, permits, history, alive, cards, up, faults, torn>>

Register(s) ==
    /\ At(s, "preparing") /\ Conv(s) \in alive
    /\ Append1(Conv(s), AssistantRow(s))
    /\ Goto(s, "reading")
    /\ UNCHANGED <<permits, alive, cards, resumes, up, faults, torn>>

\* thread.start() stands after the try that gives the slot back: when no thread
\* can be created, the row and the stream are there and nobody works on them.
ThreadFails(s) ==
    /\ At(s, "preparing") /\ Conv(s) \in alive
    /\ Fault
    /\ Append1(Conv(s), AssistantRow(s))
    /\ Goto(s, "unstarted")
    /\ UNCHANGED <<permits, alive, cards, resumes, up, torn>>

\* A row cannot be inserted: the conversation is gone or the database fails.
StartFails(s) ==
    /\ At(s, "preparing")
    /\ \/ Conv(s) \notin alive /\ UNCHANGED faults
       \/ Conv(s) \in alive /\ Fault
    /\ ReleasePermit(s)
    /\ stream' = [stream EXCEPT ![s] = [Fresh EXCEPT !.pc = "ended"]]
    /\ UNCHANGED <<history, alive, cards, resumes, up, torn>>

StartInsight(s) ==
    /\ up /\ permits > 0
    /\ At(s, "none") /\ s = Unused
    /\ permits' = permits - 1
    /\ \E engine \in {"plain", "rules"} :
          stream' = [stream EXCEPT ![s] = [Fresh EXCEPT !.pc = "reading", !.engine = engine]]
    /\ UNCHANGED <<history, alive, cards, resumes, up, faults, torn>>

\* The same thread.start() of an insight.
InsightThreadFails(s) ==
    /\ up /\ permits > 0
    /\ At(s, "none") /\ s = Unused
    /\ Fault
    /\ permits' = permits - 1
    /\ Goto(s, "unstarted")
    /\ UNCHANGED <<history, alive, cards, resumes, up, torn>>

-----------------------------------------------------------------------------
(* The worker thread.                                                      *)

\* _run_traditional answers from the database.
AnswerByRules(s) ==
    /\ At(s, "reading") /\ stream[s].engine = "rules"
    /\ Conclude(s, "done", TRUE)
    /\ UNCHANGED <<permits, history, alive, cards, resumes, up, faults, torn>>

\* The request a stream is about to build.
Request(s) == HistoryMessages(ContextRows(history[Conv(s)], ContextLimit))

\* _run_plain and _insight_worker ask once, _run_chat begins its rounds.
ReadHistory(s) ==
    /\ At(s, "reading")
    /\ \/ /\ stream[s].engine = "plain"
          /\ stream' = [stream EXCEPT ![s].pc = "asking", ![s].rounds = 1]
       \/ /\ stream[s].engine = "tools"
          /\ Goto(s, "round")
    /\ UNCHANGED <<permits, history, alive, cards, resumes, up, faults, torn>>

\* Slip: one round too many.
CapsLate(s) == {TRUE} \cup IF stream[s].rounds > MaxRounds THEN {} ELSE {FALSE}

\* The limit of rounds, or the deadline, which any round may find passed.
Caps(s) ==
    IF stream[s].capped \/ stream[s].rounds >= MaxRounds THEN {TRUE} ELSE BOOLEAN

BeginRound(s) ==
    /\ At(s, "round")
    /\ ~stream[s].cancel
    /\ \E capped \in Caps(s) :
          stream' = [stream EXCEPT ![s].pc = "asking", ![s].rounds = @ + 1,
                                   ![s].capped = capped]
    /\ UNCHANGED <<permits, history, alive, cards, resumes, up, faults, torn>>

StopCanceled(s) ==
    /\ At(s, "round")
    /\ stream[s].cancel
    /\ Conclude(s, "canceled", FALSE)
    /\ UNCHANGED <<permits, history, alive, cards, resumes, up, faults, torn>>

\* The model answers; after the cap its calls are not looked at.
Answer(s) ==
    /\ At(s, "asking")
    /\ Conclude(s, "done", TRUE)
    /\ UNCHANGED <<permits, history, alive, cards, resumes, up, faults, torn>>

AnswerWithCalls(s) ==
    /\ At(s, "asking")
    /\ stream[s].engine = "tools" /\ ~stream[s].capped
    /\ \E n \in 1 .. CallsPerRound :
          stream' = [stream EXCEPT ![s].pc = "handling", ![s].made = @ + n]
    /\ UNCHANGED <<permits, history, alive, cards, resumes, up, faults, torn>>

\* AiClientError: canceled; or of a kind the rules engine may stand in for,
\* as long as nothing was written; or a failure.
ClientFails(s) ==
    /\ At(s, "asking")
    /\ \E wrote, canFallBack \in BOOLEAN :
          LET nothing == ~stream[s].wrote /\ ~wrote
          IN  Conclude(s, CASE stream[s].cancel -> "canceled"
                            [] ~stream[s].cancel /\ canFallBack /\ nothing -> "done"
                            [] OTHER -> "failed",
                       wrote \/ (canFallBack /\ ~stream[s].cancel))
    /\ UNCHANGED <<permits, history, alive, cards, resumes, up, faults, torn>>

\* Slip: the exception of a failing insert is swallowed and the call is tried again.
RetriesCall(s, t) ==
    /\ stream' = [stream EXCEPT ![s].did = t]
    /\ UNCHANGED history

\* add_ai_message fails: the tool has run, the worker ends the stream.
CallRaises(s, t) ==
    /\ stream' = [stream EXCEPT ![s].did = t, ![s].pc = "finishing", ![s].status = "failed"]
    /\ UNCHANGED history

\* One call of the round, in the order of the calls: the tool runs, or not,
\* and its row is inserted.
HandleCall(s, t) ==
    /\ At(s, "handling")
    /\ stream[s].handled < stream[s].made
    /\ \E outcome \in Outcomes(stream[s].mode, stream[s].role, t) :
          LET did == IF outcome \in {"result", "run"} THEN t ELSE NoTool
          IN  IF Conv(s) \in alive
              THEN /\ Append1(Conv(s), ToolRow(s, stream[s].handled + 1))
                   /\ stream' = [stream EXCEPT
                         ![s].did = did, ![s].handled = @ + 1,
                         ![s].pc = IF outcome = "confirm" THEN "submitting" ELSE @]
              ELSE CallRaises(s, did)
    /\ UNCHANGED <<permits, alive, cards, resumes, up, faults, torn>>

\* Slip: the round goes on after the card.
SubmitAndGoOn(s) ==
    /\ At(s, "submitting") /\ Conv(s) \in alive
    /\ cards' = cards \cup {<<s, stream[s].handled>>}
    /\ stream' = [stream EXCEPT ![s].pc = "handling", ![s].wrote = TRUE]
    /\ UNCHANGED <<permits, history, alive, resumes, up, faults, torn>>

\* add_ai_action: from here on the page shows the card.
SubmitCard(s) ==
    /\ At(s, "submitting") /\ Conv(s) \in alive
    /\ cards' = cards \cup {<<s, stream[s].handled>>}
    /\ stream' = [stream EXCEPT ![s].pc = "handling", ![s].stop = TRUE,
                             ![s].wrote = TRUE, ![s].did = NoTool]
    /\ UNCHANGED <<permits, history, alive, resumes, up, faults, torn>>

\* A row cannot be inserted, or the card of a deleted conversation.
WorkerRaises(s) ==
    /\ \/ At(s, "submitting") /\ Conv(s) \notin alive /\ UNCHANGED faults
       \/ stream[s].pc \in {"handling", "submitting"} /\ Fault
    /\ Conclude(s, "failed", FALSE)
    /\ UNCHANGED <<permits, history, alive, cards, resumes, up, torn>>

RoundEnds(s) ==
    /\ At(s, "handling")
    /\ stream[s].handled = stream[s].made
    /\ IF stream[s].stop THEN Conclude(s, "done", FALSE)
       ELSE stream' = [stream EXCEPT ![s].pc = "round", ![s].did = NoTool]
    /\ UNCHANGED <<permits, history, alive, cards, resumes, up, faults, torn>>

\* The row of the answer: an UPDATE, without effect once the row is gone.
StoredAnswer(s) ==
    [i \in DOMAIN history[Conv(s)] |->
        LET row == history[Conv(s)][i]
        IN  IF row.role = "assistant" /\ row.stream = s
            THEN [row EXCEPT !.status = stream[s].status, !.calls = stream[s].made,
                             !.text = stream[s].wrote]
            ELSE row]

\* _finalize: finish_ai_message, or the row of ai_insights.
Finalize(s) ==
    /\ At(s, "finishing")
    /\ history' = IF Conv(s) \in alive THEN [history EXCEPT ![Conv(s)] = StoredAnswer(s)]
                                       ELSE history
    /\ Goto(s, "closing")
    /\ UNCHANGED <<permits, alive, cards, resumes, up, faults, torn>>

\* A database error is printed and the stream ends all the same.
FinalizeFails(s) ==
    /\ At(s, "finishing")
    /\ Fault
    /\ torn' = torn \cup ({Conv(s)} \cap Conversations)
    /\ Goto(s, "closing")
    /\ UNCHANGED <<permits, history, alive, cards, resumes, up>>

\* stream.finish, then the semaphore.
Close(s) ==
    /\ At(s, "closing")
    /\ ReleasePermit(s)
    /\ stream' = [stream EXCEPT ![s] = [Fresh EXCEPT !.pc = "ended", !.conv = Conv(s)]]
    /\ UNCHANGED <<history, alive, cards, resumes, up, faults, torn>>

-----------------------------------------------------------------------------
(* Requests of users, crash and restart.                                   *)

\* A cancel that nobody reads any more, or ever, is left out.
Cancel(s) ==
    /\ stream[s].pc \in Running \ {"finishing", "closing"}
    /\ ~stream[s].cancel
    /\ stream' = [stream EXCEPT ![s].cancel = TRUE]
    /\ UNCHANGED <<permits, history, alive, cards, resumes, up, faults, torn>>

\* Approved or rejected: the row of the call gets its result.
DecideCard(k) ==
    /\ up
    /\ k \in cards
    /\ cards' = cards \ {k}
    /\ resumes' = resumes \cup {k}
    /\ UNCHANGED <<stream, permits, history, alive, up, faults, torn>>

ExpireCard(k) ==
    /\ up
    /\ k \in cards
    /\ cards' = cards \ {k}
    /\ UNCHANGED <<stream, permits, history, alive, resumes, up, faults, torn>>

DeleteConversation(c) ==
    /\ up
    /\ c \in alive
    /\ alive' = alive \ {c}
    /\ history' = [history EXCEPT ![c] = <<>>]
    /\ cards' = {k \in cards : Conv(k[1]) # c}
    /\ UNCHANGED <<stream, permits, resumes, up, faults, torn>>

Crash ==
    /\ up /\ Fault
    /\ up' = FALSE
    /\ stream' = [s \in Streams |-> IF stream[s].pc \in Occupied
                                    THEN [Fresh EXCEPT !.pc = "dead", !.conv = Conv(s)]
                                    ELSE stream[s]]
    /\ permits' = Slots
    /\ resumes' = {}
    /\ torn' = torn \cup {c \in Conversations : Chatting(c) # {}}
    /\ UNCHANGED <<history, alive, cards>>

\* Slip: recovery is left out.
StartsUnrecovered == history

\* fail_stale_streaming_messages.
FailStale ==
    [c \in Conversations |->
        [i \in DOMAIN history[c] |->
            [history[c][i] EXCEPT !.status = IF @ = "streaming" THEN "failed" ELSE @]]]

Restart ==
    /\ ~up
    /\ up' = TRUE
    /\ history' = FailStale
    /\ UNCHANGED <<stream, permits, alive, cards, resumes, faults, torn>>

-----------------------------------------------------------------------------
WorkerStep(s) ==
    \/ Register(s) \/ ThreadFails(s) \/ StartFails(s)
    \/ AnswerByRules(s) \/ ReadHistory(s)
    \/ BeginRound(s) \/ StopCanceled(s)
    \/ Answer(s) \/ AnswerWithCalls(s) \/ ClientFails(s)
    \/ \E t \in Tools : HandleCall(s, t)
    \/ SubmitCard(s) \/ WorkerRaises(s)
    \/ RoundEnds(s)
    \/ Finalize(s) \/ FinalizeFails(s) \/ Close(s)

Next ==
    \/ \E s \in Streams : WorkerStep(s) \/ Cancel(s)
    \/ \E s \in Streams : StartInsight(s) \/ InsightThreadFails(s)
    \/ \E s \in Streams, c \in Conversations : StartChat(s, c)
    \/ \E s \in Streams, k \in resumes : ResumeChat(s, k)
    \/ \E k \in resumes : ResumeRefused(k)
    \/ \E k \in cards : DecideCard(k) \/ ExpireCard(k)
    \/ \E c \in Conversations : DeleteConversation(c)
    \/ Crash
    \/ Restart

Spec == Init /\ [][Next]_vars

\* A worker is a thread; the calls of the model service and of the tools have
\* timeouts, so that each of its steps comes.
FairSpec == Spec /\ \A s \in Streams : WF_vars(WorkerStep(s))

-----------------------------------------------------------------------------
(* Properties.                                                             *)

\* A slot that is not free is held by a start or a thread under way, which
\* gives it back once whichever way it goes wrong, or by a stream whose thread
\* could not be created; a restart frees them all.
SlotsAreAccounted ==
    permits + Cardinality({s \in Streams : stream[s].pc \in Occupied}) = Slots

\* A message that is being written has a thread that writes it, also after a
\* restart; only a failing database, or a thread that could not be created,
\* leaves one behind until then.
StreamingIsWritten ==
    \A c \in Conversations : \A i \in DOMAIN history[c] :
        up /\ history[c][i].status = "streaming" =>
            \/ stream[history[c][i].stream].pc \in Occupied
            \/ c \in torn /\ At(history[c][i].stream, "ended")

\* What changes a system never runs on the word of the model alone, unless the
\* user chose full access for this chat and the operation is not one of those
\* that always ask; nothing reserved to administrators runs for others; under
\* limited access not even a query runs.
NothingRunsUnasked ==
    \A s \in Streams : stream[s].did # NoTool =>
        /\ stream[s].mode # "limited"
        /\ LevelOf(stream[s].did) = "action" =>
              stream[s].mode = "full" /\ stream[s].did \notin {"upsert_server", "import_discovered_services"}
        /\ stream[s].did \in AdminOnly => stream[s].role = "admin"

\* Once a card is shown, the stream does not ask the model again: the chat goes
\* on by the user's decision.
CardInterruptsChat ==
    [][\A s \in Streams : (\E k \in cards : k[1] = s) => stream'[s].rounds \in {0, stream[s].rounds}]_vars

\* A chat whose predecessor ended normally sends a history the model service
\* accepts, however it was cut to the context limit.
OrderlyRequestIsWellFormed ==
    \A s \in Streams : At(s, "reading") /\ Conv(s) \in alive \ torn => WellFormed(Request(s))

\* Every generation whose thread was started ends: models that call tools for
\* ever, a cancel at any moment, a conversation deleted under it.  (None is used
\* twice, so that this is to say that there is always a time when none runs.)
EveryStreamEnds == []<>(\A s \in Streams : stream[s].pc \notin Running)

\* "Results without their call make the model service fail": no request holds
\* any.
RequestIsWellFormed ==
    \A s \in Streams : At(s, "reading") /\ Conv(s) \in alive => WellFormed(Request(s))

\* Not true of the code: every slot taken comes back.  That of a stream whose
\* thread could not be created does not, until a restart.
EverySlotComesBack ==
    \A s \in Streams : stream[s].pc \in Occupied ~> stream[s].pc \notin Occupied
=============================================================================
