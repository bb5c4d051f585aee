------------------------------ MODULE AiActions ------------------------------
(***************************************************************************)
(* Confirmation cards of the AI assistant: a row of ai_actions waits for a *)
(* user, request threads approve or reject it, maintenance expires it, and *)
(* the tool message the card hangs on (message_id) is given the outcome    *)
(* (ai_service.py, models.py).                                             *)
(*                                                                         *)
(* Every database statement is an action of its own, so several users, a   *)
(* double click, expiry and deletion interleave with each other between    *)
(* any two statements of approve_action and reject_action.                 *)
(***************************************************************************)
EXTENDS Naturals, FiniteSets

CONSTANTS
    Cards,      \* confirmation cards, each in a conversation of its own
    Threads,    \* request threads
    NoCard,     \* what an idle thread works on
    MaxAborts   \* bound: threads that end in the middle (error or crash)

ASSUME CardsAssumption == MaxAborts \in Nat /\ NoCard \notin Cards

VARIABLES
    status,     \* status[c]: status of the row in ai_actions
    note,       \* note[c]: what the tool message of the card says
    overdue,    \* overdue[c]: expires_at of the card has passed
    executions, \* executions[c]: how often its executor was started
    submitting, \* cards whose tool message exists and whose row does not yet
    thread,     \* thread[t]: where a request thread is, its card, its outcome
    aborts      \* threads that ended in the middle so far

vars == <<status, note, overdue, executions, submitting, thread, aborts>>

Final == {"executed", "failed", "rejected", "expired"}
Gone == {"absent", "deleted"}

\* Where a request is: nowhere, past reading the card (approve, reject), past
\* the expiry check, past the claim, past the executor, past the status write.
Places == {"idle", "approving", "rejecting", "claiming", "executing",
           "finishing", "noting"}

IdleThread == [pc |-> "idle", card |-> NoCard, outcome |-> "failed"]

ThreadsOK ==
    /\ thread \in [Threads -> [pc : Places, card : Cards \cup {NoCard},
                               outcome : Final]]
    /\ \A t \in Threads : thread[t].pc = "idle" <=> thread[t].card = NoCard

TypeOK ==
    /\ status \in [Cards -> Gone \cup {"pending", "approved"} \cup Final]
    /\ note \in [Cards -> Gone \cup {"pending"} \cup Final]
    /\ overdue \in [Cards -> BOOLEAN]
    /\ executions \in [Cards -> Nat]
    /\ submitting \subseteq Cards
    /\ ThreadsOK
    /\ aborts \in 0 .. MaxAborts

Init ==
    /\ status = [c \in Cards |-> "absent"]
    /\ note = [c \in Cards |-> "absent"]
    /\ overdue = [c \in Cards |-> FALSE]
    /\ executions = [c \in Cards |-> 0]
    /\ submitting = {}
    /\ thread = [t \in Threads |-> IdleThread]
    /\ aborts = 0

-----------------------------------------------------------------------------
(* The chat thread: _submit_confirmation.                                  *)

SubmitMessage(c) ==
    /\ note[c] = "absent"
    /\ note' = [note EXCEPT ![c] = "pending"]
    /\ submitting' = submitting \cup {c}
    /\ UNCHANGED <<status, overdue, executions, thread, aborts>>

SubmitCard(c) ==
    /\ c \in submitting
    /\ status' = [status EXCEPT ![c] = "pending"]
    /\ submitting' = submitting \ {c}
    /\ UNCHANGED <<note, overdue, executions, thread, aborts>>

-----------------------------------------------------------------------------
(* Request threads.                                                        *)

At(t, pc) == thread[t].pc = pc
Card(t) == thread[t].card
Goto(t, pc) == thread' = [thread EXCEPT ![t].pc = pc]
Return(t) == thread' = [thread EXCEPT ![t] = IdleThread]

\* UPDATE ... WHERE id=?: no effect once the row is deleted.
SetStatus(c, s) ==
    status' = [status EXCEPT ![c] = IF @ = "deleted" THEN @ ELSE s]

\* get_ai_action and the test of its status.  A request for a card that is not
\* pending returns without effect and is not modelled.
ReadPending(t, c, pc) ==
    /\ At(t, "idle")
    /\ status[c] = "pending"
    /\ thread' = [thread EXCEPT ![t] = [IdleThread EXCEPT !.pc = pc, !.card = c]]
    /\ UNCHANGED <<status, note, overdue, executions, submitting, aborts>>

Approve(t, c) == ReadPending(t, c, "approving")
Reject(t, c) == ReadPending(t, c, "rejecting")

\* approve_action of a card that has expired: the status is written without
\* asking whether the card is still pending.
ApproveTooLate(t) ==
    /\ At(t, "approving")
    /\ overdue[Card(t)]
    /\ SetStatus(Card(t), "expired")
    /\ thread' = [thread EXCEPT ![t].pc = "noting", ![t].outcome = "expired"]
    /\ UNCHANGED <<note, overdue, executions, submitting, aborts>>

ApproveInTime(t) ==
    /\ At(t, "approving")
    /\ ~overdue[Card(t)]
    /\ Goto(t, "claiming")
    /\ UNCHANGED <<status, note, overdue, executions, submitting, aborts>>

\* Slip: the claim does not ask for the status.
ClaimableWhileApproved(c) == status[c] \in {"pending", "approved"}

\* Slip: a card that has expired since it was read can still be claimed.
ClaimableThoughExpired(c) == status[c] \in {"pending", "expired"}

\* claim_ai_action: UPDATE ... WHERE id=? AND status='pending'.
Claimable(c) == status[c] = "pending"

ClaimToExecute(t) ==
    /\ At(t, "claiming")
    /\ Claimable(Card(t))
    /\ SetStatus(Card(t), "approved")
    /\ Goto(t, "executing")
    /\ UNCHANGED <<note, overdue, executions, submitting, aborts>>

\* Slip: a rejection does not claim the card first.
RejectUnclaimed(t) ==
    /\ At(t, "rejecting")
    /\ thread' = [thread EXCEPT ![t].pc = "finishing", ![t].outcome = "rejected"]
    /\ UNCHANGED <<status, note, overdue, executions, submitting, aborts>>

\* Slip: a rejection claims the card and forgets finish_ai_action.
RejectOnlyClaims(t) ==
    /\ At(t, "rejecting")
    /\ Claimable(Card(t))
    /\ SetStatus(Card(t), "approved")
    /\ thread' = [thread EXCEPT ![t].pc = "noting", ![t].outcome = "rejected"]
    /\ UNCHANGED <<note, overdue, executions, submitting, aborts>>

ClaimToReject(t) ==
    /\ At(t, "rejecting")
    /\ Claimable(Card(t))
    /\ SetStatus(Card(t), "approved")
    /\ thread' = [thread EXCEPT ![t].pc = "finishing", ![t].outcome = "rejected"]
    /\ UNCHANGED <<note, overdue, executions, submitting, aborts>>

ClaimLost(t) ==
    /\ thread[t].pc \in {"claiming", "rejecting"}
    /\ ~Claimable(Card(t))
    /\ Return(t)
    /\ UNCHANGED <<status, note, overdue, executions, submitting, aborts>>

\* The executor (or the read tool) runs and reports success or failure.
Execute(t) ==
    /\ At(t, "executing")
    /\ executions' = [executions EXCEPT ![Card(t)] = @ + 1]
    /\ \E outcome \in {"executed", "failed"} :
          thread' = [thread EXCEPT ![t].pc = "finishing", ![t].outcome = outcome]
    /\ UNCHANGED <<status, note, overdue, submitting, aborts>>

\* Slip: a missing executor is reported as success.
NoExecutorSucceeds(t) ==
    /\ At(t, "executing")
    /\ thread' = [thread EXCEPT ![t].pc = "finishing", ![t].outcome = "executed"]
    /\ UNCHANGED <<status, note, overdue, executions, submitting, aborts>>

NoExecutor(t) ==
    /\ At(t, "executing")
    /\ thread' = [thread EXCEPT ![t].pc = "finishing", ![t].outcome = "failed"]
    /\ UNCHANGED <<status, note, overdue, executions, submitting, aborts>>

FinishAction(t) ==
    /\ At(t, "finishing")
    /\ SetStatus(Card(t), thread[t].outcome)
    /\ Goto(t, "noting")
    /\ UNCHANGED <<note, overdue, executions, submitting, aborts>>

WriteActionResult(t) ==
    /\ At(t, "noting")
    /\ note' = [note EXCEPT ![Card(t)] =
                   IF @ = "deleted" THEN @ ELSE thread[t].outcome]
    /\ Return(t)
    /\ UNCHANGED <<status, overdue, executions, submitting, aborts>>

-----------------------------------------------------------------------------
(* Time, maintenance, deletion, failure.                                   *)

BecomeOverdue(c) ==
    /\ status[c] \notin Gone
    /\ ~overdue[c]
    /\ overdue' = [overdue EXCEPT ![c] = TRUE]
    /\ UNCHANGED <<status, note, executions, submitting, thread, aborts>>

\* Slip: the comparison of expires_at with the time is the wrong way round.
ExpirableTooEarly(c) == status[c] = "pending" /\ ~overdue[c]

Expirable(c) == status[c] = "pending" /\ overdue[c]

\* expire_ai_actions, from run_maintenance, recover_on_startup, list_actions
\* and pending_actions: one UPDATE; the tool messages are not written.
ExpireActions ==
    /\ \E c \in Cards : Expirable(c)
    /\ status' = [c \in Cards |-> IF Expirable(c) THEN "expired" ELSE status[c]]
    /\ UNCHANGED <<note, overdue, executions, submitting, thread, aborts>>

\* delete_ai_conversation (also prune_ai_history) removes messages and cards
\* in one transaction; request threads that have read them go on, the insert
\* of a card into a conversation that is gone fails on its foreign key.
DeleteConversation(c) ==
    /\ note[c] \notin Gone
    /\ status' = [status EXCEPT ![c] = "deleted"]
    /\ note' = [note EXCEPT ![c] = "deleted"]
    /\ submitting' = submitting \ {c}
    /\ UNCHANGED <<overdue, executions, thread, aborts>>

\* A request thread ends: a database call raised, or the process died (then
\* every thread ends, and start-up runs ExpireActions).
AbortRequest(t) ==
    /\ ~At(t, "idle")
    /\ aborts < MaxAborts
    /\ aborts' = aborts + 1
    /\ Return(t)
    /\ UNCHANGED <<status, note, overdue, executions, submitting>>

AbortSubmit(c) ==
    /\ c \in submitting
    /\ aborts < MaxAborts
    /\ aborts' = aborts + 1
    /\ submitting' = submitting \ {c}
    /\ UNCHANGED <<status, note, overdue, executions, thread>>

-----------------------------------------------------------------------------
RequestStep(t) ==
    \/ ApproveTooLate(t)
    \/ ApproveInTime(t)
    \/ ClaimToExecute(t)
    \/ ClaimToReject(t)
    \/ ClaimLost(t)
    \/ Execute(t)
    \/ NoExecutor(t)
    \/ FinishAction(t)
    \/ WriteActionResult(t)

Next ==
    \/ \E c \in Cards : SubmitMessage(c)
    \/ \E c \in Cards : SubmitCard(c)
    \/ \E c \in Cards : BecomeOverdue(c)
    \/ \E c \in Cards : DeleteConversation(c)
    \/ \E c \in Cards : AbortSubmit(c)
    \/ \E t \in Threads, c \in Cards : Approve(t, c)
    \/ \E t \in Threads, c \in Cards : Reject(t, c)
    \/ \E t \in Threads : RequestStep(t)
    \/ \E t \in Threads : AbortRequest(t)
    \/ ExpireActions

Spec == Init /\ [][Next]_vars

\* Threads run, time passes and the scheduler calls run_maintenance for ever;
\* no user has to answer and nobody has to delete.
Fairness ==
    /\ \A t \in Threads : WF_vars(RequestStep(t))
    /\ \A c \in Cards : WF_vars(SubmitCard(c)) /\ WF_vars(BecomeOverdue(c))
    /\ WF_vars(ExpireActions)

FairSpec == Spec /\ Fairness

-----------------------------------------------------------------------------
(* Properties.                                                             *)

\* However many users click however often, an executor is started at most
\* once for a card ("a repeated confirmation does not execute twice").
AtMostOnce == \A c \in Cards : executions[c] <= 1

\* The user was told that the operation was refused, or the card says so: then
\* its executor was never started and never will be, also when a colleague
\* approves the same card at the same time.
RefusedIsNotExecuted ==
    \A c \in Cards : "rejected" \in {status[c], note[c]} => executions[c] = 0

\* A card or a tool message that reports success belongs to an operation that
\* was carried out, exactly once.
SuccessWasExecuted ==
    \A c \in Cards : "executed" \in {status[c], note[c]} => executions[c] = 1

\* The thread has claimed the card and has not reported yet.
Past(t, c) ==
    /\ Card(t) = c
    /\ \/ thread[t].pc \in {"executing", "finishing"}
       \/ thread[t].pc = "noting" /\ thread[t].outcome # "expired"

\* Once a card has expired nobody sets out to execute or to reject it, also a
\* request that had read it as pending and found it in time before maintenance
\* let it expire (claim_ai_action against expire_ai_actions).
ExpiredIsNotTakenUp ==
    [][\A c \in Cards, t \in Threads :
        status[c] = "expired" /\ ~Past(t, c) => ~Past(t, c)']_vars

\* A card that has left "pending" is never offered again.
NeverPendingAgain ==
    [][\A c \in Cards : status'[c] = "pending" => status[c] \in {"absent", "pending"}]_vars

\* Every card is decided or expires.
PendingIsDecided == \A c \in Cards : status[c] = "pending" ~> status[c] # "pending"

\* A confirmed operation ends in a result, as long as no thread is cut short.
ApprovedIsSettled ==
    \A c \in Cards : status[c] = "approved" /\ aborts = 0 ~>
                      status[c] # "approved" \/ aborts > 0

\* The inductive invariant behind the safety properties.
\* A card nobody has claimed was not executed and nobody reports on it.
UnclaimedIsFresh ==
    \A c \in Cards : status[c] \in {"absent", "pending"} =>
        /\ executions[c] = 0
        /\ note[c] \in {"absent", "pending", "expired"}
        /\ \A t \in Threads : ~Past(t, c)

\* No request works on a card before it is submitted, which happens once.
SubmittedOnce ==
    /\ \A c \in submitting : status[c] = "absent" /\ note[c] # "absent"
    /\ \A c \in Cards : note[c] = "absent" => status[c] = "absent"
    /\ \A t \in Threads, c \in Cards : Card(t) = c => status[c] # "absent"

\* The claim is exclusive.
OneClaim ==
    \A s, t \in Threads, c \in Cards : Past(s, c) /\ Past(t, c) => s = t

\* What a thread is about to report is what happened, and until then the card
\* and its message say nothing else of it.
ClaimIsHonest ==
    \A t \in Threads, c \in Cards : Past(t, c) =>
        /\ At(t, "executing") => executions[c] = 0
        /\ thread[t].outcome = "rejected" => executions[c] = 0
        /\ At(t, "executing") \/ thread[t].outcome # "executed" \/ executions[c] = 1
        /\ At(t, "noting") \/ status[c] \in {"approved", "expired", "deleted"}
        /\ note[c] \in {"absent", "pending", "expired", "deleted"}

IInv ==
    /\ TypeOK
    /\ AtMostOnce
    /\ RefusedIsNotExecuted
    /\ SuccessWasExecuted
    /\ SubmittedOnce
    /\ UnclaimedIsFresh
    /\ OneClaim
    /\ ClaimIsHonest

\* A card is marked "expired" (and its message says "not executed") only when
\* the operation was not executed.
ExpiredWasNotExecuted ==
    \A c \in Cards : status[c] = "expired" => executions[c] = 0

\* Confirmation, rejection and expiry all fill in the tool message.
OutcomeIsWrittenBack ==
    \A c \in Cards : status[c] \in Final ~> note[c] # "pending"
=============================================================================
