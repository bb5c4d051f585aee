--------------------------- MODULE AiActionsProofs ---------------------------
(***************************************************************************)
(* Theorems about the confirmation cards of AiActions, for any number of   *)
(* cards and request threads.  The invariants AtMostOnce,                  *)
(* RefusedIsNotExecuted and SuccessWasExecuted are not inductive: that an  *)
(* executor is not started again rests on OneClaim (at most one thread is  *)
(* past the claim of a card) and UnclaimedIsFresh (none is while the card  *)
(* is still pending), and what is reported rests on ClaimIsHonest.         *)
(***************************************************************************)
EXTENDS AiActions, TLAPS

\* The empty table satisfies the inductive invariant.
LEMMA InitImpliesInv == Init => IInv
  BY CardsAssumption
  DEF Init, IInv, TypeOK, ThreadsOK, AtMostOnce, RefusedIsNotExecuted, SuccessWasExecuted,
      SubmittedOnce, UnclaimedIsFresh, OneClaim, ClaimIsHonest, Past, At, Card,
      IdleThread, Gone, Final, Places

\* A thread that goes on with an outcome to report keeps its card.
LEMMA ThreadReports ==
  ASSUME ThreadsOK, NEW t \in Threads, thread[t].pc # "idle",
         NEW pc \in Places \ {"idle"}, NEW o \in Final,
         thread' = [thread EXCEPT ![t].pc = pc, ![t].outcome = o]
  PROVE  ThreadsOK'
<1>1. ASSUME NEW s \in Threads
      PROVE  /\ thread'[s] \in [pc : Places, card : Cards \cup {NoCard},
                               outcome : Final]
             /\ thread'[s].pc = "idle" <=> thread'[s].card = NoCard
  <2>1. thread[s] \in [pc : Places, card : Cards \cup {NoCard}, outcome : Final]
    BY DEF ThreadsOK
  <2>2. CASE s = t
    BY <2>1, <2>2 DEF ThreadsOK, Places
  <2>3. CASE s # t
    BY <2>1, <2>3 DEF ThreadsOK
  <2> QED BY <2>2, <2>3
<1>2. thread' = [s \in Threads |-> thread'[s]]
  BY DEF ThreadsOK
<1> QED BY <1>1, <1>2 DEF ThreadsOK

\* Every statement of every thread, maintenance, deletion and every failure
\* preserves the inductive invariant.
LEMMA StepPreservesInv == IInv /\ [Next]_vars => IInv'
<1> SUFFICES ASSUME IInv, [Next]_vars PROVE IInv'
  OBVIOUS
<1> USE CardsAssumption
<1>1. ASSUME NEW c \in Cards, SubmitMessage(c) PROVE IInv'
  <2>1. TypeOK'
    BY <1>1 DEF IInv, TypeOK, ThreadsOK, Places, SubmitMessage, At, Card,
       Gone, Final
  <2>2. AtMostOnce'
    BY <1>1 DEF IInv, TypeOK, ThreadsOK, AtMostOnce, ClaimIsHonest, Past,
       SubmitMessage, At, Card, Gone, Final
  <2>3. RefusedIsNotExecuted'
    BY <1>1 DEF IInv, TypeOK, ThreadsOK, RefusedIsNotExecuted, ClaimIsHonest,
       UnclaimedIsFresh, Past, SubmitMessage, At, Card, Gone, Final
  <2>4. SuccessWasExecuted'
    BY <1>1 DEF IInv, TypeOK, ThreadsOK, SuccessWasExecuted, ClaimIsHonest,
       UnclaimedIsFresh, Past, SubmitMessage, At, Card, Gone, Final
  <2>5. SubmittedOnce'
    BY <1>1 DEF IInv, TypeOK, ThreadsOK, SubmittedOnce, SubmitMessage, At,
       Card, Gone, Final
  <2>6. UnclaimedIsFresh'
    BY <1>1 DEF IInv, TypeOK, ThreadsOK, UnclaimedIsFresh, SubmittedOnce,
       Past, SubmitMessage, At, Card, Gone, Final
  <2>7. OneClaim'
    BY <1>1 DEF IInv, TypeOK, ThreadsOK, OneClaim, UnclaimedIsFresh, Past,
       SubmitMessage, At, Card, Gone, Final
  <2>8. ClaimIsHonest'
    BY <1>1 DEF IInv, TypeOK, ThreadsOK, ClaimIsHonest, OneClaim,
       UnclaimedIsFresh, Past, SubmittedOnce, SubmitMessage, At, Card, Gone,
       Final
  <2> QED BY <2>1, <2>2, <2>3, <2>4, <2>5, <2>6, <2>7, <2>8 DEF IInv
<1>2. ASSUME NEW c \in Cards, SubmitCard(c) PROVE IInv'
  <2>1. TypeOK'
    BY <1>2 DEF IInv, TypeOK, ThreadsOK, Places, SubmitCard, At, Card, Gone,
       Final
  <2>2. AtMostOnce'
    BY <1>2 DEF IInv, TypeOK, ThreadsOK, AtMostOnce, ClaimIsHonest, Past,
       SubmitCard, At, Card, Gone, Final
  <2>3. RefusedIsNotExecuted'
    BY <1>2 DEF IInv, TypeOK, ThreadsOK, RefusedIsNotExecuted, ClaimIsHonest,
       UnclaimedIsFresh, Past, SubmitCard, At, Card, Gone, Final
  <2>4. SuccessWasExecuted'
    BY <1>2 DEF IInv, TypeOK, ThreadsOK, SuccessWasExecuted, ClaimIsHonest,
       UnclaimedIsFresh, Past, SubmitCard, At, Card, Gone, Final
  <2>5. SubmittedOnce'
    BY <1>2 DEF IInv, TypeOK, ThreadsOK, SubmittedOnce, SubmitCard, At, Card,
       Gone, Final
  <2>6. UnclaimedIsFresh'
    BY <1>2 DEF IInv, TypeOK, ThreadsOK, UnclaimedIsFresh, SubmittedOnce,
       Past, SubmitCard, At, Card, Gone, Final
  <2>7. OneClaim'
    BY <1>2 DEF IInv, TypeOK, ThreadsOK, OneClaim, UnclaimedIsFresh, Past,
       SubmitCard, At, Card, Gone, Final
  <2>8. ClaimIsHonest'
    BY <1>2 DEF IInv, TypeOK, ThreadsOK, ClaimIsHonest, OneClaim,
       UnclaimedIsFresh, Past, SubmittedOnce, SubmitCard, At, Card, Gone,
       Final
  <2> QED BY <2>1, <2>2, <2>3, <2>4, <2>5, <2>6, <2>7, <2>8 DEF IInv
<1>3. ASSUME NEW c \in Cards, BecomeOverdue(c) PROVE IInv'
  <2>1. TypeOK'
    BY <1>3 DEF IInv, TypeOK, ThreadsOK, Places, BecomeOverdue, At, Card,
       Gone, Final
  <2>2. AtMostOnce'
    BY <1>3 DEF IInv, TypeOK, ThreadsOK, AtMostOnce, ClaimIsHonest, Past,
       BecomeOverdue, At, Card, Gone, Final
  <2>3. RefusedIsNotExecuted'
    BY <1>3 DEF IInv, TypeOK, ThreadsOK, RefusedIsNotExecuted, ClaimIsHonest,
       UnclaimedIsFresh, Past, BecomeOverdue, At, Card, Gone, Final
  <2>4. SuccessWasExecuted'
    BY <1>3 DEF IInv, TypeOK, ThreadsOK, SuccessWasExecuted, ClaimIsHonest,
       UnclaimedIsFresh, Past, BecomeOverdue, At, Card, Gone, Final
  <2>5. SubmittedOnce'
    BY <1>3 DEF IInv, TypeOK, ThreadsOK, SubmittedOnce, BecomeOverdue, At,
       Card, Gone, Final
  <2>6. UnclaimedIsFresh'
    BY <1>3 DEF IInv, TypeOK, ThreadsOK, UnclaimedIsFresh, SubmittedOnce,
       Past, BecomeOverdue, At, Card, Gone, Final
  <2>7. OneClaim'
    BY <1>3 DEF IInv, TypeOK, ThreadsOK, OneClaim, UnclaimedIsFresh, Past,
       BecomeOverdue, At, Card, Gone, Final
  <2>8. ClaimIsHonest'
    BY <1>3 DEF IInv, TypeOK, ThreadsOK, ClaimIsHonest, OneClaim,
       UnclaimedIsFresh, Past, SubmittedOnce, BecomeOverdue, At, Card, Gone,
       Final
  <2> QED BY <2>1, <2>2, <2>3, <2>4, <2>5, <2>6, <2>7, <2>8 DEF IInv
<1>4. ASSUME NEW c \in Cards, DeleteConversation(c) PROVE IInv'
  <2>1. TypeOK'
    BY <1>4 DEF IInv, TypeOK, ThreadsOK, Places, DeleteConversation, At, Card,
       Gone, Final
  <2>2. AtMostOnce'
    BY <1>4 DEF IInv, TypeOK, ThreadsOK, AtMostOnce, ClaimIsHonest, Past,
       DeleteConversation, At, Card, Gone, Final
  <2>3. RefusedIsNotExecuted'
    BY <1>4 DEF IInv, TypeOK, ThreadsOK, RefusedIsNotExecuted, ClaimIsHonest,
       UnclaimedIsFresh, Past, DeleteConversation, At, Card, Gone, Final
  <2>4. SuccessWasExecuted'
    BY <1>4 DEF IInv, TypeOK, ThreadsOK, SuccessWasExecuted, ClaimIsHonest,
       UnclaimedIsFresh, Past, DeleteConversation, At, Card, Gone, Final
  <2>5. SubmittedOnce'
    BY <1>4 DEF IInv, TypeOK, ThreadsOK, SubmittedOnce, DeleteConversation,
       At, Card, Gone, Final
  <2>6. UnclaimedIsFresh'
    BY <1>4 DEF IInv, TypeOK, ThreadsOK, UnclaimedIsFresh, SubmittedOnce,
       Past, DeleteConversation, At, Card, Gone, Final
  <2>7. OneClaim'
    BY <1>4 DEF IInv, TypeOK, ThreadsOK, OneClaim, UnclaimedIsFresh, Past,
       DeleteConversation, At, Card, Gone, Final
  <2>8. ClaimIsHonest'
    BY <1>4 DEF IInv, TypeOK, ThreadsOK, ClaimIsHonest, OneClaim,
       UnclaimedIsFresh, Past, SubmittedOnce, DeleteConversation, At, Card,
       Gone, Final
  <2> QED BY <2>1, <2>2, <2>3, <2>4, <2>5, <2>6, <2>7, <2>8 DEF IInv
<1>5. ASSUME NEW c \in Cards, AbortSubmit(c) PROVE IInv'
  <2>1. TypeOK'
    BY <1>5 DEF IInv, TypeOK, ThreadsOK, Places, AbortSubmit, At, Card, Gone,
       Final
  <2>2. AtMostOnce'
    BY <1>5 DEF IInv, TypeOK, ThreadsOK, AtMostOnce, ClaimIsHonest, Past,
       AbortSubmit, At, Card, Gone, Final
  <2>3. RefusedIsNotExecuted'
    BY <1>5 DEF IInv, TypeOK, ThreadsOK, RefusedIsNotExecuted, ClaimIsHonest,
       UnclaimedIsFresh, Past, AbortSubmit, At, Card, Gone, Final
  <2>4. SuccessWasExecuted'
    BY <1>5 DEF IInv, TypeOK, ThreadsOK, SuccessWasExecuted, ClaimIsHonest,
       UnclaimedIsFresh, Past, AbortSubmit, At, Card, Gone, Final
  <2>5. SubmittedOnce'
    BY <1>5 DEF IInv, TypeOK, ThreadsOK, SubmittedOnce, AbortSubmit, At, Card,
       Gone, Final
  <2>6. UnclaimedIsFresh'
    BY <1>5 DEF IInv, TypeOK, ThreadsOK, UnclaimedIsFresh, SubmittedOnce,
       Past, AbortSubmit, At, Card, Gone, Final
  <2>7. OneClaim'
    BY <1>5 DEF IInv, TypeOK, ThreadsOK, OneClaim, UnclaimedIsFresh, Past,
       AbortSubmit, At, Card, Gone, Final
  <2>8. ClaimIsHonest'
    BY <1>5 DEF IInv, TypeOK, ThreadsOK, ClaimIsHonest, OneClaim,
       UnclaimedIsFresh, Past, SubmittedOnce, AbortSubmit, At, Card, Gone,
       Final
  <2> QED BY <2>1, <2>2, <2>3, <2>4, <2>5, <2>6, <2>7, <2>8 DEF IInv
<1>6. ASSUME NEW t \in Threads, NEW c \in Cards, Approve(t, c) PROVE IInv'
  <2>1. TypeOK'
    BY <1>6 DEF IInv, TypeOK, ThreadsOK, Places, Approve, ReadPending,
       IdleThread, At, Card, Gone, Final
  <2>2. AtMostOnce'
    BY <1>6 DEF IInv, TypeOK, ThreadsOK, AtMostOnce, ClaimIsHonest, Past,
       Approve, ReadPending, IdleThread, At, Card, Gone, Final
  <2>3. RefusedIsNotExecuted'
    BY <1>6 DEF IInv, TypeOK, ThreadsOK, RefusedIsNotExecuted, ClaimIsHonest,
       UnclaimedIsFresh, Past, Approve, ReadPending, IdleThread, At, Card,
       Gone, Final
  <2>4. SuccessWasExecuted'
    BY <1>6 DEF IInv, TypeOK, ThreadsOK, SuccessWasExecuted, ClaimIsHonest,
       UnclaimedIsFresh, Past, Approve, ReadPending, IdleThread, At, Card,
       Gone, Final
  <2>5. SubmittedOnce'
    BY <1>6 DEF IInv, TypeOK, ThreadsOK, SubmittedOnce, Approve, ReadPending,
       IdleThread, At, Card, Gone, Final
  <2>6. UnclaimedIsFresh'
    BY <1>6 DEF IInv, TypeOK, ThreadsOK, UnclaimedIsFresh, SubmittedOnce,
       Past, Approve, ReadPending, IdleThread, At, Card, Gone, Final
  <2>7. OneClaim'
    BY <1>6 DEF IInv, TypeOK, ThreadsOK, OneClaim, UnclaimedIsFresh, Past,
       Approve, ReadPending, IdleThread, At, Card, Gone, Final
  <2>8. ClaimIsHonest'
    BY <1>6 DEF IInv, TypeOK, ThreadsOK, ClaimIsHonest, OneClaim,
       UnclaimedIsFresh, Past, SubmittedOnce, Approve, ReadPending,
       IdleThread, At, Card, Gone, Final
  <2> QED BY <2>1, <2>2, <2>3, <2>4, <2>5, <2>6, <2>7, <2>8 DEF IInv
<1>7. ASSUME NEW t \in Threads, NEW c \in Cards, Reject(t, c) PROVE IInv'
  <2>1. TypeOK'
    BY <1>7 DEF IInv, TypeOK, ThreadsOK, Places, Reject, ReadPending,
       IdleThread, At, Card, Gone, Final
  <2>2. AtMostOnce'
    BY <1>7 DEF IInv, TypeOK, ThreadsOK, AtMostOnce, ClaimIsHonest, Past,
       Reject, ReadPending, IdleThread, At, Card, Gone, Final
  <2>3. RefusedIsNotExecuted'
    BY <1>7 DEF IInv, TypeOK, ThreadsOK, RefusedIsNotExecuted, ClaimIsHonest,
       UnclaimedIsFresh, Past, Reject, ReadPending, IdleThread, At, Card,
       Gone, Final
  <2>4. SuccessWasExecuted'
    BY <1>7 DEF IInv, TypeOK, ThreadsOK, SuccessWasExecuted, ClaimIsHonest,
       UnclaimedIsFresh, Past, Reject, ReadPending, IdleThread, At, Card,
       Gone, Final
  <2>5. SubmittedOnce'
    BY <1>7 DEF IInv, TypeOK, ThreadsOK, SubmittedOnce, Reject, ReadPending,
       IdleThread, At, Card, Gone, Final
  <2>6. UnclaimedIsFresh'
    BY <1>7 DEF IInv, TypeOK, ThreadsOK, UnclaimedIsFresh, SubmittedOnce,
       Past, Reject, ReadPending, IdleThread, At, Card, Gone, Final
  <2>7. OneClaim'
    BY <1>7 DEF IInv, TypeOK, ThreadsOK, OneClaim, UnclaimedIsFresh, Past,
       Reject, ReadPending, IdleThread, At, Card, Gone, Final
  <2>8. ClaimIsHonest'
    BY <1>7 DEF IInv, TypeOK, ThreadsOK, ClaimIsHonest, OneClaim,
       UnclaimedIsFresh, Past, SubmittedOnce, Reject, ReadPending, IdleThread,
       At, Card, Gone, Final
  <2> QED BY <2>1, <2>2, <2>3, <2>4, <2>5, <2>6, <2>7, <2>8 DEF IInv
<1>8. ASSUME NEW t \in Threads, ApproveTooLate(t) PROVE IInv'
  <2>1. TypeOK'
    <3>1. Card(t) \in Cards
      BY <1>8 DEF IInv, TypeOK, ThreadsOK, ApproveTooLate, At, Card
    <3>2. status' \in [Cards -> Gone \cup {"pending", "approved"} \cup Final]
      BY <1>8, <3>1 DEF IInv, TypeOK, ApproveTooLate, SetStatus, Final
    <3>3. ThreadsOK'
      BY <1>8, ThreadReports DEF IInv, TypeOK, ApproveTooLate, At, Places, Final
    <3> QED BY <1>8, <3>2, <3>3 DEF IInv, TypeOK, ApproveTooLate
  <2>2. AtMostOnce'
    BY <1>8 DEF IInv, TypeOK, ThreadsOK, AtMostOnce, ClaimIsHonest, Past,
       ApproveTooLate, SetStatus, At, Card, Gone, Final
  <2>3. RefusedIsNotExecuted'
    BY <1>8 DEF IInv, TypeOK, ThreadsOK, RefusedIsNotExecuted, ClaimIsHonest,
       UnclaimedIsFresh, Past, ApproveTooLate, SetStatus, At, Card, Gone,
       Final
  <2>4. SuccessWasExecuted'
    BY <1>8 DEF IInv, TypeOK, ThreadsOK, SuccessWasExecuted, ClaimIsHonest,
       UnclaimedIsFresh, Past, ApproveTooLate, SetStatus, At, Card, Gone,
       Final
  <2>5. SubmittedOnce'
    <3>1. status[Card(t)] # "absent" /\ Card(t) \in Cards
      BY <1>8 DEF IInv, TypeOK, ThreadsOK, SubmittedOnce, ApproveTooLate, At, Card
    <3>2. \A s \in Threads : thread'[s].card = thread[s].card
      BY <1>8 DEF IInv, TypeOK, ThreadsOK, ApproveTooLate
    <3>3. \A c \in Cards : status'[c] = "absent" <=> status[c] = "absent"
      BY <1>8, <3>1 DEF IInv, TypeOK, ThreadsOK, ApproveTooLate, SetStatus
    <3> QED
      BY <1>8, <3>2, <3>3
      DEF IInv, TypeOK, ThreadsOK, SubmittedOnce, ApproveTooLate, Card
  <2>6. UnclaimedIsFresh'
    BY <1>8 DEF IInv, TypeOK, ThreadsOK, UnclaimedIsFresh, SubmittedOnce,
       Past, ApproveTooLate, SetStatus, At, Card, Gone, Final
  <2>7. OneClaim'
    BY <1>8 DEF IInv, TypeOK, ThreadsOK, OneClaim, UnclaimedIsFresh, Past,
       ApproveTooLate, SetStatus, At, Card, Gone, Final
  <2>8. ClaimIsHonest'
    BY <1>8 DEF IInv, TypeOK, ThreadsOK, ClaimIsHonest, OneClaim,
       UnclaimedIsFresh, Past, SubmittedOnce, ApproveTooLate, SetStatus, At,
       Card, Gone, Final
  <2> QED BY <2>1, <2>2, <2>3, <2>4, <2>5, <2>6, <2>7, <2>8 DEF IInv
<1>9. ASSUME NEW t \in Threads, ApproveInTime(t) PROVE IInv'
  <2>1. TypeOK'
    BY <1>9 DEF IInv, TypeOK, ThreadsOK, Places, ApproveInTime, Goto, At,
       Card, Gone, Final
  <2>2. AtMostOnce'
    BY <1>9 DEF IInv, TypeOK, ThreadsOK, AtMostOnce, ClaimIsHonest, Past,
       ApproveInTime, Goto, At, Card, Gone, Final
  <2>3. RefusedIsNotExecuted'
    BY <1>9 DEF IInv, TypeOK, ThreadsOK, RefusedIsNotExecuted, ClaimIsHonest,
       UnclaimedIsFresh, Past, ApproveInTime, Goto, At, Card, Gone, Final
  <2>4. SuccessWasExecuted'
    BY <1>9 DEF IInv, TypeOK, ThreadsOK, SuccessWasExecuted, ClaimIsHonest,
       UnclaimedIsFresh, Past, ApproveInTime, Goto, At, Card, Gone, Final
  <2>5. SubmittedOnce'
    BY <1>9 DEF IInv, TypeOK, ThreadsOK, SubmittedOnce, ApproveInTime, Goto,
       At, Card, Gone, Final
  <2>6. UnclaimedIsFresh'
    BY <1>9 DEF IInv, TypeOK, ThreadsOK, UnclaimedIsFresh, SubmittedOnce,
       Past, ApproveInTime, Goto, At, Card, Gone, Final
  <2>7. OneClaim'
    BY <1>9 DEF IInv, TypeOK, ThreadsOK, OneClaim, UnclaimedIsFresh, Past,
       ApproveInTime, Goto, At, Card, Gone, Final
  <2>8. ClaimIsHonest'
    BY <1>9 DEF IInv, TypeOK, ThreadsOK, ClaimIsHonest, OneClaim,
       UnclaimedIsFresh, Past, SubmittedOnce, ApproveInTime, Goto, At, Card,
       Gone, Final
  <2> QED BY <2>1, <2>2, <2>3, <2>4, <2>5, <2>6, <2>7, <2>8 DEF IInv
<1>10. ASSUME NEW t \in Threads, ClaimToExecute(t) PROVE IInv'
  <2>1. TypeOK'
    BY <1>10 DEF IInv, TypeOK, ThreadsOK, Places, ClaimToExecute, Goto,
       SetStatus, Claimable, At, Card, Gone, Final
  <2>2. AtMostOnce'
    BY <1>10 DEF IInv, TypeOK, ThreadsOK, AtMostOnce, ClaimIsHonest, Past,
       ClaimToExecute, Goto, SetStatus, Claimable, At, Card, Gone, Final
  <2>3. RefusedIsNotExecuted'
    BY <1>10 DEF IInv, TypeOK, ThreadsOK, RefusedIsNotExecuted, ClaimIsHonest,
       UnclaimedIsFresh, Past, ClaimToExecute, Goto, SetStatus, Claimable, At,
       Card, Gone, Final
  <2>4. SuccessWasExecuted'
    BY <1>10 DEF IInv, TypeOK, ThreadsOK, SuccessWasExecuted, ClaimIsHonest,
       UnclaimedIsFresh, Past, ClaimToExecute, Goto, SetStatus, Claimable, At,
       Card, Gone, Final
  <2>5. SubmittedOnce'
    BY <1>10 DEF IInv, TypeOK, ThreadsOK, SubmittedOnce, ClaimToExecute, Goto,
       SetStatus, Claimable, At, Card, Gone, Final
  <2>6. UnclaimedIsFresh'
    BY <1>10 DEF IInv, TypeOK, ThreadsOK, UnclaimedIsFresh, SubmittedOnce,
       Past, ClaimToExecute, Goto, SetStatus, Claimable, At, Card, Gone, Final
  <2>7. OneClaim'
    BY <1>10 DEF IInv, TypeOK, ThreadsOK, OneClaim, UnclaimedIsFresh, Past,
       ClaimToExecute, Goto, SetStatus, Claimable, At, Card, Gone, Final
  <2>8. ClaimIsHonest'
    BY <1>10 DEF IInv, TypeOK, ThreadsOK, ClaimIsHonest, OneClaim,
       UnclaimedIsFresh, Past, SubmittedOnce, ClaimToExecute, Goto, SetStatus,
       Claimable, At, Card, Gone, Final
  <2> QED BY <2>1, <2>2, <2>3, <2>4, <2>5, <2>6, <2>7, <2>8 DEF IInv
<1>11. ASSUME NEW t \in Threads, ClaimToReject(t) PROVE IInv'
  <2>1. TypeOK'
    <3>1. Card(t) \in Cards
      BY <1>11 DEF IInv, TypeOK, ThreadsOK, ClaimToReject, At, Card
    <3>2. status' \in [Cards -> Gone \cup {"pending", "approved"} \cup Final]
      BY <1>11, <3>1 DEF IInv, TypeOK, ClaimToReject, SetStatus, Final
    <3>3. ThreadsOK'
      BY <1>11, ThreadReports DEF IInv, TypeOK, ClaimToReject, At, Places, Final
    <3> QED BY <1>11, <3>2, <3>3 DEF IInv, TypeOK, ClaimToReject
  <2>2. AtMostOnce'
    BY <1>11 DEF IInv, TypeOK, ThreadsOK, AtMostOnce, ClaimIsHonest, Past,
       ClaimToReject, SetStatus, Claimable, At, Card, Gone, Final
  <2>3. RefusedIsNotExecuted'
    BY <1>11 DEF IInv, TypeOK, ThreadsOK, RefusedIsNotExecuted, ClaimIsHonest,
       UnclaimedIsFresh, Past, ClaimToReject, SetStatus, Claimable, At, Card,
       Gone, Final
  <2>4. SuccessWasExecuted'
    BY <1>11 DEF IInv, TypeOK, ThreadsOK, SuccessWasExecuted, ClaimIsHonest,
       UnclaimedIsFresh, Past, ClaimToReject, SetStatus, Claimable, At, Card,
       Gone, Final
  <2>5. SubmittedOnce'
    <3>1. status[Card(t)] # "absent" /\ Card(t) \in Cards
      BY <1>11 DEF IInv, TypeOK, ThreadsOK, SubmittedOnce, ClaimToReject, At, Card
    <3>2. \A s \in Threads : thread'[s].card = thread[s].card
      BY <1>11 DEF IInv, TypeOK, ThreadsOK, ClaimToReject
    <3>3. \A c \in Cards : status'[c] = "absent" <=> status[c] = "absent"
      BY <1>11, <3>1 DEF IInv, TypeOK, ThreadsOK, ClaimToReject, SetStatus
    <3> QED
      BY <1>11, <3>2, <3>3
      DEF IInv, TypeOK, ThreadsOK, SubmittedOnce, ClaimToReject, Card
  <2>6. UnclaimedIsFresh'
    BY <1>11 DEF IInv, TypeOK, ThreadsOK, UnclaimedIsFresh, SubmittedOnce,
       Past, ClaimToReject, SetStatus, Claimable, At, Card, Gone, Final
  <2>7. OneClaim'
    BY <1>11 DEF IInv, TypeOK, ThreadsOK, OneClaim, UnclaimedIsFresh, Past,
       ClaimToReject, SetStatus, Claimable, At, Card, Gone, Final
  <2>8. ClaimIsHonest'
    BY <1>11 DEF IInv, TypeOK, ThreadsOK, ClaimIsHonest, OneClaim,
       UnclaimedIsFresh, Past, SubmittedOnce, ClaimToReject, SetStatus,
       Claimable, At, Card, Gone, Final
  <2> QED BY <2>1, <2>2, <2>3, <2>4, <2>5, <2>6, <2>7, <2>8 DEF IInv
<1>12. ASSUME NEW t \in Threads, ClaimLost(t) PROVE IInv'
  <2>1. TypeOK'
    BY <1>12 DEF IInv, TypeOK, ThreadsOK, Places, ClaimLost, Return,
       IdleThread, At, Card, Gone, Final
  <2>2. AtMostOnce'
    BY <1>12 DEF IInv, TypeOK, ThreadsOK, AtMostOnce, ClaimIsHonest, Past,
       ClaimLost, Return, IdleThread, At, Card, Gone, Final
  <2>3. RefusedIsNotExecuted'
    BY <1>12 DEF IInv, TypeOK, ThreadsOK, RefusedIsNotExecuted, ClaimIsHonest,
       UnclaimedIsFresh, Past, ClaimLost, Return, IdleThread, At, Card, Gone,
       Final
  <2>4. SuccessWasExecuted'
    BY <1>12 DEF IInv, TypeOK, ThreadsOK, SuccessWasExecuted, ClaimIsHonest,
       UnclaimedIsFresh, Past, ClaimLost, Return, IdleThread, At, Card, Gone,
       Final
  <2>5. SubmittedOnce'
    BY <1>12 DEF IInv, TypeOK, ThreadsOK, SubmittedOnce, ClaimLost, Return,
       IdleThread, At, Card, Gone, Final
  <2>6. UnclaimedIsFresh'
    BY <1>12 DEF IInv, TypeOK, ThreadsOK, UnclaimedIsFresh, SubmittedOnce,
       Past, ClaimLost, Return, IdleThread, At, Card, Gone, Final
  <2>7. OneClaim'
    BY <1>12 DEF IInv, TypeOK, ThreadsOK, OneClaim, UnclaimedIsFresh, Past,
       ClaimLost, Return, IdleThread, At, Card, Gone, Final
  <2>8. ClaimIsHonest'
    BY <1>12 DEF IInv, TypeOK, ThreadsOK, ClaimIsHonest, OneClaim,
       UnclaimedIsFresh, Past, SubmittedOnce, ClaimLost, Return, IdleThread,
       At, Card, Gone, Final
  <2> QED BY <2>1, <2>2, <2>3, <2>4, <2>5, <2>6, <2>7, <2>8 DEF IInv
<1>13. ASSUME NEW t \in Threads, Execute(t) PROVE IInv'
  <2>1. TypeOK'
    <3>1. executions' \in [Cards -> Nat]
      <4>1. Card(t) \in Cards
        BY <1>13 DEF IInv, TypeOK, ThreadsOK, Execute, At, Card
      <4>2. executions[Card(t)] + 1 \in Nat
        BY <4>1 DEF IInv, TypeOK, ThreadsOK
      <4> QED BY <1>13, <4>1, <4>2 DEF IInv, TypeOK, ThreadsOK, Execute
    <3>2. ThreadsOK'
      BY <1>13, ThreadReports DEF IInv, TypeOK, Execute, At, Places, Final
    <3> QED BY <1>13, <3>1, <3>2 DEF IInv, TypeOK, Execute
  <2>2. AtMostOnce'
    BY <1>13 DEF IInv, TypeOK, ThreadsOK, AtMostOnce, ClaimIsHonest, Past,
       Execute, At, Card, Gone, Final
  <2>3. RefusedIsNotExecuted'
    BY <1>13 DEF IInv, TypeOK, ThreadsOK, RefusedIsNotExecuted, ClaimIsHonest,
       UnclaimedIsFresh, Past, Execute, At, Card, Gone, Final
  <2>4. SuccessWasExecuted'
    BY <1>13 DEF IInv, TypeOK, ThreadsOK, SuccessWasExecuted, ClaimIsHonest,
       UnclaimedIsFresh, Past, Execute, At, Card, Gone, Final
  <2>5. SubmittedOnce'
    BY <1>13 DEF IInv, TypeOK, ThreadsOK, SubmittedOnce, Execute, At, Card,
       Gone, Final
  <2>6. UnclaimedIsFresh'
    BY <1>13 DEF IInv, TypeOK, ThreadsOK, UnclaimedIsFresh, SubmittedOnce,
       Past, Execute, At, Card, Gone, Final
  <2>7. OneClaim'
    BY <1>13 DEF IInv, TypeOK, ThreadsOK, OneClaim, UnclaimedIsFresh, Past,
       Execute, At, Card, Gone, Final
  <2>8. ClaimIsHonest'
    BY <1>13 DEF IInv, TypeOK, ThreadsOK, ClaimIsHonest, OneClaim,
       UnclaimedIsFresh, Past, SubmittedOnce, Execute, At, Card, Gone, Final
  <2> QED BY <2>1, <2>2, <2>3, <2>4, <2>5, <2>6, <2>7, <2>8 DEF IInv
<1>14. ASSUME NEW t \in Threads, NoExecutor(t) PROVE IInv'
  <2>1. TypeOK'
    <3>1. ThreadsOK'
      BY <1>14, ThreadReports DEF IInv, TypeOK, NoExecutor, At, Places, Final
    <3> QED BY <1>14, <3>1 DEF IInv, TypeOK, NoExecutor
  <2>2. AtMostOnce'
    BY <1>14 DEF IInv, TypeOK, ThreadsOK, AtMostOnce, ClaimIsHonest, Past,
       NoExecutor, At, Card, Gone, Final
  <2>3. RefusedIsNotExecuted'
    BY <1>14 DEF IInv, TypeOK, ThreadsOK, RefusedIsNotExecuted, ClaimIsHonest,
       UnclaimedIsFresh, Past, NoExecutor, At, Card, Gone, Final
  <2>4. SuccessWasExecuted'
    BY <1>14 DEF IInv, TypeOK, ThreadsOK, SuccessWasExecuted, ClaimIsHonest,
       UnclaimedIsFresh, Past, NoExecutor, At, Card, Gone, Final
  <2>5. SubmittedOnce'
    BY <1>14 DEF IInv, TypeOK, ThreadsOK, SubmittedOnce, NoExecutor, At, Card,
       Gone, Final
  <2>6. UnclaimedIsFresh'
    BY <1>14 DEF IInv, TypeOK, ThreadsOK, UnclaimedIsFresh, SubmittedOnce,
       Past, NoExecutor, At, Card, Gone, Final
  <2>7. OneClaim'
    BY <1>14 DEF IInv, TypeOK, ThreadsOK, OneClaim, UnclaimedIsFresh, Past,
       NoExecutor, At, Card, Gone, Final
  <2>8. ClaimIsHonest'
    BY <1>14 DEF IInv, TypeOK, ThreadsOK, ClaimIsHonest, OneClaim,
       UnclaimedIsFresh, Past, SubmittedOnce, NoExecutor, At, Card, Gone,
       Final
  <2> QED BY <2>1, <2>2, <2>3, <2>4, <2>5, <2>6, <2>7, <2>8 DEF IInv
<1>15. ASSUME NEW t \in Threads, FinishAction(t) PROVE IInv'
  <2>1. TypeOK'
    BY <1>15 DEF IInv, TypeOK, ThreadsOK, Places, FinishAction, Goto,
       SetStatus, At, Card, Gone, Final
  <2>2. AtMostOnce'
    BY <1>15 DEF IInv, TypeOK, ThreadsOK, AtMostOnce, ClaimIsHonest, Past,
       FinishAction, Goto, SetStatus, At, Card, Gone, Final
  <2>3. RefusedIsNotExecuted'
    BY <1>15 DEF IInv, TypeOK, ThreadsOK, RefusedIsNotExecuted, ClaimIsHonest,
       UnclaimedIsFresh, Past, FinishAction, Goto, SetStatus, At, Card, Gone,
       Final
  <2>4. SuccessWasExecuted'
    BY <1>15 DEF IInv, TypeOK, ThreadsOK, SuccessWasExecuted, ClaimIsHonest,
       UnclaimedIsFresh, Past, FinishAction, Goto, SetStatus, At, Card, Gone,
       Final
  <2>5. SubmittedOnce'
    BY <1>15 DEF IInv, TypeOK, ThreadsOK, SubmittedOnce, FinishAction, Goto,
       SetStatus, At, Card, Gone, Final
  <2>6. UnclaimedIsFresh'
    BY <1>15 DEF IInv, TypeOK, ThreadsOK, UnclaimedIsFresh, SubmittedOnce,
       Past, FinishAction, Goto, SetStatus, At, Card, Gone, Final
  <2>7. OneClaim'
    BY <1>15 DEF IInv, TypeOK, ThreadsOK, OneClaim, UnclaimedIsFresh, Past,
       FinishAction, Goto, SetStatus, At, Card, Gone, Final
  <2>8. ClaimIsHonest'
    BY <1>15 DEF IInv, TypeOK, ThreadsOK, ClaimIsHonest, OneClaim,
       UnclaimedIsFresh, Past, SubmittedOnce, FinishAction, Goto, SetStatus,
       At, Card, Gone, Final
  <2> QED BY <2>1, <2>2, <2>3, <2>4, <2>5, <2>6, <2>7, <2>8 DEF IInv
<1>16. ASSUME NEW t \in Threads, WriteActionResult(t) PROVE IInv'
  <2>1. TypeOK'
    BY <1>16 DEF IInv, TypeOK, ThreadsOK, Places, WriteActionResult, Return,
       IdleThread, At, Card, Gone, Final
  <2>2. AtMostOnce'
    BY <1>16 DEF IInv, TypeOK, ThreadsOK, AtMostOnce, ClaimIsHonest, Past,
       WriteActionResult, Return, IdleThread, At, Card, Gone, Final
  <2>3. RefusedIsNotExecuted'
    BY <1>16 DEF IInv, TypeOK, ThreadsOK, RefusedIsNotExecuted, ClaimIsHonest,
       UnclaimedIsFresh, Past, WriteActionResult, Return, IdleThread, At,
       Card, Gone, Final
  <2>4. SuccessWasExecuted'
    BY <1>16 DEF IInv, TypeOK, ThreadsOK, SuccessWasExecuted, ClaimIsHonest,
       UnclaimedIsFresh, Past, WriteActionResult, Return, IdleThread, At,
       Card, Gone, Final
  <2>5. SubmittedOnce'
    BY <1>16 DEF IInv, TypeOK, ThreadsOK, SubmittedOnce, WriteActionResult,
       Return, IdleThread, At, Card, Gone, Final
  <2>6. UnclaimedIsFresh'
    BY <1>16 DEF IInv, TypeOK, ThreadsOK, UnclaimedIsFresh, SubmittedOnce,
       Past, WriteActionResult, Return, IdleThread, At, Card, Gone, Final
  <2>7. OneClaim'
    BY <1>16 DEF IInv, TypeOK, ThreadsOK, OneClaim, UnclaimedIsFresh, Past,
       WriteActionResult, Return, IdleThread, At, Card, Gone, Final
  <2>8. ClaimIsHonest'
    BY <1>16 DEF IInv, TypeOK, ThreadsOK, ClaimIsHonest, OneClaim,
       UnclaimedIsFresh, Past, SubmittedOnce, WriteActionResult, Return,
       IdleThread, At, Card, Gone, Final
  <2> QED BY <2>1, <2>2, <2>3, <2>4, <2>5, <2>6, <2>7, <2>8 DEF IInv
<1>17. ASSUME NEW t \in Threads, AbortRequest(t) PROVE IInv'
  <2>1. TypeOK'
    BY <1>17 DEF IInv, TypeOK, ThreadsOK, Places, AbortRequest, Return,
       IdleThread, At, Card, Gone, Final
  <2>2. AtMostOnce'
    BY <1>17 DEF IInv, TypeOK, ThreadsOK, AtMostOnce, ClaimIsHonest, Past,
       AbortRequest, Return, IdleThread, At, Card, Gone, Final
  <2>3. RefusedIsNotExecuted'
    BY <1>17 DEF IInv, TypeOK, ThreadsOK, RefusedIsNotExecuted, ClaimIsHonest,
       UnclaimedIsFresh, Past, AbortRequest, Return, IdleThread, At, Card,
       Gone, Final
  <2>4. SuccessWasExecuted'
    BY <1>17 DEF IInv, TypeOK, ThreadsOK, SuccessWasExecuted, ClaimIsHonest,
       UnclaimedIsFresh, Past, AbortRequest, Return, IdleThread, At, Card,
       Gone, Final
  <2>5. SubmittedOnce'
    BY <1>17 DEF IInv, TypeOK, ThreadsOK, SubmittedOnce, AbortRequest, Return,
       IdleThread, At, Card, Gone, Final
  <2>6. UnclaimedIsFresh'
    BY <1>17 DEF IInv, TypeOK, ThreadsOK, UnclaimedIsFresh, SubmittedOnce,
       Past, AbortRequest, Return, IdleThread, At, Card, Gone, Final
  <2>7. OneClaim'
    BY <1>17 DEF IInv, TypeOK, ThreadsOK, OneClaim, UnclaimedIsFresh, Past,
       AbortRequest, Return, IdleThread, At, Card, Gone, Final
  <2>8. ClaimIsHonest'
    BY <1>17 DEF IInv, TypeOK, ThreadsOK, ClaimIsHonest, OneClaim,
       UnclaimedIsFresh, Past, SubmittedOnce, AbortRequest, Return,
       IdleThread, At, Card, Gone, Final
  <2> QED BY <2>1, <2>2, <2>3, <2>4, <2>5, <2>6, <2>7, <2>8 DEF IInv
<1>18. ASSUME ExpireActions PROVE IInv'
  <2>1. TypeOK'
    BY <1>18 DEF IInv, TypeOK, ThreadsOK, Places, ExpireActions, Expirable,
       At, Card, Gone, Final
  <2>2. AtMostOnce'
    BY <1>18 DEF IInv, TypeOK, ThreadsOK, AtMostOnce, ClaimIsHonest, Past,
       ExpireActions, Expirable, At, Card, Gone, Final
  <2>3. RefusedIsNotExecuted'
    BY <1>18 DEF IInv, TypeOK, ThreadsOK, RefusedIsNotExecuted, ClaimIsHonest,
       UnclaimedIsFresh, Past, ExpireActions, Expirable, At, Card, Gone, Final
  <2>4. SuccessWasExecuted'
    BY <1>18 DEF IInv, TypeOK, ThreadsOK, SuccessWasExecuted, ClaimIsHonest,
       UnclaimedIsFresh, Past, ExpireActions, Expirable, At, Card, Gone, Final
  <2>5. SubmittedOnce'
    BY <1>18 DEF IInv, TypeOK, ThreadsOK, SubmittedOnce, ExpireActions,
       Expirable, At, Card, Gone, Final
  <2>6. UnclaimedIsFresh'
    BY <1>18 DEF IInv, TypeOK, ThreadsOK, UnclaimedIsFresh, SubmittedOnce,
       Past, ExpireActions, Expirable, At, Card, Gone, Final
  <2>7. OneClaim'
    BY <1>18 DEF IInv, TypeOK, ThreadsOK, OneClaim, UnclaimedIsFresh, Past,
       ExpireActions, Expirable, At, Card, Gone, Final
  <2>8. ClaimIsHonest'
    BY <1>18 DEF IInv, TypeOK, ThreadsOK, ClaimIsHonest, OneClaim,
       UnclaimedIsFresh, Past, SubmittedOnce, ExpireActions, Expirable, At,
       Card, Gone, Final
  <2> QED BY <2>1, <2>2, <2>3, <2>4, <2>5, <2>6, <2>7, <2>8 DEF IInv
<1>19. CASE UNCHANGED vars
  BY <1>19 DEF vars, IInv, TypeOK, ThreadsOK, AtMostOnce, RefusedIsNotExecuted,
     SuccessWasExecuted, SubmittedOnce, UnclaimedIsFresh, OneClaim,
     ClaimIsHonest, Past, At, Card
<1>20. ASSUME NEW t \in Threads, RequestStep(t) PROVE IInv'
  BY <1>20, <1>8, <1>9, <1>10, <1>11, <1>12, <1>13, <1>14, <1>15, <1>16
  DEF RequestStep
<1> QED
  BY <1>1, <1>2, <1>3, <1>4, <1>5, <1>6, <1>7, <1>17, <1>18, <1>19, <1>20
  DEF Next

\* The inductive invariant holds in every reachable state.
THEOREM Invariance == Spec => []IInv
<1>1. Init => IInv
  BY InitImpliesInv
<1>2. IInv /\ [Next]_vars => IInv'
  BY StepPreservesInv
<1> QED BY <1>1, <1>2, PTL DEF Spec

\* Rows, messages and threads always have the values declared for them.
THEOREM TypeCorrect == Spec => []TypeOK
<1>1. IInv => TypeOK
  BY DEF IInv
<1> QED BY <1>1, Invariance, PTL

\* No interleaving of confirmations, rejections, expiry, deletion and failure
\* starts the executor of a card twice: the conditional UPDATE of
\* claim_ai_action is the only protection, and it is enough.
THEOREM ExecutedAtMostOnce == Spec => []AtMostOnce
<1>1. IInv => AtMostOnce
  BY DEF IInv
<1> QED BY <1>1, Invariance, PTL

\* A card or message that says "rejected" belongs to an operation that was
\* never carried out.
THEOREM RefusalIsRespected == Spec => []RefusedIsNotExecuted
<1>1. IInv => RefusedIsNotExecuted
  BY DEF IInv
<1> QED BY <1>1, Invariance, PTL

\* A card or message that says "executed" belongs to an operation that ran.
THEOREM SuccessIsReal == Spec => []SuccessWasExecuted
<1>1. IInv => SuccessWasExecuted
  BY DEF IInv
<1> QED BY <1>1, Invariance, PTL

\* No step offers a card again that has left "pending": the writers of a status
\* act on cards that threads have read, and those are submitted already.
LEMMA StepKeepsDecided ==
  IInv /\ [Next]_vars =>
    [\A c \in Cards :
        status'[c] = "pending" => status[c] \in {"absent", "pending"}]_vars
<1> SUFFICES ASSUME IInv, Next, NEW c \in Cards, status'[c] = "pending"
             PROVE  status[c] \in {"absent", "pending"}
  OBVIOUS
<1>1. ASSUME NEW d \in Cards, SubmitCard(d)
      PROVE  status[c] \in {"absent", "pending"}
  BY <1>1 DEF SubmitCard, IInv, TypeOK, ThreadsOK, SubmittedOnce
<1>2. ASSUME NEW d \in Cards, DeleteConversation(d)
      PROVE  status[c] \in {"absent", "pending"}
  BY <1>2 DEF DeleteConversation, IInv, TypeOK, ThreadsOK
<1>3. ASSUME NEW t \in Threads, RequestStep(t)
      PROVE  status[c] \in {"absent", "pending"}
  BY <1>3 DEF RequestStep, ApproveTooLate, ApproveInTime, ClaimToExecute,
     ClaimToReject, ClaimLost, Execute, NoExecutor, FinishAction,
     WriteActionResult, SetStatus, IInv, TypeOK, ThreadsOK, Final
<1>4. ASSUME ExpireActions PROVE status[c] \in {"absent", "pending"}
  BY <1>4 DEF ExpireActions, Expirable
<1>5. ASSUME status' = status PROVE status[c] \in {"absent", "pending"}
  BY <1>5
<1> QED
  BY <1>1, <1>2, <1>3, <1>4, <1>5
  DEF Next, SubmitMessage, BecomeOverdue, AbortSubmit, Approve, Reject,
      ReadPending, AbortRequest

\* What StepKeepsDecided says of one step, for every behaviour: retries, late
\* writers and maintenance never reopen a decision.
THEOREM DecisionsAreNotReopened == Spec => NeverPendingAgain
<1>1. IInv /\ [Next]_vars =>
        [\A c \in Cards :
            status'[c] = "pending" => status[c] \in {"absent", "pending"}]_vars
  BY StepKeepsDecided
<1> QED BY <1>1, Invariance, PTL DEF Spec, NeverPendingAgain

\* A thread comes past the claim only through the claim, of a card that is
\* pending at that moment, whatever it has read before.
LEMMA StepLeavesExpired ==
  IInv /\ [Next]_vars =>
    [\A c \in Cards, t \in Threads :
        status[c] = "expired" /\ ~Past(t, c) => ~Past(t, c)']_vars
<1> SUFFICES ASSUME IInv, Next, NEW c \in Cards, NEW t \in Threads,
                    status[c] = "expired", ~Past(t, c)
             PROVE  ~Past(t, c)'
  OBVIOUS
<1> USE DEF Past, Card
<1>1. CASE UNCHANGED thread
  BY <1>1
<1>2. ASSUME NEW s \in Threads, RequestStep(s) PROVE ~Past(t, c)'
  <2>1. CASE ApproveTooLate(s) \/ ApproveInTime(s)
    BY <2>1 DEF ApproveTooLate, ApproveInTime, Goto, At, IInv, TypeOK, ThreadsOK
  <2>2. CASE ClaimToExecute(s) \/ ClaimToReject(s)
    BY <2>2 DEF ClaimToExecute, ClaimToReject, Claimable, Goto, At, IInv, TypeOK, ThreadsOK
  <2>3. CASE ClaimLost(s) \/ WriteActionResult(s)
    BY <2>3 DEF ClaimLost, WriteActionResult, Return, IdleThread, IInv, TypeOK, ThreadsOK
  <2>4. CASE Execute(s) \/ NoExecutor(s) \/ FinishAction(s)
    BY <2>4 DEF Execute, NoExecutor, FinishAction, Goto, At, IInv, TypeOK, ThreadsOK
  <2> QED BY <1>2, <2>1, <2>2, <2>3, <2>4 DEF RequestStep
<1>3. ASSUME NEW s \in Threads, AbortRequest(s) PROVE ~Past(t, c)'
  BY <1>3 DEF AbortRequest, Return, IdleThread, IInv, TypeOK, ThreadsOK
<1>4. ASSUME NEW s \in Threads, NEW d \in Cards, Approve(s, d) \/ Reject(s, d)
      PROVE  ~Past(t, c)'
  BY <1>4 DEF Approve, Reject, ReadPending, IdleThread, IInv, TypeOK, ThreadsOK
<1> QED
  BY <1>1, <1>2, <1>3, <1>4
  DEF Next, SubmitMessage, SubmitCard, BecomeOverdue, DeleteConversation,
      AbortSubmit, ExpireActions

\* A request that has read a card before maintenance let it expire does not
\* execute or reject it any more, for any number of cards and requests.
THEOREM ExpiryIsRespected == Spec => ExpiredIsNotTakenUp
<1>1. IInv /\ [Next]_vars =>
        [\A c \in Cards, t \in Threads :
            status[c] = "expired" /\ ~Past(t, c) => ~Past(t, c)']_vars
  BY StepLeavesExpired
<1> QED BY <1>1, Invariance, PTL DEF Spec, ExpiredIsNotTakenUp
=============================================================================
