------------------------ MODULE InspectionQueueProofs ------------------------
(***************************************************************************)
(* Proofs about InspectionQueue for every number of workers, enqueuing     *)
(* threads, runs, attempts, crashes and database errors.                   *)
(*                                                                         *)
(* IInv is inductive.  Its centre is OneWorkerPerRun: the UPDATEs that     *)
(* settle a run test only run_id, so they are right only because the       *)
(* thread that issues them holds the run, and holding is exclusive.        *)
(***************************************************************************)
EXTENDS InspectionQueue, TLAPS

LEMMA Bounds ==
  /\ 0 \in 0 .. RetryDelay /\ RetryDelay \in 0 .. RetryDelay
  /\ 0 \in 0 .. MaxAttempts
  /\ 0 \in 0 .. MaxRuns
  /\ 0 \in 0 .. MaxFaults
  /\ 0 \in 0 .. MaxCrashes
  BY QueueAssumption

\* Every UPDATE of inspection_runs turns a well-typed row into one.
LEMMA RowUpdates ==
  ASSUME NEW row \in Row
  PROVE  /\ \A p \in Progress : [row EXCEPT !.progress = p] \in Row
         /\ [row EXCEPT !.progress = 100, !.report = row.attempts] \in Row
         /\ row.attempts < MaxAttempts => ClaimedRow(row) \in Row
         /\ FinishedRow(row) \in Row
         /\ RetriedRow(row) \in Row
         /\ RecoveredRow(row) \in Row
         /\ [row EXCEPT !.wait = IF @ > 0 THEN @ - 1 ELSE 0] \in Row
  <1>1. \A p \in Progress : [row EXCEPT !.progress = p] \in Row
    BY DEF Row
  <1>2. [row EXCEPT !.progress = 100, !.report = row.attempts] \in Row
    BY DEF Row, Progress
  <1>3. ASSUME row.attempts < MaxAttempts PROVE ClaimedRow(row) \in Row
    <2>1. row.attempts + 1 \in 0 .. MaxAttempts BY <1>3, QueueAssumption DEF Row
    <2> QED BY <2>1 DEF ClaimedRow, Row, Statuses
  <1>4. FinishedRow(row) \in Row
    BY Bounds DEF FinishedRow, Row, Statuses, Progress
  <1>5. RetriedRow(row) \in Row
    BY Bounds DEF RetriedRow, Row, Statuses, Progress
  <1>6. RecoveredRow(row) \in Row
    BY Bounds DEF RecoveredRow, Row, Statuses
  <1>7. [row EXCEPT !.wait = IF @ > 0 THEN @ - 1 ELSE 0] \in Row
    BY QueueAssumption DEF Row
  <1> QED BY <1>1, <1>2, <1>3, <1>4, <1>5, <1>6, <1>7

\* Every step of every thread, and crash and restart, preserve the inductive
\* invariant.
LEMMA StepPreservesInv == IInv /\ [Next]_vars => IInv'
  <1> USE DEF IInv, TypeOK, HoldersAreBusy, OneWorkerPerRun, RunIds, Attempts,
              NoRun, NoReport, Idle, Busy, At, Goto, Release, Held
  <1> SUFFICES ASSUME IInv, [Next]_vars
               PROVE  IInv'
    OBVIOUS
  <1>rows. \A i \in RunIds : run[i] \in Row
    OBVIOUS
  <1>held. ASSUME NEW w \in Workers, worker[w].pc \in Busy
           PROVE  Held(w) \in RunIds /\ run[Held(w)] \in Row
    BY <1>held
  <1>1. ASSUME NEW e \in Enqueuers, NEW k \in Keys \cup {NoKey},
                CreateRun(e, k)
        PROVE  IInv'
    <2>a. /\ rows + 1 \in RunIds
          /\ run[rows + 1].status = "absent"
          /\ \A w \in Workers : worker[w].run # rows + 1
      <3>1. rows + 1 \in RunIds
        BY <1>1, QueueAssumption DEF CreateRun
      <3>2. run[rows + 1].status = "absent"
        BY <3>1 DEF RowsInOrder
      <3> QED
        BY <3>1, <3>2
    <2>b. [AbsentRow EXCEPT !.status = "queued", !.key = k] \in Row
      BY Bounds DEF AbsentRow, Row, Statuses, Progress
    <2>c. run' \in [RunIds -> Row]
      BY <1>1, <2>a, <2>b DEF CreateRun
    <2>1. TypeOK'
      BY <1>1, <2>a, <2>c, QueueAssumption DEF CreateRun
    <2>2. RowsInOrder' /\ HoldersAreBusy'
      BY <1>1, <2>a, QueueAssumption DEF CreateRun, RowsInOrder, AbsentRow
    <2>3. OneWorkerPerRun' /\ NoStrandedRun'
      BY <1>1, <2>a DEF CreateRun, NoStrandedRun, AbsentRow
    <2>4. QueuedCanBeClaimed' /\ FailedIsExhausted'
      BY <1>1, <2>a, QueueAssumption 
         DEF CreateRun, QueuedCanBeClaimed, FailedIsExhausted, AbsentRow
    <2>5. AttemptIsCurrent' /\ SuccessIsOfLastAttempt'
      BY <1>1, <2>a DEF CreateRun, AttemptIsCurrent, SuccessIsOfLastAttempt, AbsentRow
    <2> QED
      BY <2>1, <2>2, <2>3, <2>4, <2>5
  <1>2. ASSUME NEW e \in Enqueuers, AnnounceQueued(e)
        PROVE  IInv'
    <2>a. enq[e] \in RunIds
      BY <1>2 DEF AnnounceQueued
    <2>b. [run[enq[e]] EXCEPT !.progress = 0] \in Row
      BY <2>a, <1>rows, RowUpdates DEF Progress
    <2>1. TypeOK'
      BY <1>2, <2>a, <2>b, Bounds DEF AnnounceQueued
    <2>2. RowsInOrder' /\ HoldersAreBusy'
      BY <1>2 DEF AnnounceQueued, RowsInOrder
    <2>3. OneWorkerPerRun' /\ NoStrandedRun'
      BY <1>2 DEF AnnounceQueued, NoStrandedRun
    <2>4. QueuedCanBeClaimed' /\ FailedIsExhausted'
      BY <1>2 DEF AnnounceQueued, QueuedCanBeClaimed, FailedIsExhausted
    <2>5. AttemptIsCurrent' /\ SuccessIsOfLastAttempt'
      BY <1>2 DEF AnnounceQueued, AttemptIsCurrent, SuccessIsOfLastAttempt
    <2> QED
      BY <2>1, <2>2, <2>3, <2>4, <2>5
  <1>3. ASSUME NEW e \in Enqueuers, AnnounceRaises(e)
        PROVE  IInv'
    <2>1. TypeOK'
      BY <1>3, QueueAssumption DEF AnnounceRaises
    <2>2. RowsInOrder' /\ HoldersAreBusy'
      BY <1>3 DEF AnnounceRaises, RowsInOrder
    <2>3. OneWorkerPerRun' /\ NoStrandedRun'
      BY <1>3 DEF AnnounceRaises, NoStrandedRun
    <2>4. QueuedCanBeClaimed' /\ FailedIsExhausted'
      BY <1>3 DEF AnnounceRaises, QueuedCanBeClaimed, FailedIsExhausted
    <2>5. AttemptIsCurrent' /\ SuccessIsOfLastAttempt'
      BY <1>3 DEF AnnounceRaises, AttemptIsCurrent, SuccessIsOfLastAttempt
    <2> QED
      BY <2>1, <2>2, <2>3, <2>4, <2>5
  <1>4. ASSUME NEW w \in Workers, Claim(w)
        PROVE  IInv'
    <2>a. PICK i \in RunIds :
             /\ Ready(i)
             /\ run' = [run EXCEPT ![i] = ClaimedRow(@)]
             /\ worker' = [worker EXCEPT ![w] = [pc |-> "claimed", run |-> i]]
      BY <1>4 DEF Claim
    <2>b. ClaimedRow(run[i]) \in Row
      BY <2>a, <1>rows, RowUpdates DEF Ready
    <2>c. \A v \in Workers : worker[v].run # NoRun => v # w
      BY <1>4 DEF Claim
    <2>d. ASSUME NEW v \in Workers
          PROVE  worker[v].run # i
      <3>1. run[i].status = "queued" /\ i # NoRun
        BY <2>a DEF Ready
      <3> QED
        BY <3>1
    <2>1. TypeOK'
      BY <1>4, <2>a, <2>b DEF Claim
    <2>2. RowsInOrder' /\ HoldersAreBusy'
      BY <1>4, <2>a, <1>rows DEF Claim, RowsInOrder, Ready, ClaimedRow, Row
    <2>3. OneWorkerPerRun' /\ NoStrandedRun'
      <3>1. OneWorkerPerRun'
        BY <1>4, <2>a, <2>d, <1>rows DEF Ready, ClaimedRow, Row
      <3>2. ASSUME up', NEW j \in RunIds, run'[j].status = "running"
            PROVE  \E v \in Workers : worker'[v].run = j
        <4>1. CASE j = i
          BY <4>1, <2>a
        <4>2. CASE j # i
          BY <4>2, <3>2, <1>4, <2>a, <2>c DEF NoStrandedRun, Claim
        <4> QED
          BY <4>1, <4>2
      <3> QED
        BY <3>1, <3>2 DEF NoStrandedRun
    <2>4. QueuedCanBeClaimed' /\ FailedIsExhausted'
      BY <1>4, <2>a, <1>rows DEF QueuedCanBeClaimed, FailedIsExhausted, ClaimedRow, Row
    <2>5. AttemptIsCurrent' /\ SuccessIsOfLastAttempt'
      <3>1. run'[i].attempts \in Attempts /\ run'[i].status = "running"
        <4>1. run'[i].status = "running" /\ run'[i].attempts = run[i].attempts + 1
          BY <2>a, <1>rows DEF ClaimedRow, Row
        <4>2. run[i].attempts \in 0 .. MaxAttempts
          BY <1>rows DEF Row
        <4> QED
          BY <4>1, <4>2, <2>a, QueueAssumption DEF Ready
      <3>2. AttemptIsCurrent'
        BY <1>4, <2>a, <2>c, <2>d, <3>1 DEF Claim, AttemptIsCurrent
      <3>3. SuccessIsOfLastAttempt'
        BY <1>4, <2>a, <3>1 DEF Claim, SuccessIsOfLastAttempt
      <3> QED
        BY <3>2, <3>3
    <2> QED
      BY <2>1, <2>2, <2>3, <2>4, <2>5
  <1>5. ASSUME NEW w \in Workers, ClaimNothing(w)
        PROVE  IInv'
    <2>1. TypeOK'
      BY <1>5 DEF ClaimNothing
    <2>2. RowsInOrder' /\ HoldersAreBusy'
      BY <1>5 DEF ClaimNothing, RowsInOrder
    <2>3. OneWorkerPerRun' /\ NoStrandedRun'
      BY <1>5 DEF ClaimNothing, NoStrandedRun
    <2>4. QueuedCanBeClaimed' /\ FailedIsExhausted'
      BY <1>5 DEF ClaimNothing, QueuedCanBeClaimed, FailedIsExhausted
    <2>5. AttemptIsCurrent' /\ SuccessIsOfLastAttempt'
      BY <1>5 DEF ClaimNothing, AttemptIsCurrent, SuccessIsOfLastAttempt
    <2> QED
      BY <2>1, <2>2, <2>3, <2>4, <2>5
  <1>6. ASSUME NEW w \in Workers, WaitEnds(w)
        PROVE  IInv'
    <2>1. TypeOK'
      BY <1>6 DEF WaitEnds
    <2>2. RowsInOrder' /\ HoldersAreBusy'
      BY <1>6 DEF WaitEnds, RowsInOrder
    <2>3. OneWorkerPerRun' /\ NoStrandedRun'
      BY <1>6 DEF WaitEnds, NoStrandedRun
    <2>4. QueuedCanBeClaimed' /\ FailedIsExhausted'
      BY <1>6 DEF WaitEnds, QueuedCanBeClaimed, FailedIsExhausted
    <2>5. AttemptIsCurrent' /\ SuccessIsOfLastAttempt'
      BY <1>6 DEF WaitEnds, AttemptIsCurrent, SuccessIsOfLastAttempt
    <2> QED
      BY <2>1, <2>2, <2>3, <2>4, <2>5
  <1>7. ASSUME NEW w \in Workers, ClearResults(w)
        PROVE  IInv'
    <2>1. TypeOK'
      BY <1>7 DEF ClearResults
    <2>2. RowsInOrder' /\ HoldersAreBusy'
      BY <1>7 DEF ClearResults, RowsInOrder
    <2>3. OneWorkerPerRun' /\ NoStrandedRun'
      BY <1>7 DEF ClearResults, NoStrandedRun
    <2>4. QueuedCanBeClaimed' /\ FailedIsExhausted'
      BY <1>7 DEF ClearResults, QueuedCanBeClaimed, FailedIsExhausted
    <2>5. AttemptIsCurrent' /\ SuccessIsOfLastAttempt'
      BY <1>7 DEF ClearResults, AttemptIsCurrent, SuccessIsOfLastAttempt
    <2> QED
      BY <2>1, <2>2, <2>3, <2>4, <2>5
  <1>8. ASSUME NEW w \in Workers, BeginInspection(w)
        PROVE  IInv'
    <2>h. Held(w) \in RunIds /\ run[Held(w)] \in Row
      BY <1>8, <1>held DEF BeginInspection
    <2>a. [run[Held(w)] EXCEPT !.progress = 0] \in Row
      BY <2>h, RowUpdates DEF Progress
    <2>1. TypeOK'
      BY <1>8, <2>h, <2>a DEF BeginInspection
    <2>2. RowsInOrder' /\ HoldersAreBusy'
      BY <1>8 DEF BeginInspection, RowsInOrder
    <2>3. OneWorkerPerRun' /\ NoStrandedRun'
      BY <1>8 DEF BeginInspection, NoStrandedRun
    <2>4. QueuedCanBeClaimed' /\ FailedIsExhausted'
      BY <1>8 DEF BeginInspection, QueuedCanBeClaimed, FailedIsExhausted
    <2>5. AttemptIsCurrent' /\ SuccessIsOfLastAttempt'
      BY <1>8 DEF BeginInspection, AttemptIsCurrent, SuccessIsOfLastAttempt
    <2> QED
      BY <2>1, <2>2, <2>3, <2>4, <2>5
  <1>9. ASSUME NEW w \in Workers, AddResult(w)
        PROVE  IInv'
    <2>h. Held(w) \in RunIds /\ run[Held(w)] \in Row
      BY <1>9, <1>held DEF AddResult
    <2>a. [run[Held(w)] EXCEPT !.progress = 50] \in Row
      BY <2>h, RowUpdates DEF Progress
    <2>b. run[Held(w)].attempts \in Attempts
      BY <1>9 DEF AddResult, AttemptIsCurrent
    <2>1. TypeOK'
      BY <1>9, <2>a, <2>b DEF AddResult
    <2>2. RowsInOrder' /\ HoldersAreBusy'
      BY <1>9 DEF AddResult, RowsInOrder
    <2>3. OneWorkerPerRun' /\ NoStrandedRun'
      BY <1>9 DEF AddResult, NoStrandedRun
    <2>4. QueuedCanBeClaimed' /\ FailedIsExhausted'
      BY <1>9 DEF AddResult, QueuedCanBeClaimed, FailedIsExhausted
    <2>5. AttemptIsCurrent' /\ SuccessIsOfLastAttempt'
      BY <1>9 DEF AddResult, AttemptIsCurrent, SuccessIsOfLastAttempt
    <2> QED
      BY <2>1, <2>2, <2>3, <2>4, <2>5
  <1>10. ASSUME NEW w \in Workers, ReportGenerated(w)
        PROVE  IInv'
    <2>h. Held(w) \in RunIds /\ run[Held(w)] \in Row
      BY <1>10, <1>held DEF ReportGenerated
    <2>a. [run[Held(w)] EXCEPT !.progress = 100, !.report = run[Held(w)].attempts] \in Row
      BY <2>h, RowUpdates
    <2>1. TypeOK'
      BY <1>10, <2>h, <2>a DEF ReportGenerated
    <2>2. RowsInOrder' /\ HoldersAreBusy'
      BY <1>10 DEF ReportGenerated, RowsInOrder
    <2>3. OneWorkerPerRun' /\ NoStrandedRun'
      BY <1>10 DEF ReportGenerated, NoStrandedRun
    <2>4. QueuedCanBeClaimed' /\ FailedIsExhausted'
      BY <1>10 DEF ReportGenerated, QueuedCanBeClaimed, FailedIsExhausted
    <2>5. AttemptIsCurrent' /\ SuccessIsOfLastAttempt'
      <3>1. /\ run'[Held(w)].report = run'[Held(w)].attempts
            /\ run'[Held(w)].attempts = run[Held(w)].attempts
            /\ \A i \in RunIds \ {Held(w)} : run'[i] = run[i]
            /\ \A v \in Workers \ {w} : Held(v) # NoRun => Held(v) # Held(w)
        BY <1>10, <2>h DEF ReportGenerated, Row
      <3>2. AttemptIsCurrent'
        <4>1. worker'[w].pc = "finishing" /\ Held(w)' = Held(w)
          BY <1>10 DEF ReportGenerated
        <4>2. \A v \in Workers \ {w} : worker'[v] = worker[v]
          BY <1>10 DEF ReportGenerated
        <4>3. ASSUME NEW v \in Workers \ {w}, worker[v].pc \in Busy
              PROVE  Held(v) \in RunIds \ {Held(w)} /\ run'[Held(v)] = run[Held(v)]
          BY <4>3, <1>held, <3>1
        <4>4. results' = results
          BY <1>10 DEF ReportGenerated
        <4>5. ASSUME NEW v \in Workers \ {w}
              PROVE  AttemptIsCurrent!(v)'
          BY <4>2, <4>3, <4>4 DEF AttemptIsCurrent
        <4>6. AttemptIsCurrent!(w)'
          <5>1. results[Held(w)] \subseteq {run[Held(w)].attempts}
            BY <1>10 DEF ReportGenerated, AttemptIsCurrent
          <5>2. run[Held(w)].attempts \in Attempts
            BY <1>10 DEF ReportGenerated, AttemptIsCurrent
          <5> QED
            BY <4>1, <4>4, <3>1, <5>1, <5>2
        <4> QED
          BY <4>5, <4>6 DEF AttemptIsCurrent
      <3>3. SuccessIsOfLastAttempt'
        <4>1. results' = results /\ run'[Held(w)].status = "running"
          BY <1>10, <2>h DEF ReportGenerated, Row
        <4> QED
          BY <4>1, <3>1 DEF SuccessIsOfLastAttempt
      <3> QED
        BY <3>2, <3>3
    <2> QED
      BY <2>1, <2>2, <2>3, <2>4, <2>5
  <1>11. ASSUME NEW w \in Workers, ReportFails(w)
        PROVE  IInv'
    <2>h. Held(w) \in RunIds /\ run[Held(w)] \in Row
      BY <1>11, <1>held DEF ReportFails
    <2>a. [run[Held(w)] EXCEPT !.progress = 100] \in Row
      BY <2>h, RowUpdates DEF Progress
    <2>1. TypeOK'
      BY <1>11, <2>h, <2>a DEF ReportFails
    <2>2. RowsInOrder' /\ HoldersAreBusy'
      BY <1>11 DEF ReportFails, RowsInOrder
    <2>3. OneWorkerPerRun' /\ NoStrandedRun'
      BY <1>11 DEF ReportFails, NoStrandedRun
    <2>4. QueuedCanBeClaimed' /\ FailedIsExhausted'
      BY <1>11 DEF ReportFails, QueuedCanBeClaimed, FailedIsExhausted
    <2>5. AttemptIsCurrent' /\ SuccessIsOfLastAttempt'
      BY <1>11 DEF ReportFails, AttemptIsCurrent, SuccessIsOfLastAttempt
    <2> QED
      BY <2>1, <2>2, <2>3, <2>4, <2>5
  <1>12. ASSUME NEW w \in Workers, InspectionRaises(w)
        PROVE  IInv'
    <2>1. TypeOK'
      BY <1>12 DEF InspectionRaises
    <2>2. RowsInOrder' /\ HoldersAreBusy'
      BY <1>12 DEF InspectionRaises, RowsInOrder
    <2>3. OneWorkerPerRun' /\ NoStrandedRun'
      BY <1>12 DEF InspectionRaises, NoStrandedRun
    <2>4. QueuedCanBeClaimed' /\ FailedIsExhausted'
      BY <1>12 DEF InspectionRaises, QueuedCanBeClaimed, FailedIsExhausted
    <2>5. AttemptIsCurrent' /\ SuccessIsOfLastAttempt'
      BY <1>12 DEF InspectionRaises, AttemptIsCurrent, SuccessIsOfLastAttempt
    <2> QED
      BY <2>1, <2>2, <2>3, <2>4, <2>5
  <1>13. ASSUME NEW w \in Workers, Finish(w)
        PROVE  IInv'
    <2>h. Held(w) \in RunIds /\ run[Held(w)] \in Row
      BY <1>13, <1>held DEF Finish
    <2>a. FinishedRow(run[Held(w)]) \in Row
      BY <2>h, RowUpdates
    <2>b. run'[Held(w)] = FinishedRow(run[Held(w)])
      BY <1>13, <2>h DEF Finish
    <2>1. TypeOK'
      BY <1>13, <2>h, <2>a, Bounds DEF Finish
    <2>2. RowsInOrder' /\ HoldersAreBusy'
      BY <1>13 DEF Finish, FinishedRow, RowsInOrder
    <2>3. OneWorkerPerRun' /\ NoStrandedRun'
      BY <1>13 DEF Finish, FinishedRow, NoStrandedRun
    <2>4. QueuedCanBeClaimed' /\ FailedIsExhausted'
      BY <1>13 DEF Finish, FinishedRow, QueuedCanBeClaimed, FailedIsExhausted
    <2>5. AttemptIsCurrent' /\ SuccessIsOfLastAttempt'
      <3>1. AttemptIsCurrent'
        BY <1>13 DEF Finish, FinishedRow, AttemptIsCurrent
      <3>2. ASSUME NEW i \in RunIds, run'[i].status = "success"
            PROVE  /\ results'[i] \subseteq {run'[i].attempts}
                   /\ run'[i].report = run'[i].attempts
        <4>1. CASE i = Held(w)
          BY <4>1, <1>13, <2>h, <2>b DEF Finish, FinishedRow, AttemptIsCurrent, Row
        <4>2. CASE i # Held(w)
          BY <4>2, <3>2, <1>13 DEF Finish, SuccessIsOfLastAttempt
        <4> QED
          BY <4>1, <4>2
      <3> QED
        BY <3>1, <3>2 DEF SuccessIsOfLastAttempt
    <2> QED
      BY <2>1, <2>2, <2>3, <2>4, <2>5
  <1>14. ASSUME NEW w \in Workers, RetryOrFail(w)
        PROVE  IInv'
    <2>h. Held(w) \in RunIds /\ run[Held(w)] \in Row
      BY <1>14, <1>held DEF RetryOrFail
    <2>a. RetriedRow(run[Held(w)]) \in Row
      BY <2>h, RowUpdates
    <2>1. TypeOK'
      BY <1>14, <2>h, <2>a, Bounds DEF RetryOrFail
    <2>2. RowsInOrder' /\ HoldersAreBusy'
      BY <1>14 DEF RetryOrFail, RetriedRow, RowsInOrder
    <2>3. OneWorkerPerRun' /\ NoStrandedRun'
      BY <1>14 DEF RetryOrFail, RetriedRow, NoStrandedRun
    <2>4. QueuedCanBeClaimed' /\ FailedIsExhausted'
      <3>1. /\ RetriedRow(run[Held(w)]).attempts = run[Held(w)].attempts
            /\ RetriedRow(run[Held(w)]).status = "queued" =>
                  run[Held(w)].attempts < MaxAttempts
            /\ RetriedRow(run[Held(w)]).status = "failed" =>
                  run[Held(w)].attempts = MaxAttempts
        BY <2>h, QueueAssumption DEF RetriedRow, Row
      <3> QED
        BY <1>14, <2>h, <3>1 DEF RetryOrFail, QueuedCanBeClaimed, FailedIsExhausted
    <2>5. AttemptIsCurrent' /\ SuccessIsOfLastAttempt'
      BY <1>14 DEF RetryOrFail, RetriedRow, AttemptIsCurrent, SuccessIsOfLastAttempt
    <2> QED
      BY <2>1, <2>2, <2>3, <2>4, <2>5
  <1>15. ASSUME NEW w \in Workers, DatabaseRaises(w)
        PROVE  IInv'
    <2>1. TypeOK'
      BY <1>15, QueueAssumption DEF DatabaseRaises, AfterError
    <2>2. RowsInOrder' /\ HoldersAreBusy'
      BY <1>15 DEF DatabaseRaises, AfterError, RowsInOrder
    <2>3. OneWorkerPerRun' /\ NoStrandedRun'
      BY <1>15 DEF DatabaseRaises, AfterError, NoStrandedRun
    <2>4. QueuedCanBeClaimed' /\ FailedIsExhausted'
      BY <1>15 DEF DatabaseRaises, AfterError, QueuedCanBeClaimed, FailedIsExhausted
    <2>5. AttemptIsCurrent' /\ SuccessIsOfLastAttempt'
      BY <1>15 DEF DatabaseRaises, AfterError, AttemptIsCurrent, SuccessIsOfLastAttempt
    <2> QED
      BY <2>1, <2>2, <2>3, <2>4, <2>5
  <1>16. ASSUME Tick
        PROVE  IInv'
    <2>a. ASSUME NEW i \in RunIds
          PROVE  /\ run'[i] \in Row
                 /\ run'[i].status = run[i].status
                 /\ run'[i].attempts = run[i].attempts
                 /\ run'[i].report = run[i].report
      <3>1. run'[i] = [run[i] EXCEPT !.wait = IF @ > 0 THEN @ - 1 ELSE 0]
        BY <1>16 DEF Tick
      <3>2. run'[i] \in Row
        <4>1. run[i] \in Row
          BY <1>rows
        <4> QED
          BY <3>1, <4>1, RowUpdates
      <3> QED
        BY <3>1, <3>2, <1>rows DEF Row
    <2>1. TypeOK'
      BY <1>16, <2>a DEF Tick
    <2>2. RowsInOrder' /\ HoldersAreBusy'
      BY <1>16, <2>a DEF Tick, RowsInOrder
    <2>3. OneWorkerPerRun' /\ NoStrandedRun'
      BY <1>16, <2>a DEF Tick, NoStrandedRun
    <2>4. QueuedCanBeClaimed' /\ FailedIsExhausted'
      BY <2>a DEF QueuedCanBeClaimed, FailedIsExhausted
    <2>5. AttemptIsCurrent' /\ SuccessIsOfLastAttempt'
      BY <1>16, <2>a DEF Tick, AttemptIsCurrent, SuccessIsOfLastAttempt
    <2> QED
      BY <2>1, <2>2, <2>3, <2>4, <2>5
  <1>17. ASSUME Crash
        PROVE  IInv'
    <2>1. TypeOK'
      <3>1. crashes' \in 0 .. MaxCrashes
        BY <1>17, QueueAssumption DEF Crash
      <3> QED
        BY <1>17, <3>1, Bounds DEF Crash
    <2>2. RowsInOrder' /\ HoldersAreBusy'
      BY <1>17 DEF Crash, RowsInOrder
    <2>3. OneWorkerPerRun' /\ NoStrandedRun'
      BY <1>17 DEF Crash, NoStrandedRun
    <2>4. QueuedCanBeClaimed' /\ FailedIsExhausted'
      BY <1>17 DEF Crash, QueuedCanBeClaimed, FailedIsExhausted
    <2>5. AttemptIsCurrent' /\ SuccessIsOfLastAttempt'
      BY <1>17 DEF Crash, AttemptIsCurrent, SuccessIsOfLastAttempt
    <2> QED
      BY <2>1, <2>2, <2>3, <2>4, <2>5
  <1>18. ASSUME Start
        PROVE  IInv'
    <2>a. \A i \in RunIds : run'[i] = RecoveredRow(run[i])
      BY <1>18 DEF Start
    <2>b. ASSUME NEW i \in RunIds
          PROVE  run'[i] \in Row
      <3>1. run[i] \in Row
        BY <1>rows
      <3> QED
        BY <2>a, <3>1, RowUpdates
    <2>c. \A i \in RunIds :
             /\ run'[i].attempts = run[i].attempts
             /\ run'[i].report = run[i].report
             /\ run[i].status # "running" => run'[i].status = run[i].status
             /\ run[i].status = "running" /\ run[i].attempts < MaxAttempts =>
                   run'[i].status = "queued"
             /\ run[i].status = "running" /\ ~(run[i].attempts < MaxAttempts) =>
                   run'[i].status = "failed"
      <3> SUFFICES ASSUME NEW i \in RunIds
                   PROVE  /\ run'[i].attempts = run[i].attempts
                          /\ run'[i].report = run[i].report
                          /\ run[i].status # "running" => run'[i].status = run[i].status
                          /\ run[i].status = "running" /\ run[i].attempts < MaxAttempts =>
                                run'[i].status = "queued"
                          /\ run[i].status = "running" /\ ~(run[i].attempts < MaxAttempts) =>
                                run'[i].status = "failed"
        OBVIOUS
      <3> QED
        BY <2>a, <1>rows DEF RecoveredRow, Row
    <2>d. \A i \in RunIds :
             ~(run[i].attempts < MaxAttempts) => run[i].attempts = MaxAttempts
      BY <1>rows, QueueAssumption DEF Row
    <2>1. TypeOK'
      BY <1>18, <2>b DEF Start
    <2>2. RowsInOrder' /\ HoldersAreBusy'
      <3>1. \A i \in RunIds : /\ run'[i].status = "absent" <=> run[i].status = "absent"
                              /\ run'[i].attempts = run[i].attempts
        BY <2>c
      <3> QED
        BY <1>18, <3>1 DEF Start, RowsInOrder
    <2>3. OneWorkerPerRun' /\ NoStrandedRun'
      <3>1. \A i \in RunIds : run'[i].status # "running"
        BY <2>c
      <3> QED
        BY <1>18, <3>1 DEF Start, NoStrandedRun
    <2>4. QueuedCanBeClaimed' /\ FailedIsExhausted'
      BY <2>c, <2>d DEF QueuedCanBeClaimed, FailedIsExhausted
    <2>5. AttemptIsCurrent' /\ SuccessIsOfLastAttempt'
      <3>1. \A i \in RunIds : run'[i].status = "success" => run[i].status = "success"
        BY <2>c
      <3> QED
        BY <1>18, <2>c, <3>1 DEF Start, AttemptIsCurrent, SuccessIsOfLastAttempt
    <2> QED
      BY <2>1, <2>2, <2>3, <2>4, <2>5
  <1>19. ASSUME UNCHANGED vars
        PROVE  IInv'
    BY <1>19 DEF vars, RowsInOrder, NoStrandedRun, QueuedCanBeClaimed,
           FailedIsExhausted, AttemptIsCurrent, SuccessIsOfLastAttempt
  <1> QED
    BY <1>1, <1>2, <1>3, <1>4, <1>5, <1>6, <1>7, <1>8, <1>9, <1>10, <1>11,
       <1>12, <1>13, <1>14, <1>15, <1>16, <1>17, <1>18, <1>19 DEF Next,
       EnqueuerNext, WorkerStep

\* An empty table and a process that has not started satisfy the invariant.
LEMMA InitImpliesInv == Init => IInv
  <1> SUFFICES ASSUME Init
               PROVE  IInv
    OBVIOUS
  <1>1. AbsentRow \in Row
    BY Bounds DEF AbsentRow, Row, Statuses, Progress, NoReport
  <1>2. TypeOK
    BY <1>1, Bounds DEF Init, TypeOK, NoRun, Idle
  <1>3. RowsInOrder /\ HoldersAreBusy
    BY QueueAssumption DEF Init, RowsInOrder, HoldersAreBusy, AbsentRow, RunIds, NoRun, Busy
  <1>4. OneWorkerPerRun /\ NoStrandedRun
    BY DEF Init, OneWorkerPerRun, NoStrandedRun, NoRun
  <1>5. QueuedCanBeClaimed /\ FailedIsExhausted /\ SuccessIsOfLastAttempt
    BY DEF Init, QueuedCanBeClaimed, FailedIsExhausted, SuccessIsOfLastAttempt, AbsentRow
  <1>6. AttemptIsCurrent
    BY DEF Init, AttemptIsCurrent, Busy
  <1> QED
    BY <1>2, <1>3, <1>4, <1>5, <1>6 DEF IInv

\* The inductive invariant holds in every reachable state.
THEOREM Invariance == Spec => []IInv
  BY InitImpliesInv, StepPreservesInv, PTL DEF Spec

\* Rows, threads and counters keep their types.
THEOREM TypeCorrect == Spec => []TypeOK
  BY Invariance, PTL DEF IInv

\* claim_next_inspection_run hands a run to one worker only.
THEOREM Ownership == Spec => []OneWorkerPerRun
  BY Invariance, PTL DEF IInv

\* A run that is "running" while the process is up has a worker: recovery at
\* the start leaves none behind (queue_worker_loop, start_queue_workers).
THEOREM NoRunIsStranded == Spec => []NoStrandedRun
  BY Invariance, PTL DEF IInv

\* Retry and recovery never leave a queued run that no claim can take, nor
\* fail a run with attempts left.
THEOREM AttemptsAreBounded == Spec => [](QueuedCanBeClaimed /\ FailedIsExhausted)
  BY Invariance, PTL DEF IInv

\* The report and the result rows of a successful run are its last attempt's.
THEOREM SuccessIsConsistent == Spec => []SuccessIsOfLastAttempt
  BY Invariance, PTL DEF IInv

\* No step touches the status, attempts, report or results of a finished run.
LEMMA StepKeepsFinished ==
  ASSUME IInv, [Next]_vars,
         NEW i \in RunIds, run[i].status \in {"success", "failed"}
  PROVE  /\ run'[i].status = run[i].status
         /\ run'[i].attempts = run[i].attempts
         /\ run'[i].report = run[i].report
         /\ results'[i] = results[i]
  <1> DEFINE Kept == /\ run'[i].status = run[i].status
                     /\ run'[i].attempts = run[i].attempts
                     /\ run'[i].report = run[i].report
                     /\ results'[i] = results[i]
  <1>row. run[i] \in Row /\ run \in [RunIds -> Row] /\ results \in [RunIds -> SUBSET Attempts]
    BY DEF IInv, TypeOK
  <1>held. \A w \in Workers : worker[w].pc \in Busy => Held(w) # i
    BY DEF IInv, OneWorkerPerRun, HoldersAreBusy, Held
  <1>1. ASSUME NEW e \in Enqueuers, EnqueuerNext(e) PROVE Kept
    <2>1. ASSUME NEW k \in Keys \cup {NoKey}, CreateRun(e, k) PROVE Kept
      <3>1. i # rows + 1
        BY <2>1, QueueAssumption DEF IInv, TypeOK, RowsInOrder, RunIds
      <3> QED
        BY <2>1, <3>1, <1>row DEF CreateRun
    <2>2. CASE AnnounceQueued(e)
      BY <2>2, <1>row DEF AnnounceQueued, Row
    <2>3. CASE AnnounceRaises(e)
      BY <2>3 DEF AnnounceRaises
    <2> QED
      BY <1>1, <2>1, <2>2, <2>3 DEF EnqueuerNext
  <1>2. ASSUME NEW w \in Workers, Claim(w) PROVE Kept
    BY <1>2, <1>row DEF Claim, Ready
  <1>3. ASSUME NEW w \in Workers, ClaimNothing(w) \/ WaitEnds(w) \/ InspectionRaises(w) \/ DatabaseRaises(w)
        PROVE  Kept
    BY <1>3 DEF ClaimNothing, WaitEnds, InspectionRaises, DatabaseRaises
  <1>4. ASSUME NEW w \in Workers, worker[w].pc \in Busy,
               \/ ClearResults(w) \/ BeginInspection(w) \/ AddResult(w) \/ ReportGenerated(w)
               \/ ReportFails(w) \/ Finish(w) \/ RetryOrFail(w)
        PROVE  Kept
    BY <1>4, <1>held, <1>row
       DEF ClearResults, BeginInspection, AddResult, ReportGenerated, ReportFails, Finish, RetryOrFail
  <1>5. ASSUME NEW w \in Workers, WorkerStep(w) PROVE Kept
    BY <1>2, <1>3, <1>4, <1>5
       DEF WorkerStep, ClearResults, BeginInspection, AddResult, ReportGenerated, ReportFails,
           Finish, RetryOrFail, At, Busy
  <1>6. CASE Tick
    BY <1>6, <1>row DEF Tick, Row
  <1>7. CASE Crash \/ UNCHANGED vars
    BY <1>7 DEF Crash, vars
  <1>8. CASE Start
    BY <1>8, <1>row DEF Start, RecoveredRow
  <1> QED
    BY <1>1, <1>3, <1>5, <1>6, <1>7, <1>8 DEF Next

\* Success and failure are terminal, in spite of the unguarded UPDATEs.
THEOREM FinishedRunsAreFinal == Spec => FinishedIsFinal
  <1>1. IInv /\ [Next]_vars =>
          [\A i \in RunIds : run[i].status \in {"success", "failed"} =>
              /\ run'[i].status = run[i].status
              /\ run'[i].attempts = run[i].attempts
              /\ run'[i].report = run[i].report
              /\ results'[i] = results[i]]_vars
    BY StepKeepsFinished
  <1> QED
    BY <1>1, Invariance, PTL DEF Spec, FinishedIsFinal

\* Every step of the queue is a step of RunLifecycle or leaves its view alone.
LEMMA StepImplementsLifecycle ==
  ASSUME IInv, [Next]_vars
  PROVE  [Lives!Next]_Lives!vars
  <1> DEFINE status == [i \in RunIds |-> run[i].status]
             attempts == [i \in RunIds |-> run[i].attempts]
  <1> USE DEF Lives!vars
  <1>row. run \in [RunIds -> Row] /\ \A i \in RunIds : run[i] \in Row
    BY DEF IInv, TypeOK
  <1>held. ASSUME NEW w \in Workers, worker[w].pc \in Busy
           PROVE  Held(w) \in RunIds /\ run[Held(w)].status = "running" /\ run[Held(w)] \in Row
    BY <1>row, <1>held DEF IInv, TypeOK, OneWorkerPerRun, HoldersAreBusy, Held, NoRun, RunIds
  \* A step that keeps every status and attempt count stutters.
  <1>same. ASSUME \A i \in RunIds : run'[i].status = run[i].status /\ run'[i].attempts = run[i].attempts
           PROVE  UNCHANGED Lives!vars
    BY <1>same
  \* A step that changes the status of one row, and no attempt count.
  <1>one. ASSUME NEW j \in RunIds, NEW s,
                 \A i \in RunIds : /\ run'[i].status = IF i = j THEN s ELSE run[i].status
                                   /\ run'[i].attempts = run[i].attempts
          PROVE  status' = [status EXCEPT ![j] = s] /\ attempts' = attempts
    BY <1>one
  <1>1. ASSUME NEW e \in Enqueuers, NEW k \in Keys \cup {NoKey}, CreateRun(e, k)
        PROVE  Lives!Next
    <2>1. rows + 1 \in RunIds /\ run[rows + 1].status = "absent" /\ run[rows + 1].attempts = 0
      BY <1>1, QueueAssumption DEF CreateRun, IInv, TypeOK, RowsInOrder, RunIds
    <2>2. \A i \in RunIds : /\ run'[i].status = IF i = rows + 1 THEN "queued" ELSE run[i].status
                            /\ run'[i].attempts = run[i].attempts
      BY <1>1, <2>1, <1>row DEF CreateRun, AbsentRow
    <2> QED
      BY <2>1, <2>2, <1>one DEF Lives!Next, Lives!Submit
  <1>2. ASSUME NEW w \in Workers, Claim(w)
        PROVE  Lives!Next
    <2>1. PICK i \in RunIds : Ready(i) /\ run' = [run EXCEPT ![i] = ClaimedRow(@)]
      BY <1>2 DEF Claim
    <2>2. /\ status' = [status EXCEPT ![i] = "running"]
          /\ attempts' = [attempts EXCEPT ![i] = @ + 1]
      BY <2>1, <1>row DEF ClaimedRow, Row
    <2> QED
      BY <2>1, <2>2 DEF Ready, Lives!Next, Lives!Begin
  <1>3. ASSUME NEW w \in Workers, Finish(w)
        PROVE  Lives!Next
    <2>1. Held(w) \in RunIds /\ run[Held(w)].status = "running" /\ run[Held(w)] \in Row
      BY <1>3, <1>held DEF Finish, At, Busy
    <2>2. \A i \in RunIds : /\ run'[i].status = IF i = Held(w) THEN "success" ELSE run[i].status
                            /\ run'[i].attempts = run[i].attempts
      BY <1>3, <2>1, <1>row DEF Finish, FinishedRow, Row
    <2> QED
      BY <2>1, <2>2, <1>one DEF Lives!Next, Lives!Succeed
  <1>4. ASSUME NEW w \in Workers, RetryOrFail(w)
        PROVE  Lives!Next
    <2>1. Held(w) \in RunIds /\ run[Held(w)].status = "running" /\ run[Held(w)] \in Row
      BY <1>4, <1>held DEF RetryOrFail, At, Busy
    <2>2. \A i \in RunIds :
             /\ run'[i].status = IF i = Held(w) THEN Lives!Unsuccessful(Held(w)) ELSE run[i].status
             /\ run'[i].attempts = run[i].attempts
      BY <1>4, <2>1, <1>row DEF RetryOrFail, RetriedRow, Row, Lives!Unsuccessful
    <2> QED
      BY <2>1, <2>2, <1>one DEF Lives!Next, Lives!Fail
  <1>5. CASE Start
    <2>1. \A i \in RunIds : /\ run'[i].attempts = run[i].attempts
                            /\ run'[i].status = IF run[i].status = "running"
                                                THEN Lives!Unsuccessful(i) ELSE run[i].status
      BY <1>5, <1>row DEF Start, RecoveredRow, Row, Lives!Unsuccessful
    <2> QED
      BY <2>1 DEF Lives!Next, Lives!Interrupt
  <1>6. CASE Tick
    BY <1>6, <1>row, <1>same DEF Tick, Row
  <1>7. ASSUME NEW e \in Enqueuers, AnnounceQueued(e) \/ AnnounceRaises(e)
        PROVE  UNCHANGED Lives!vars
    BY <1>7, <1>row, <1>same DEF AnnounceQueued, AnnounceRaises, Row
  <1>8. ASSUME NEW w \in Workers, BeginInspection(w) \/ AddResult(w) \/ ReportGenerated(w) \/ ReportFails(w)
        PROVE  UNCHANGED Lives!vars
    BY <1>8, <1>row, <1>same DEF BeginInspection, AddResult, ReportGenerated, ReportFails, Row
  <1>9. ASSUME NEW w \in Workers,
               \/ ClaimNothing(w) \/ WaitEnds(w) \/ ClearResults(w) \/ InspectionRaises(w)
               \/ DatabaseRaises(w)
        PROVE  UNCHANGED Lives!vars
    BY <1>9 DEF ClaimNothing, WaitEnds, ClearResults, InspectionRaises, DatabaseRaises
  <1>10. CASE Crash \/ UNCHANGED vars
    BY <1>10 DEF Crash, vars
  <1> QED
    BY <1>1, <1>2, <1>3, <1>4, <1>5, <1>6, <1>7, <1>8, <1>9, <1>10
       DEF Next, EnqueuerNext, WorkerStep

\* The queue implements the abstract life cycle of its runs.
THEOREM QueueImplementsLifecycle == Spec => ImplementsLifecycle
  <1>1. Init => Lives!Init
    BY DEF Init, Lives!Init, AbsentRow
  <1>2. IInv /\ [Next]_vars => [Lives!Next]_Lives!vars
    BY StepImplementsLifecycle
  <1> QED
    BY <1>1, <1>2, Invariance, PTL DEF Spec, ImplementsLifecycle, Lives!Spec
=============================================================================
