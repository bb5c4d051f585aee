---------------------------- MODULE MCTaskScheduler ----------------------------
(* Small instances of TaskScheduler for TLC.                               *)
EXTENDS TaskScheduler

CONSTANTS t1, t2

\* Two tasks of one time or of two, or one and another to be created; an edit
\* gives them other times.
FirstTables ==
    {[t \in {t1, t2} |-> IF t = t1 THEN DailyAt(0) ELSE row] :
        row \in {NoRow, DailyAt(0), DailyAt(1)}}
=============================================================================
