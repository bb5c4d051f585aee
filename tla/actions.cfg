SPECIFICATION FairSpec
CONSTANTS
    Cards = {c1}
    Threads = {t1, t2, t3}
    NoCard = NoCard
    MaxAborts = 1
INVARIANTS
    AtMostOnce
    RefusedIsNotExecuted
    SuccessWasExecuted
PROPERTIES
    ExpiredIsNotTakenUp
    PendingIsDecided
    ApprovedIsSettled
CHECK_DEADLOCK FALSE
