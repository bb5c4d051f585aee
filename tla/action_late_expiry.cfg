SPECIFICATION Spec
CONSTANTS
    Cards = {c1}
    Threads = {t1, t2}
    NoCard = NoCard
    MaxAborts = 0
INVARIANTS
    ExpiredWasNotExecuted
CHECK_DEADLOCK FALSE
