SPECIFICATION FairSpec
CONSTANTS
    HardwareThreads = {h1}
    DiskThreads = {}
    People = {u1}
    Values = {v1, v2}
    None = none
    v1 = v1
    v2 = v2
    Expectations <- EitherHardware
    MaxEvents = 2
    MaxPlans = 2
    MaxChanges = 3
    MaxTurns = 3
    MaxResets = 0
    MaxAborts = 0
PROPERTIES
    ClosedByDecisionOnly
    DeviationIsReported
    RecoveryIsNoticed
    PlanTakesEffect
