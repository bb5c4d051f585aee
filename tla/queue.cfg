SPECIFICATION FairSpec
CONSTANTS
    Workers = {w1, w2}
    Enqueuers = {e1}
    Keys = {k1}
    NoKey = NoKey
    MaxRuns = 2
    MaxAttempts = 2
    RetryDelay = 1
    MaxFaults = 1
    MaxCrashes = 1
INVARIANTS
    OneWorkerPerRun
    NoStrandedRun
    SuccessIsOfLastAttempt
PROPERTIES
    FinishedIsFinal
    ImplementsLifecycle
    EveryRunEnds
CHECK_DEADLOCK FALSE
