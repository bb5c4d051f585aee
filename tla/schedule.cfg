SPECIFICATION FairSpec
CONSTANTS
    t1 = t1
    t2 = t2
    Tasks = {t1, t2}
    Tables <- FirstTables
    Users = {u1}
    Scheduler = Scheduler
    NoTask = NoTask
    NoKey = NoKey
    DayMinutes = 2
    MaxMinute = 2
    MaxRequests = 1
    QueueWorkers = 1
    MaxRuns = 3
    MaxAttempts = 1
    MaxCrashes = 1
INVARIANTS
    OneScheduledRunPerMinute
PROPERTIES
    DueTaskIsEnqueued
    MaintenanceGoesOn
CHECK_DEADLOCK FALSE
