SPECIFICATION Spec
CONSTANTS
    HardwareThreads = {h1}
    DiskThreads = {d1}
    People = {u1}
    Values = {v1, v2}
    None = none
    v1 = v1
    v2 = v2
    Expectations <- NoPlans
    MaxEvents = 1
    MaxPlans = 0
    MaxChanges = 1
    MaxTurns = 1
    MaxResets = 0
    MaxAborts = 0
PROPERTIES
    AcceptanceIsNotLost
