SPECIFICATION Spec
CONSTANTS
    RecentAge = 1
    DayAge = 2
    MaxAge = 2
    KernelAge = 2
    Disks = {1, 2}
    Data = {1}
    Slots = {1, 2, 3}
    Sizes = {1, 3}
    StartSizes = {1, 3}
    DayLength = 2
    KeepAge = 2
    MaxTime = 2
    MaxEvents = 1
    MaxOpen = 1
    MaxFaults = 0
    MaxUpsets = 1
INVARIANTS
    CapacityLossIsReported
CHECK_DEADLOCK FALSE
