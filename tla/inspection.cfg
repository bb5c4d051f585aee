SPECIFICATION Spec
CONSTANTS
    RecentAge = 1
    DayAge = 2
    MaxAge = 2
    KernelAge = 2
    Disks = {1, 2}
    Data = {1}
    Slots = {1, 2}
    Sizes = {1, 3}
    StartSizes = {1}
    DayLength = 2
    KeepAge = 2
    MaxTime = 3
    MaxEvents = 2
    MaxOpen = 1
    MaxFaults = 1
    MaxUpsets = 2
INVARIANTS
    VanishedMountIsReported
    OneTrueRow
    RenameIsNoLoss
    RealFaultsAreKept
    ReportedErrorIsNew
CHECK_DEADLOCK FALSE
