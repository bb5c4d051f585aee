SPECIFICATION FairSpec
CONSTANTS
    admin = admin
    nobody = nobody
    Requests = {t1, t2}
    Browsers = {b1}
    Names = {admin}
    Admin = admin
    Nobody = nobody
    MaxFailures = 2
    Window = 1
    MaxEdits = 1
INVARIANTS
    FailuresAreBounded
    RoleIsCurrent
PROPERTIES
    LockEnds
