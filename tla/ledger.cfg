SPECIFICATION Spec
CONSTANTS
    t1 = t1
    t2 = t2
    web = web
    Environments = {"env"}
    Systems = {}
    Targets = {a, b}
    a = a
    b = b
    Stems = {web}
    Programs <- MCPrograms
    Threads = {t1, t2}
    MaxServers = 2
    MaxServices = 2
    MaxAccounts = 2
    MaxScans = 1
    MaxOperations = 4
SYMMETRY Symmetry
INVARIANTS NothingDangles CredentialsFit PasswordsAreStored ImportIsComplete
PROPERTY AccountsAreLeftAlone
CHECK_DEADLOCK FALSE
