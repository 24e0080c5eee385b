\* One caller and its own late copies.  BadLabels, and NumFEs, Usize and BadBase of
\* the menus that need others, are given in the module.
CONSTANTS
    Callers = {c1}
    NumFEs = 1
    MaxRetries = 1
    Usize = 3
    BadBase = {}
    Healthy = {}
    Labels = {l1}
    Chunks = {d1}
    BadLabels = {}
    Offered = {"v1", "begin", "load", "prepare", "commit", "rollback", "cancel", "status"}
    MaxInvocations = 1
SPECIFICATION MenuSpec
INVARIANTS OkMeansAchieved ManagerInv StoredPerAttempt OpenHasDeadline
PROPERTIES KeepsContract EveryTransactionEnds
\* A caller stops when every request was made as often as the bound allows.
CHECK_DEADLOCK FALSE
