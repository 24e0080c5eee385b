\* One caller, one chunk, each operation called once.
CONSTANTS
    Callers = {c1}
    NumFEs = 1
    MaxRetries = 1
    Usize = 3
    BadBase = {}
    Healthy = {}
    Labels = {l1}
    Chunks = {d1}
    BadLabels = {}
    Offered = {"begin", "load", "commit"}
    MaxInvocations = 1
SPECIFICATION Spec
CHECK_DEADLOCK FALSE
INVARIANTS LoadedExactlyOnce
