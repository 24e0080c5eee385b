CONSTANTS
    Callers = {c1, c2}
    NumFEs = 2
    MaxRetries = 1
    Usize = 8
    BadBase = {}
    Healthy = {}
SPECIFICATION HttpSpec
PROPERTIES RetryLeavesFailedFE
