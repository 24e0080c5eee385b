\* A caller with fewer attempts than FEs: it takes several calls to reach the
\* one that works, if no URL on the way is refused.  A loop that retries three
\* times: the delay reaches its cap at the third.
CONSTANTS
    Callers = {c1}
    NumFEs = 9
    MaxRetries = 2
    Usize = 16
    BadBase = {}
    RefusedBases = {4}
    Healthy = {7}
    Users = {u1}
    Labels = {l1, l2, l3, l4}
    Chunks = {d1}
    Retriers = {u1}
    max_retries = 3
    base_delay = 100
    max_delay = 350
    Texts <- ErrorTexts
SPECIFICATION RetriesSpec
INVARIANTS
    LogExplainsAttempts DelayDoubles
PROPERTIES
    LoneCallerIsServed EveryCallReturns LoopEnds
CHECK_DEADLOCK FALSE
