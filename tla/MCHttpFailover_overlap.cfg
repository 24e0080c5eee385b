\* Overlapping callers, three FEs, a usize that wraps unevenly (3 does not
\* divide 8).
CONSTANTS
    Callers = {c1, c2}
    NumFEs = 3
    MaxRetries = 2
    Usize = 8
    BadBase = {}
    Healthy = {}
SPECIFICATION FailoverSpec
SYMMETRY CallerSymmetry
INVARIANTS BoundedWork FailoverCovers FailoverInv
PROPERTIES CallsWindDown
