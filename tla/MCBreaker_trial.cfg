\* Two tasks, of which one counts its success after the other has reopened the circuit.
CONSTANTS
    Tasks = {t1, t2}
    failure_threshold = 1
    success_threshold = 2
    recovery_timeout = 1
    RecordsBlocked = FALSE
SPECIFICATION TrialSpec
PROPERTIES ClosesAfterThreshold
CHECK_DEADLOCK FALSE
