\* One loop with the default delays; a u64 of 30 bits.
CONSTANTS
    Users = {u1}
    Retriers = {u1}
    Labels = {l1, l2}
    Chunks = {d1}
    MaxChunkCopies = 1
    base_delay_ms = 100
    max_delay_ms = 30000
    max_attempts = 5
    jitter_percent = 10
    Width = 30
    OverflowChecks = FALSE
SPECIFICATION BackoffSpec
INVARIANTS DelayCapped
CHECK_DEADLOCK FALSE
