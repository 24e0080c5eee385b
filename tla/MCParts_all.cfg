\* Two tasks (three loads, two nodes, three records) in each of the parts.
\* Four FEs, of which one has a URL that join refuses and one always answers;
\* 4 divides 8, so the wrap of the cursor is seamless.
CONSTANTS
    Callers = {u1, u2}
    NumFEs = 4
    MaxRetries = 4
    Usize = 8
    BadBase = {3}
    Healthy = {2}
    Tasks = {t1, t2}
    failure_threshold = 2
    success_threshold = 2
    recovery_timeout = 1
    RecordsBlocked = FALSE
    Recorders = {t1, t2}
    Durations = {1, 2}
    MaxU64 = 3
    MaxCalls = 3
    Loads = {o1, o2, o3}
    max_concurrent = 1
    max_requests_per_second = 1
    Window = 2
    Users = {u1, u2}
    Labels = {l1, l2, l3}
    Chunks = {d1, d2}
    Retriers = {u1}
    base_delay_ms = 100
    max_delay_ms = 150
    max_attempts = 3
    jitter_percent = 0
    Width = 30
    OverflowChecks = FALSE
    Nodes = 2
    MaxRounds = 6
    Workers = {u1, u2}
    Capacity = 2
    BatchSize = 2
    DataOf <- SomeData
    Transformations <- SomeTransformations
    max_size_bytes = 2
    allow_nulls = FALSE
    validate_encoding = TRUE
    Settings <- SettingsOnOffer
    CustomKeys = {"Label", "timeout", "Timeout", "row_delimiter", "Authorization"}
    NameOf <- HeaderNames
    PublishTimeouts = {0, 1500}
    DelimiterTexts <- ShortTexts
    MaxBuilderCalls = 3
    coordinator = u1
    txn_label = l1
    MaxChunkCopies = 2
SPECIFICATION PartsSpec
INVARIANTS
    BreakerTypeOK OpenIsDated SuccessesBounded
    ExactWhenQuiet
    PermitsAccounted PermissionsWithinRate
    RetriesDoNotMultiply LoopOkIsStored BackoffStopsInTime
    HealthFollowsChecks
    RecordsAccounted ProcessedIsStored
    AllOrNothing FlagsAreTrue
    HealthyFEServes
    RequestsAgree SettingsReachServer DelimiterSpelt
PROPERTIES
    CircuitRecovers EveryLoadEnds LoopEnds SeesWholeRounds
CHECK_DEADLOCK FALSE
