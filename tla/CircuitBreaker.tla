--------------------------- MODULE CircuitBreaker ---------------------------
(***************************************************************************)
(* The circuit breaker of examples/production/circuit_breaker.rs: three    *)
(* states and two counters in atomics, and the time of the last failure in *)
(* a fourth, read and written one at a time by tasks that guard their      *)
(* requests with safe_stream_load.                                         *)
(*                                                                         *)
(* A step is one access to one atomic, with what the task computes from it *)
(* up to the next access.  Times are kept as ages, in seconds, that stop   *)
(* growing at recovery_timeout: only that comparison looks at them.  The   *)
(* count of failures stops at its threshold for the same reason.           *)
(***************************************************************************)
EXTENDS Naturals, FiniteSets

CONSTANTS
    Tasks,
    failure_threshold, success_threshold, recovery_timeout,
    RecordsBlocked   \* a request that was blocked is recorded as a failure

ASSUME BreakerAssumption ==
    /\ IsFiniteSet(Tasks)
    /\ failure_threshold \in Nat
    /\ success_threshold \in Nat \ {0}
    /\ recovery_timeout \in Nat
    /\ RecordsBlocked \in BOOLEAN

VARIABLES
    circuit,         \* state
    failure_count,
    success_count,
    last_failure,    \* age of last_failure_time, or Never
    doing,           \* what each task does next
    seen,            \* age of the time a task has read
    works            \* whether guarded operations succeed now

breakerVars == <<circuit, failure_count, success_count, last_failure, doing, seen, works>>

\* The 0 that last_failure_time starts with.
Never == recovery_timeout + 1

Ages == 0..Never

Doings == {"idle", "timing", "deciding", "running", "blocked",
           "clear", "countSuccess", "close", "zero",
           "countFailure", "open", "reopen", "zeroOpen", "stamp",
           "resetFailures", "resetSuccesses", "resetState"}

BreakerTypeOK ==
    /\ circuit \in {"Closed", "Open", "HalfOpen"}
    /\ failure_count \in 0..failure_threshold
    /\ success_count \in Nat
    /\ last_failure \in Ages
    /\ doing \in [Tasks -> Doings]
    /\ seen \in [Tasks -> Ages]
    /\ works \in BOOLEAN
    /\ \A t \in Tasks : doing[t] = "stamp" => seen[t] # Never

BreakerInit ==
    /\ circuit = "Closed"
    /\ failure_count = 0 /\ success_count = 0
    /\ last_failure = Never
    /\ doing = [t \in Tasks |-> "idle"]
    /\ seen = [t \in Tasks |-> 0]
    /\ works \in BOOLEAN

-----------------------------------------------------------------------------
Does(t, what, next) ==
    /\ doing[t] = what
    /\ doing' = [doing EXCEPT ![t] = next]

Counts == <<failure_count, success_count>>

(* can_proceed, and the operation it guards *)

can_proceed(t) ==
    /\ Does(t, "idle", IF circuit = "Open" THEN "timing" ELSE "running")
    /\ UNCHANGED <<circuit, Counts, last_failure, seen, works>>

LoadTime(t) ==
    /\ Does(t, "timing", "deciding")
    /\ seen' = [seen EXCEPT ![t] = last_failure]
    /\ UNCHANGED <<circuit, Counts, last_failure, works>>

\* Without a failure in the record no time has elapsed.
Elapsed(age) == IF age = Never THEN 0 ELSE age

HalfOpen(t) ==
    /\ Elapsed(seen[t]) >= recovery_timeout
    /\ Does(t, "deciding", "running")
    /\ circuit' = "HalfOpen"
    /\ UNCHANGED <<Counts, last_failure, seen, works>>

BlockAsFailure(t) ==  \* (bug)
    /\ Elapsed(seen[t]) < recovery_timeout
    /\ Does(t, "deciding", "blocked")
    /\ UNCHANGED <<circuit, Counts, last_failure, seen, works>>

\* CircuitOpen: the last demonstration records it like any other error, the
\* second one does not.
Block(t) ==
    /\ Elapsed(seen[t]) < recovery_timeout
    /\ Does(t, "deciding", IF RecordsBlocked THEN "blocked" ELSE "idle")
    /\ UNCHANGED <<circuit, Counts, last_failure, seen, works>>

\* The caller drops the operation, or records nothing (demonstrations 1, 3).
Forget(t) ==
    /\ Does(t, "running", "idle")
    /\ UNCHANGED <<circuit, Counts, last_failure, seen, works>>

(* record_success *)

record_success(t) ==
    /\ works
    /\ Does(t, "running", IF circuit = "Closed" THEN "clear"
                          ELSE IF circuit = "HalfOpen" THEN "countSuccess" ELSE "idle")
    /\ UNCHANGED <<circuit, Counts, last_failure, seen, works>>

ZeroFailures(t) ==
    /\ Does(t, "clear", "idle") \/ Does(t, "resetFailures", "resetSuccesses")
    /\ failure_count' = 0
    /\ UNCHANGED <<circuit, success_count, last_failure, seen, works>>

CountSuccess(t) ==
    /\ success_count' = success_count + 1
    /\ Does(t, "countSuccess",
            IF success_count' >= success_threshold THEN "close" ELSE "idle")
    /\ UNCHANGED <<circuit, failure_count, last_failure, seen, works>>

CloseOnly(t) ==  \* (bug)
    /\ Does(t, "close", "idle") \/ Does(t, "resetState", "idle")
    /\ circuit' = "Closed"
    /\ UNCHANGED <<Counts, last_failure, seen, works>>

Close(t) ==
    /\ Does(t, "close", "zero") \/ Does(t, "resetState", "idle")
    /\ circuit' = "Closed"
    /\ UNCHANGED <<Counts, last_failure, seen, works>>

TakeOneSuccess(t) ==  \* (bug)
    /\ \/ Does(t, "zero", "idle") \/ Does(t, "resetSuccesses", "resetState")
       \/ Does(t, "zeroOpen", "stamp")
    /\ seen' = [seen EXCEPT ![t] = 0]
    /\ success_count' = success_count - 1
    /\ UNCHANGED <<circuit, failure_count, last_failure, works>>

ZeroSuccesses(t) ==
    /\ \/ Does(t, "zero", "idle") \/ Does(t, "resetSuccesses", "resetState")
       \/ Does(t, "zeroOpen", "stamp")
    /\ seen' = [seen EXCEPT ![t] = 0]
    /\ success_count' = 0
    /\ UNCHANGED <<circuit, failure_count, last_failure, works>>

(* record_failure *)

record_failure(t) ==
    LET next == IF circuit = "Closed" THEN "countFailure"
                ELSE IF circuit = "HalfOpen" THEN "reopen" ELSE "stamp"
    IN  /\ \/ ~works /\ Does(t, "running", next)
           \/ Does(t, "blocked", next)
        /\ seen' = [seen EXCEPT ![t] = 0]
        /\ UNCHANGED <<circuit, Counts, last_failure, works>>

Counted(n) == IF n < failure_threshold THEN n + 1 ELSE n

CountFailure(t) ==
    /\ failure_count' = Counted(failure_count)
    /\ Does(t, "countFailure",
            IF failure_count' >= failure_threshold THEN "open" ELSE "idle")
    /\ UNCHANGED <<circuit, success_count, last_failure, seen, works>>

OpenUndated(t) ==  \* (bug)
    /\ Does(t, "open", "idle") \/ Does(t, "reopen", "zero")
    /\ circuit' = "Open"
    /\ seen' = [seen EXCEPT ![t] = 0]
    /\ UNCHANGED <<Counts, last_failure, works>>

Open(t) ==
    /\ Does(t, "open", "stamp") \/ Does(t, "reopen", "zeroOpen")
    /\ circuit' = "Open"
    /\ seen' = [seen EXCEPT ![t] = 0]
    /\ UNCHANGED <<Counts, last_failure, works>>

\* The clock was read at some time since the previous access.
Stamp(t) ==
    /\ Does(t, "stamp", "idle")
    /\ \E age \in 0..seen[t] : last_failure' = age
    /\ UNCHANGED <<circuit, Counts, seen, works>>

(* reset *)

reset(t) ==
    /\ Does(t, "idle", "resetFailures")
    /\ UNCHANGED <<circuit, Counts, last_failure, seen, works>>

-----------------------------------------------------------------------------
Older(age) == IF age < recovery_timeout THEN age + 1 ELSE age

\* A second passes.
Tick ==
    /\ last_failure' = Older(last_failure)
    /\ seen' = [t \in Tasks |-> Older(seen[t])]
    /\ UNCHANGED <<circuit, Counts, doing, works>>

\* The service goes down or comes back.
Turn ==
    /\ works' = ~works
    /\ UNCHANGED <<circuit, Counts, last_failure, doing, seen>>

\* What a task does without waiting for anything.
BreakerStep(t) ==
    \/ LoadTime(t) \/ HalfOpen(t) \/ Block(t)
    \/ CountSuccess(t) \/ CountFailure(t) \/ ZeroFailures(t) \/ ZeroSuccesses(t)
    \/ Close(t) \/ Open(t) \/ Stamp(t)

BreakerNext ==
    \/ \E t \in Tasks :
          \/ can_proceed(t) \/ Forget(t) \/ reset(t)
          \/ record_success(t) \/ record_failure(t) \/ BreakerStep(t)
    \/ Tick \/ Turn

BreakerSpec == BreakerInit /\ [][BreakerNext]_breakerVars

-----------------------------------------------------------------------------
\* An open circuit has the time of a failure, or is about to get it.  Without
\* one no time ever elapses, and the circuit stays open for ever.
OpenIsDated ==
    circuit = "Open" => \/ last_failure # Never
                        \/ \E t \in Tasks : doing[t] \in {"zeroOpen", "stamp"}

\* Tasks that counted success_threshold successes or more and have not yet
\* set the count back.
Closing == {t \in Tasks : doing[t] \in {"close", "zero"}}

\* Successes that are recorded at the same time overshoot the threshold by
\* the tasks that are about to close the circuit, never by more: when they
\* have set it back, what is left is below the threshold.  It need not be
\* zero then: a task that read HalfOpen before may count after it, and that
\* success is one of a trial that is over.
SuccessesBounded ==
    success_count > 0 => success_count < success_threshold + Cardinality(Closing)

\* Once the service works for good, a circuit that nobody resets closes for
\* good, however the tasks' accesses were interleaved before.
CircuitRecovers == <>[]works => <>[](circuit = "Closed")
=============================================================================
