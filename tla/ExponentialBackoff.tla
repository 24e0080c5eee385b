-------------------------- MODULE ExponentialBackoff --------------------------
(***************************************************************************)
(* exponential_backoff of examples/production/exponential_backoff.rs: every *)
(* error is retried, after a delay that doubles up to a cap and is varied  *)
(* by a random jitter.  Numbers are u64, here of Width bits: a build       *)
(* without overflow checks wraps them, one with overflow checks panics.    *)
(***************************************************************************)
EXTENDS RetriedLoad

CONSTANTS
    base_delay_ms, max_delay_ms, max_attempts,
    jitter_percent,    \* in percent
    Width,             \* 64
    OverflowChecks     \* on in a debug build

ASSUME BackoffAssumption ==
    /\ base_delay_ms \in Nat /\ max_delay_ms \in Nat /\ max_attempts \in Nat
    /\ jitter_percent \in 0..100
    /\ Width \in Nat
    /\ OverflowChecks \in BOOLEAN

VARIABLE total_delay   \* each user's latest delay

backoffVars == <<retriedVars, total_delay>>

DelayInit == total_delay = [c \in Retriers |-> 0]

BackoffInit == RetriedInit /\ DelayInit

-----------------------------------------------------------------------------
MaxU == TwoTo[Width]

Doubled(attempt) == base_delay_ms * TwoTo[attempt]

BaseDelay(attempt) == Least(Doubled(attempt) % MaxU, max_delay_ms)

\* A percentage, as a float, truncated.
JitterMs(delay) == (delay * jitter_percent) \div 100

\* A random number of 0..=jitter_ms * 2, from which jitter_ms is taken.
Jitter(delay, random) == (random - JitterMs(delay)) % MaxU

Overflows(attempt, random) ==
    Doubled(attempt) >= MaxU \/ random < JitterMs(BaseDelay(attempt))

\* Without attempts there is no last error to unwrap.
StartBackoff(c) ==
    /\ StartLoop(c, IF max_attempts = 0 THEN "panicked" ELSE "trying")
    /\ UNCHANGED total_delay

TryBackoff(c) == TryLoad(c) /\ UNCHANGED total_delay

BackoffOk(c) == LoadOk(c) /\ UNCHANGED total_delay

BackoffSleepsOnceMore(c) ==  \* (bug)
    LET attempt == loop[c].attempts - 1
        delay == BaseDelay(attempt)
    IN  /\ loop[c].pc = "calling" /\ loop[c].attempts <= max_attempts
        /\ LoadErr(c, "asleep")
        /\ total_delay' = [total_delay EXCEPT ![c] = delay]

\* The error of any attempt but the last.  The demonstration of errors that
\* are not retryable is no exception: is_retryable_error is never called.
BackoffSleeps(c) ==
    LET attempt == loop[c].attempts - 1
        delay == BaseDelay(attempt)
    IN  /\ loop[c].pc = "calling" /\ loop[c].attempts < max_attempts
        /\ \E random \in 0..(2 * JitterMs(delay)) :
              IF OverflowChecks /\ Overflows(attempt, random)
                THEN LoadErr(c, "panicked") /\ UNCHANGED total_delay
                ELSE /\ LoadErr(c, "asleep")
                     /\ total_delay' = [total_delay EXCEPT ![c] = delay + Jitter(delay, random)]

BackoffFails(c) ==
    /\ loop[c].attempts >= max_attempts
    /\ LoadErr(c, "failed")
    /\ UNCHANGED total_delay

BackoffWakes(c) == WakeUp(c) /\ UNCHANGED total_delay

BackoffStep(c) ==
    \/ TryBackoff(c) \/ BackoffOk(c) \/ BackoffSleeps(c) \/ BackoffFails(c) \/ BackoffWakes(c)

BackoffNext ==
    \/ \E c \in Retriers : StartBackoff(c) \/ BackoffStep(c)
    \/ ClusterLoads /\ UNCHANGED total_delay

BackoffSpec == BackoffInit /\ [][BackoffNext]_backoffVars

-----------------------------------------------------------------------------
\* "Cap at 30 seconds": no delay exceeds the cap by more than the jitter.
DelayCapped ==
    \A c \in Retriers : total_delay[c] <= max_delay_ms + JitterMs(max_delay_ms)

\* The loop counts right at its end: an attempt is still to come whenever it
\* is about to try or asleep, so that no sleep follows the last one, and the
\* unwrap of the last error only panics when there never was an attempt.
\* (With overflow checks the arithmetic of the delay may panic as well.)
BackoffStopsInTime ==
    \A c \in Retriers :
        /\ loop[c].attempts <= max_attempts
        /\ loop[c].pc \in {"trying", "asleep"} => loop[c].attempts < max_attempts
        /\ loop[c].pc = "panicked" => max_attempts = 0 \/ OverflowChecks
=============================================================================
