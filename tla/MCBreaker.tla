------------------------------ MODULE MCBreaker ------------------------------
(***************************************************************************)
(* The circuit breaker with a history variable: the successes that were    *)
(* counted since the present trial began.  Nothing is claimed of a trial   *)
(* that began while another task was in the middle of its accesses, nor    *)
(* of a breaker that somebody resets.                                      *)
(***************************************************************************)
EXTENDS CircuitBreaker, TLC

VARIABLE trial   \* success_threshold where nothing is claimed

trialVars == <<breakerVars, trial>>

\* Between two calls of the breaker: it holds nothing it has read.
Resting(t) == doing[t] \in {"idle", "running"}

TrialInit == BreakerInit /\ trial = success_threshold

TrialBegins == circuit = "Open" /\ circuit' = "HalfOpen"

OthersRest == \E t \in Tasks : \A u \in Tasks \ {t} : Resting(u)

TrialNext ==
    /\ BreakerNext
    /\ \A t \in Tasks : doing'[t] # "resetFailures"
    /\ trial' = IF TrialBegins THEN (IF OthersRest THEN 0 ELSE success_threshold)
                ELSE IF success_count' > success_count THEN trial + 1 ELSE trial

TrialSpec == TrialInit /\ [][TrialNext]_trialVars

\* "Need 3 successful requests to close circuit": a trial ends well after
\* success_threshold successes of its own, those of earlier ones not counted.
ClosesAfterThreshold ==
    [][circuit = "HalfOpen" /\ circuit' = "Closed" => trial >= success_threshold]_trialVars
==============================================================================
