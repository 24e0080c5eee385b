------------------------------- MODULE MCParts -------------------------------
(* Small instances, for TLC, of parts that do not meet: the example programs, *)
(* the requests a manager builds, and calls of the HTTP client.  Which of     *)
(* them runs is chosen at the start; the state of the others stays as it is.  *)
EXTENDS HttpFailover, CircuitBreaker, MetricsMonitoring, ConcurrentLoads, ExponentialBackoff,
        HighAvailability, DataPipeline, MultiTableTransaction, LoadRequest, TLC

VARIABLE part

Parts == {"breaker", "metrics", "executor", "backoff", "failover", "pipeline",
          "tables", "request", "http"}

delayVars == <<total_delay>>
queueVars == <<pipeline_state, records, totals, worker, added>>
tableVars == <<step, tables, Flags>>
noContract == <<breakerVars, metricsVars, executorVars, failoverVars>>
loopers == <<loop, delayVars, monitorVars>>

PartsInit ==
    /\ part \in Parts
    /\ BreakerInit /\ MetricsInit /\ ExecutorInit
    /\ RetriedInit /\ DelayInit /\ MonitorInit
    /\ PipelineInit /\ MultiInit /\ RequestInit /\ FailoverInit
    /\ part # "breaker" => works
    /\ part # "tables" => ~rolls_back
    /\ part # "backoff" => \A c \in Retriers : loop[c].keeps

PartsNext ==
    /\ UNCHANGED part
    /\ \/ /\ part = "breaker" /\ BreakerNext
          /\ UNCHANGED <<metricsVars, executorVars, failoverVars, contractVars, loopers, queueVars, tableVars, requestVars>>
       \/ /\ part = "metrics" /\ MetricsNext
          /\ UNCHANGED <<breakerVars, executorVars, failoverVars, contractVars, loopers, queueVars, tableVars, requestVars>>
       \/ /\ part = "executor" /\ ExecutorNext
          /\ UNCHANGED <<breakerVars, metricsVars, failoverVars, contractVars, loopers, queueVars, tableVars, requestVars>>
       \/ /\ part = "backoff" /\ BackoffNext
          /\ UNCHANGED <<noContract, monitorVars, queueVars, tableVars, requestVars>>
       \/ /\ part = "failover" /\ HANext
          /\ UNCHANGED <<noContract, delayVars, queueVars, tableVars, requestVars>>
       \/ /\ part = "pipeline" /\ PipelineNext
          /\ UNCHANGED <<noContract, loopers, tableVars, requestVars>>
       \/ /\ part = "tables" /\ MultiNext
          /\ UNCHANGED <<noContract, loopers, queueVars, requestVars>>
       \/ /\ part = "request" /\ RequestNext
          /\ UNCHANGED <<noContract, contractVars, loopers, queueVars, tableVars>>
       \/ /\ part = "http" /\ FailoverNext
          /\ UNCHANGED <<breakerVars, metricsVars, executorVars, contractVars, loopers, queueVars, tableVars, requestVars>>

partsVars == <<noContract, contractVars, loopers, queueVars, tableVars, requestVars, part>>

\* The fields and custom headers that meet each other: a delimiter, a header of
\* the name of a property and the headers of the transaction itself.
SettingsOnOffer ==
    {<<"row_delimiter", "newline">>, <<"timeout", "60">>, <<"where_clause", "inner">>,
     <<"database", "text">>, <<"table", "text">>}

HeaderNames ==
    [Label |-> "label", timeout |-> "timeout", Timeout |-> "timeout",
     row_delimiter |-> "row_delimiter", Authorization |-> "authorization"]

\* Two hexadecimal digits, a character that is none, and one of two bytes.
DelimiterChars == {0, 10, 17, 18}

ShortTexts == UNION {[1..n -> DelimiterChars] : n \in 0..4}

\* Two numbers, one of them among spaces, and a word: the last transformation
\* rejects it.
SomeData ==
    LET data == <<(<<"digit">>), (<<"space", "digit">>), (<<"upper">>)>>
        place == CHOOSE f \in [Labels -> DOMAIN data] : \A l, m \in Labels : f[l] = f[m] => l = m
    IN  [l \in Labels |-> data[place[l]]]

SomeTransformations == <<"Lowercase", "RemoveWhitespace", "ValidateNumeric">>

\* The clock goes on and the runtime runs every task that need not wait; a
\* request is let through again and again, and does not fail for ever if it
\* could succeed again and again.
BreakerFairness ==
    /\ WF_breakerVars(part = "breaker" /\ Tick)
    /\ SF_breakerVars(part = "breaker" /\ \E t \in Tasks : record_success(t))
    /\ \A t \in Tasks :
          /\ WF_breakerVars(part = "breaker" /\ (BreakerStep(t) \/ record_failure(t)))
          /\ WF_breakerVars(part = "breaker" /\ can_proceed(t))

\* The clock goes on, and the manager answers.
ExecutorFairness ==
    /\ WF_executorVars(part = "executor" /\ PollInterval)
    /\ \A o \in Loads : WF_executorVars(part = "executor" /\ LoadStep(o))

\* The SDK answers, a sleep ends, and so does a check of a node.
LoopFairness ==
    /\ \A c \in Retriers :
          /\ WF_backoffVars(part = "backoff" /\ BackoffStep(c))
          /\ WF_haVars(part = "failover" /\ HAStep(c))
    /\ WF_haVars(part = "failover" /\ Check)

PartsSpec ==
    /\ PartsInit /\ [][PartsNext]_partsVars
    /\ BreakerFairness /\ ExecutorFairness /\ LoopFairness
===============================================================================
