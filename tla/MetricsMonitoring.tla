-------------------------- MODULE MetricsMonitoring --------------------------
(***************************************************************************)
(* StreamLoadMetrics of examples/production/metrics_monitoring.rs: a group *)
(* of atomics that tasks update, report and reset one atomic at a time.    *)
(*                                                                         *)
(* A call is the sequence of accesses it makes; a step is one of them.     *)
(* The bytes and rows of a request are one number and one counter.         *)
(* Reports only load, and are left out.                                    *)
(***************************************************************************)
EXTENDS Naturals, Sequences

CONSTANTS
    Recorders,
    Durations,     \* of successful requests, in nanoseconds
    MaxU64,        \* u64::MAX, longer than any request
    MaxCalls       \* made in all (bounds a run)

ASSUME MetricsAssumption ==
    /\ MaxU64 \in Nat /\ Durations \subseteq 1..(MaxU64 - 1)
    /\ MaxCalls \in Nat

VARIABLES
    metric,     \* the atomics
    todo,       \* accesses each recorder still makes in its call
    tried,      \* what its compare_exchange_weak expects, NotLoaded before
    calls,      \* made so far (bounds a run)
    exact,      \* what the calls amount to (history)
    torn        \* a call overlapped the latest reset (history)

metricsVars == <<metric, todo, tried, calls, exact, torn>>

Counters == {"total_requests", "successful_requests", "failed_requests",
             "total_retries", "timeouts", "total_latency_ns",
             "successful_latency_ns", "volume"}

Extremes == {"min_latency_ns", "max_latency_ns"}

Zeroed == [n \in Counters \cup Extremes |-> IF n = "min_latency_ns" THEN MaxU64 ELSE 0]

NotLoaded == MaxU64 + 1

MetricsInit ==
    /\ metric = Zeroed
    /\ todo = [t \in Recorders |-> <<>>]
    /\ tried = [t \in Recorders |-> NotLoaded]
    /\ calls = 0
    /\ exact = Zeroed
    /\ torn = FALSE

-----------------------------------------------------------------------------
(* The calls, as the accesses they make. *)

Access(kind, name, n) == [kind |-> kind, name |-> name, value |-> n]

Add(name, n) == Access("add", name, n)
StoreZero(name) == Access("store", name, Zeroed[name])

SuccessAccesses(d, size) ==
    <<Add("successful_requests", 1), Add("volume", size),
      Add("total_latency_ns", d), Add("successful_latency_ns", d),
      Access("swap", "min_latency_ns", d), Access("swap", "max_latency_ns", d)>>

ResetAccesses ==
    <<StoreZero("total_requests"), StoreZero("successful_requests"),
      StoreZero("failed_requests"), StoreZero("total_retries"), StoreZero("timeouts"),
      StoreZero("total_latency_ns"), StoreZero("min_latency_ns"),
      StoreZero("max_latency_ns"), StoreZero("successful_latency_ns"),
      StoreZero("volume")>>

Better(name, v, w) ==
    IF (name = "min_latency_ns" /\ v <= w) \/ (name = "max_latency_ns" /\ v >= w) THEN v ELSE w

\* An atomic after an access that nobody disturbs.
Applied(v, a) ==
    CASE a.kind = "add" -> v + a.value
      [] a.kind = "store" -> a.value
      [] a.kind = "swap" -> Better(a.name, v, a.value)

After(m, a) == [m EXCEPT ![a.name] = Applied(@, a)]

\* The atomics after a call, which makes one access to each at most.
AfterCall(m, accesses) ==
    [n \in DOMAIN m |->
        LET own == {i \in DOMAIN accesses : accesses[i].name = n} IN
        IF own = {} THEN m[n] ELSE Applied(m[n], accesses[CHOOSE i \in own : TRUE])]

Calling(t) == todo[t] # <<>>

MetricsCall(t, accesses) ==
    /\ ~Calling(t) /\ calls < MaxCalls
    /\ calls' = calls + 1
    /\ todo' = [todo EXCEPT ![t] = accesses]
    /\ exact' = AfterCall(exact, accesses)
    /\ UNCHANGED <<metric, tried>>

Resetting == \E t \in Recorders : Calling(t) /\ todo[t][1].kind = "store"

Count(t, accesses) == MetricsCall(t, accesses) /\ torn' = (torn \/ Resetting)

metrics_record_request(t) == Count(t, <<Add("total_requests", 1)>>)

metrics_record_success(t, d, size) == Count(t, SuccessAccesses(d, size))

metrics_record_failure(t) == Count(t, <<Add("failed_requests", 1)>>)

metrics_record_retry(t) == Count(t, <<Add("total_retries", 1)>>)

metrics_record_timeout(t) == Count(t, <<Add("timeouts", 1)>>)

metrics_reset(t) == MetricsCall(t, ResetAccesses) /\ torn' = (\E u \in Recorders : Calling(u))

-----------------------------------------------------------------------------
(* The accesses. *)

Done(t) == todo' = [todo EXCEPT ![t] = Tail(@)]

AccessOnce(t) ==
    /\ Calling(t)
    /\ LET a == todo[t][1] IN
       /\ a.kind # "swap"
       /\ metric' = After(metric, a)
    /\ Done(t)
    /\ UNCHANGED <<tried, calls, exact, torn>>

\* The loop of min and max: load, and leave it if there is nothing to improve.
LoadExtreme(t) ==
    /\ Calling(t) /\ tried[t] = NotLoaded
    /\ LET a == todo[t][1] IN
       /\ a.kind = "swap"
       /\ IF After(metric, a) = metric
          THEN Done(t) /\ UNCHANGED tried
          ELSE tried' = [tried EXCEPT ![t] = metric[a.name]] /\ UNCHANGED todo
    /\ UNCHANGED <<metric, calls, exact, torn>>

StoreExtreme(t) ==  \* (bug)
    /\ tried[t] # NotLoaded
    /\ tried' = [tried EXCEPT ![t] = NotLoaded]
    /\ metric' = [metric EXCEPT ![todo[t][1].name] = todo[t][1].value]
    /\ Done(t)
    /\ UNCHANGED <<calls, exact, torn>>

\* compare_exchange_weak fails if the value is another one now, and may fail
\* when it is the same.
ExchangeExtreme(t) ==
    /\ tried[t] # NotLoaded
    /\ tried' = [tried EXCEPT ![t] = NotLoaded]
    /\ \/ /\ metric[todo[t][1].name] = tried[t]
          /\ metric' = After(metric, todo[t][1])
          /\ Done(t)
       \/ UNCHANGED <<metric, todo>>
    /\ UNCHANGED <<calls, exact, torn>>

MetricsNext ==
    \E t \in Recorders :
        \/ metrics_record_request(t) \/ metrics_record_failure(t)
        \/ \E d \in Durations : metrics_record_success(t, d, 1)
        \/ metrics_record_retry(t) \/ metrics_record_timeout(t) \/ metrics_reset(t)
        \/ AccessOnce(t) \/ LoadExtreme(t) \/ ExchangeExtreme(t)

MetricsSpec == MetricsInit /\ [][MetricsNext]_metricsVars

-----------------------------------------------------------------------------
\* No update is lost and none is half done: when nobody is in a call, the
\* metrics are what the calls add up to, in whatever order their accesses
\* were interleaved, unless a reset was among them.
ExactWhenQuiet ==
    ~torn /\ (\A t \in Recorders : ~Calling(t)) => metric = exact
=============================================================================
