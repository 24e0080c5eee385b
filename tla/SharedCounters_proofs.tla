------------------------ MODULE SharedCounters_proofs ------------------------
(***************************************************************************)
(* Proofs about the example programs whose tasks share counts: the atomics *)
(* of CircuitBreaker and of MetricsMonitoring, the permits and the rate    *)
(* limiter of ConcurrentLoads.  They hold for any number of tasks and any  *)
(* limits, however the accesses interleave.  Each part counts with sets:   *)
(* the tasks about to close a circuit, the loads that hold a permit, the   *)
(* amounts that calls have still to add to a counter.                      *)
(***************************************************************************)
EXTENDS CircuitBreaker, ConcurrentLoads, MetricsMonitoring, FiniteSetTheorems, TLAPS

-----------------------------------------------------------------------------
(* The circuit breaker: an open circuit gets a time to recover from, and   *)
(* no count of successes outlives the trial it belongs to.                 *)

\* A step of one task, the clock, the service, or nothing of these.
LEMMA BreakerSteps ==
    ASSUME [BreakerNext]_breakerVars
    PROVE  \/ \E t \in Tasks : \/ can_proceed(t) \/ Forget(t) \/ reset(t)
                               \/ record_success(t) \/ record_failure(t)
                               \/ LoadTime(t) \/ HalfOpen(t) \/ Block(t)
                               \/ CountSuccess(t) \/ CountFailure(t)
                               \/ ZeroFailures(t) \/ ZeroSuccesses(t)
                               \/ Close(t) \/ Open(t) \/ Stamp(t)
           \/ Tick \/ Turn \/ UNCHANGED breakerVars
  BY DEF BreakerNext, BreakerStep

\* The time a task read is real when it is about to store it, and the types
\* are right.
LEMMA BreakerTypeStep ==
    ASSUME BreakerTypeOK, [BreakerNext]_breakerVars
    PROVE  BreakerTypeOK'
  <1> USE BreakerAssumption
  <1>0. Never \in Nat /\ Never > recovery_timeout /\ 0 \in Ages /\ 0 # Never
    BY DEF Never, Ages
  <1>1. ASSUME NEW t \in Tasks,
               \/ can_proceed(t) \/ Forget(t) \/ reset(t) \/ record_success(t)
               \/ HalfOpen(t) \/ Block(t) \/ Close(t)
        PROVE  BreakerTypeOK'
    BY <1>1 DEF BreakerTypeOK, Doings, Counts, Does, can_proceed, Forget, reset,
                record_success, HalfOpen, Block, Close
  <1>2. ASSUME NEW t \in Tasks, record_failure(t) \/ Open(t)
        PROVE  BreakerTypeOK'
    BY <1>0, <1>2 DEF BreakerTypeOK, Doings, Counts, Does, record_failure, Open
  <1>3. ASSUME NEW t \in Tasks, LoadTime(t)
        PROVE  BreakerTypeOK'
    BY <1>3 DEF BreakerTypeOK, Doings, Counts, Does, LoadTime
  <1>4. ASSUME NEW t \in Tasks, CountSuccess(t)
        PROVE  BreakerTypeOK'
    BY <1>4 DEF BreakerTypeOK, Doings, Does, CountSuccess
  <1>5. ASSUME NEW t \in Tasks, CountFailure(t)
        PROVE  BreakerTypeOK'
    BY <1>5 DEF BreakerTypeOK, Doings, Does, CountFailure, Counted
  <1>6. ASSUME NEW t \in Tasks, ZeroFailures(t)
        PROVE  BreakerTypeOK'
    BY <1>6 DEF BreakerTypeOK, Doings, Does, ZeroFailures
  <1>7. ASSUME NEW t \in Tasks, ZeroSuccesses(t)
        PROVE  BreakerTypeOK'
    BY <1>0, <1>7 DEF BreakerTypeOK, Doings, Does, ZeroSuccesses
  <1>8. ASSUME NEW t \in Tasks, Stamp(t)
        PROVE  BreakerTypeOK'
    <2>1. \A age \in 0..seen[t] : age \in Ages
      BY <1>0 DEF BreakerTypeOK, Ages
    <2> QED  BY <1>8, <2>1 DEF BreakerTypeOK, Doings, Counts, Does, Stamp
  <1>9. CASE Tick
    <2>1. \A age \in Ages : Older(age) \in Ages /\ (age # Never => Older(age) # Never)
      BY <1>0 DEF Older, Ages, Never
    <2> QED  BY <1>9, <2>1 DEF BreakerTypeOK, Counts, Tick
  <1>10. CASE Turn \/ UNCHANGED breakerVars
    BY <1>10 DEF BreakerTypeOK, Counts, Turn, breakerVars
  <1> QED  BY <1>1, <1>2, <1>3, <1>4, <1>5, <1>6, <1>7, <1>8, <1>9, <1>10, BreakerSteps

\* Whoever opens the circuit goes on to store the time.
LEMMA DatedStep ==
    ASSUME BreakerTypeOK, OpenIsDated, [BreakerNext]_breakerVars
    PROVE  OpenIsDated'
  <1> USE BreakerAssumption DEF OpenIsDated
  <1>1. ASSUME NEW t \in Tasks,
               \/ can_proceed(t) \/ Forget(t) \/ reset(t) \/ record_success(t)
               \/ record_failure(t) \/ LoadTime(t) \/ HalfOpen(t) \/ Block(t)
        PROVE  OpenIsDated'
    BY <1>1 DEF BreakerTypeOK, Counts, Does, can_proceed, Forget, reset, record_success,
                record_failure, LoadTime, HalfOpen, Block
  <1>2. ASSUME NEW t \in Tasks,
               \/ CountSuccess(t) \/ CountFailure(t) \/ ZeroFailures(t) \/ Close(t)
        PROVE  OpenIsDated'
    BY <1>2 DEF BreakerTypeOK, Counts, Does, CountSuccess, CountFailure, ZeroFailures, Close
  <1>3. ASSUME NEW t \in Tasks, ZeroSuccesses(t) \/ Open(t)
        PROVE  OpenIsDated'
    BY <1>3 DEF BreakerTypeOK, Counts, Does, ZeroSuccesses, Open
  <1>4. ASSUME NEW t \in Tasks, Stamp(t)
        PROVE  OpenIsDated'
    BY <1>4 DEF BreakerTypeOK, Ages, Never, Does, Stamp
  <1>5. CASE Tick
    BY <1>5 DEF BreakerTypeOK, Counts, Ages, Never, Older, Tick
  <1>6. CASE Turn \/ UNCHANGED breakerVars
    BY <1>6 DEF Counts, Turn, breakerVars
  <1> QED  BY <1>1, <1>2, <1>3, <1>4, <1>5, <1>6, BreakerSteps

-----------------------------------------------------------------------------
(* The count of successes. *)

\* The tasks that close the circuit can be counted, as can any part of them.
LEMMA ClosingFinite ==
    ASSUME NEW t
    PROVE  /\ IsFiniteSet(Closing) /\ Cardinality(Closing) \in Nat
           /\ t \notin Closing => Cardinality(Closing \cup {t}) = Cardinality(Closing) + 1
  <1>1. IsFiniteSet(Closing)
    BY BreakerAssumption, FS_Subset, Closing \subseteq Tasks DEF Closing
  <1> QED  BY <1>1, FS_CardinalityType, FS_AddElement

\* A step that neither closes nor counts keeps the bound.
LEMMA BoundKept ==
    ASSUME SuccessesBounded, Closing' = Closing, UNCHANGED success_count
    PROVE  SuccessesBounded'
  BY DEF SuccessesBounded

LEMMA BoundedStep ==
    ASSUME BreakerTypeOK, SuccessesBounded, [BreakerNext]_breakerVars
    PROVE  SuccessesBounded'
  <1> USE BreakerAssumption
  <1>1. ASSUME NEW t \in Tasks,
               \/ can_proceed(t) \/ Forget(t) \/ reset(t) \/ record_success(t)
               \/ record_failure(t) \/ LoadTime(t) \/ HalfOpen(t) \/ Block(t)
        PROVE  SuccessesBounded'
    <2>1. Closing' = Closing /\ UNCHANGED success_count
      BY <1>1 DEF BreakerTypeOK, Closing, Counts, Does, can_proceed, Forget, reset,
                  record_success, record_failure, LoadTime, HalfOpen, Block
    <2> QED  BY <2>1, BoundKept
  <1>2. ASSUME NEW t \in Tasks,
               \/ CountFailure(t) \/ ZeroFailures(t) \/ Close(t) \/ Open(t) \/ Stamp(t)
        PROVE  SuccessesBounded'
    <2>1. Closing' = Closing /\ UNCHANGED success_count
      BY <1>2 DEF BreakerTypeOK, Closing, Counts, Does, CountFailure, ZeroFailures, Close,
                  Open, Stamp
    <2> QED  BY <2>1, BoundKept
  <1>3. ASSUME NEW t \in Tasks, ZeroSuccesses(t)
        PROVE  SuccessesBounded'
    BY <1>3 DEF SuccessesBounded, ZeroSuccesses
  <1>4. ASSUME NEW t \in Tasks, CountSuccess(t)
        PROVE  SuccessesBounded'
    <2>1. t \notin Closing /\ success_count' = success_count + 1 /\ success_count \in Nat
      BY <1>4 DEF Closing, Does, CountSuccess, BreakerTypeOK
    <2>2. Cardinality(Closing) \in Nat
          /\ Cardinality(Closing \cup {t}) = Cardinality(Closing) + 1
      BY <2>1, ClosingFinite
    <2>3. CASE success_count' >= success_threshold
      <3>1. Closing' = Closing \cup {t}
        BY <1>4, <2>3 DEF BreakerTypeOK, Closing, Does, CountSuccess
      <3> QED  BY <2>1, <2>2, <3>1 DEF SuccessesBounded
    <2>4. CASE ~(success_count' >= success_threshold)
      <3>1. Closing' = Closing
        BY <1>4, <2>4 DEF BreakerTypeOK, Closing, Does, CountSuccess
      <3> QED  BY <2>1, <2>2, <2>4, <3>1 DEF SuccessesBounded
    <2> QED  BY <2>3, <2>4
  <1>5. CASE Tick \/ Turn \/ UNCHANGED breakerVars
    <2>1. Closing' = Closing /\ UNCHANGED success_count
      BY <1>5 DEF Closing, Counts, Tick, Turn, breakerVars
    <2> QED  BY <2>1, BoundKept
  <1> QED  BY <1>1, <1>2, <1>3, <1>4, <1>5, BreakerSteps

-----------------------------------------------------------------------------
\* The types of the breaker are right; what record_failure is about to store
\* in last_failure_time is the time of a failure.
THEOREM BreakerTypeCorrect == BreakerSpec => []BreakerTypeOK
  <1>1. BreakerInit => BreakerTypeOK
    BY BreakerAssumption DEF BreakerInit, BreakerTypeOK, Doings, Ages, Never
  <1> QED  BY <1>1, BreakerTypeStep, PTL DEF BreakerSpec

\* An open circuit has, or is about to get, the time after which can_proceed
\* lets a request try again.
THEOREM OpenCircuitIsDated == BreakerSpec => []OpenIsDated
  <1>1. BreakerInit => OpenIsDated
    BY DEF BreakerInit, OpenIsDated
  <1> QED  BY <1>1, DatedStep, BreakerTypeCorrect, PTL DEF BreakerSpec

\* Concurrent calls of record_success overshoot success_threshold by no more
\* than the calls that are closing the circuit.
THEOREM SuccessesStayBounded == BreakerSpec => []SuccessesBounded
  <1>1. BreakerInit => SuccessesBounded
    BY DEF BreakerInit, SuccessesBounded
  <1> QED  BY <1>1, BoundedStep, BreakerTypeCorrect, PTL DEF BreakerSpec

-----------------------------------------------------------------------------
(* The rate limiter and the semaphore of concurrent loads.                 *)

\* Loads that the limiter has let through.
Permitted == {o \in Loads : stage[o] \notin {"new", "limited", "asleep"}}

LimiterInv ==
    /\ stage \in [Loads -> Stages]
    /\ DOMAIN request_times \subseteq Permitted
    /\ \A o \in DOMAIN request_times : request_times[o] \in Nat
    /\ PermissionsWithinRate

\* Whoever waits for a permit is in the queue once, and nobody waits for one
\* that is free.
SemaphoreInv ==
    /\ permits \in Nat
    /\ queue \in Seq(Loads)
    /\ \A i \in DOMAIN queue : stage[queue[i]] = "queued"
    /\ \A i, j \in DOMAIN queue : queue[i] = queue[j] => i = j
    /\ queue # <<>> => permits = 0
    /\ PermitsAccounted

ExecutorInv == LimiterInv /\ SemaphoreInv

\* What the end of a load, or the first of its counts, changes.
LEMMA CompletionSteps ==
    ASSUME NEW o \in Loads, NEW status, Complete_load(o, status)
    PROVE  /\ stage[o] = "sending" /\ UNCHANGED request_times
           /\ \/ Release(o)
              \/ Moves(o, "sending", "counting") /\ UNCHANGED <<permits, queue>>
  <1>1. /\ stage[o] = "sending" /\ UNCHANGED <<request_times, batch>>
        /\ \/ Moves(o, "sending", "counting") /\ UNCHANGED <<permits, queue>>
           \/ Release(o)
    BY Zenon DEF Complete_load
  <1> QED  BY <1>1

\* A step of one load, or one that leaves permits and permissions alone.
LEMMA ExecutorSteps ==
    ASSUME [ExecutorNext]_executorVars
    PROVE  \/ \E o \in Loads : \/ AcquireRate(o) \/ PollAgain(o) \/ AcquirePermit(o)
                               \/ CountAgain(o) \/ \E status : Complete_load(o, status)
           \/ \E operations \in SUBSET Loads : execute_concurrent(operations)
           \/ Join \/ LeaveBatch \/ PollInterval \/ UNCHANGED executorVars
  BY Zenon DEF ExecutorNext, LoadStep

\* The permissions of the last second are some of those that are remembered,
\* each of a load of its own.
LEMMA RecentFacts ==
    ASSUME LimiterInv
    PROVE  /\ DOMAIN Recent(request_times) \subseteq DOMAIN request_times
           /\ IsFiniteSet(DOMAIN Recent(request_times))
           /\ Cardinality(DOMAIN Recent(request_times)) \in Nat
           /\ \A p \in DOMAIN Recent(request_times) :
                 Recent(request_times)[p] = request_times[p] /\ request_times[p] < Window
  <1>1. /\ DOMAIN Recent(request_times) \subseteq DOMAIN request_times
        /\ \A p \in DOMAIN Recent(request_times) :
              Recent(request_times)[p] = request_times[p] /\ request_times[p] < Window
    BY DEF Recent
  <1>2. DOMAIN Recent(request_times) \in SUBSET Loads
    BY <1>1 DEF LimiterInv, Permitted
  <1>3. IsFiniteSet(DOMAIN Recent(request_times))
    BY <1>2, FS_Subset, ExecutorAssumption
  <1> QED  BY <1>1, <1>3, FS_CardinalityType

\* Fewer permissions than before are within the rate.
LEMMA FewerPermissions ==
    ASSUME LimiterInv, DOMAIN Recent(request_times)' \subseteq DOMAIN Recent(request_times)
    PROVE  PermissionsWithinRate'
  <1>1. Cardinality(DOMAIN Recent(request_times)') <= Cardinality(DOMAIN Recent(request_times))
        /\ IsFiniteSet(DOMAIN Recent(request_times)')
    BY RecentFacts, FS_Subset
  <1>2. Cardinality(DOMAIN Recent(request_times)') \in Nat
    BY <1>1, FS_CardinalityType
  <1> QED  BY <1>1, <1>2, RecentFacts, ExecutorAssumption DEF LimiterInv, PermissionsWithinRate

\* A load on its way from one stage to another.
LEMMA StageMoves ==
    ASSUME LimiterInv, NEW o \in Loads, NEW from, NEW to \in Stages, Moves(o, from, to)
    PROVE  /\ stage[o] = from /\ stage'[o] = to /\ stage' \in [Loads -> Stages]
           /\ \A p \in Loads \ {o} : stage'[p] = stage[p]
  BY DEF LimiterInv, Moves

\* The limiter: a permission more only while there are fewer than the rate.
LEMMA RateStep ==
    ASSUME LimiterInv, NEW o \in Loads, AcquireRate(o)
    PROVE  LimiterInv'
  <1> DEFINE recent == Recent(request_times)
             exceeded == RateExceeded(recent)
  <1>1. /\ Moves(o, "limited", IF exceeded THEN "asleep" ELSE "permitted")
        /\ request_times' = IF exceeded THEN recent ELSE Push(recent, o)
    BY DEF AcquireRate
  <1>2. /\ stage[o] = "limited" /\ stage' \in [Loads -> Stages]
        /\ stage'[o] = IF exceeded THEN "asleep" ELSE "permitted"
        /\ \A p \in Loads \ {o} : stage'[p] = stage[p]
    BY <1>1, StageMoves DEF Stages
  <1>3. DOMAIN recent \subseteq Permitted /\ o \notin DOMAIN recent
    BY <1>2, RecentFacts DEF LimiterInv, Permitted
  <1>4. Permitted \subseteq Permitted'
    BY <1>2 DEF Permitted
  <1>5. CASE exceeded
    <2>1. request_times' = recent
      BY <1>1, <1>5
    <2>2. DOMAIN request_times' \subseteq Permitted'
      BY <1>3, <1>4, <2>1
    <2>3. \A p \in DOMAIN request_times' : request_times'[p] \in Nat
      BY <2>1, RecentFacts DEF LimiterInv
    <2>4. DOMAIN Recent(request_times)' \subseteq DOMAIN recent
      BY <2>1 DEF Recent
    <2> QED  BY <1>2, <2>2, <2>3, <2>4, FewerPermissions DEF LimiterInv
  <1>6. CASE ~exceeded
    <2>1. request_times' = Push(recent, o)
      BY <1>1, <1>6
    <2>2. /\ DOMAIN request_times' = DOMAIN recent \cup {o}
          /\ \A p \in DOMAIN request_times' :
                request_times'[p] = IF p = o THEN 0 ELSE recent[p]
      BY <2>1 DEF Push
    <2>3. o \in Permitted'
      BY <1>2, <1>6 DEF Permitted
    <2>4. DOMAIN request_times' \subseteq Permitted'
      BY <1>3, <1>4, <2>2, <2>3
    <2>5. \A p \in DOMAIN request_times' : request_times'[p] \in Nat
      BY <2>2, RecentFacts DEF LimiterInv
    <2>6. Cardinality(DOMAIN recent \cup {o}) = Cardinality(DOMAIN recent) + 1
          /\ IsFiniteSet(DOMAIN recent \cup {o})
      BY <1>3, RecentFacts, FS_AddElement
    <2>7. Cardinality(DOMAIN recent) + 1 <= max_requests_per_second
      BY <1>6, RecentFacts, ExecutorAssumption DEF RateExceeded
    <2>8. DOMAIN Recent(request_times)' \subseteq DOMAIN recent \cup {o}
      BY <2>2 DEF Recent
    <2>9. Cardinality(DOMAIN Recent(request_times)') <= Cardinality(DOMAIN recent) + 1
          /\ Cardinality(DOMAIN Recent(request_times)') \in Nat
      <3>1. IsFiniteSet(DOMAIN Recent(request_times)')
            /\ Cardinality(DOMAIN Recent(request_times)') <= Cardinality(DOMAIN recent \cup {o})
        BY <2>6, <2>8, FS_Subset
      <3> QED  BY <2>6, <3>1, FS_CardinalityType
    <2>10. PermissionsWithinRate'
      BY <2>7, <2>9, RecentFacts, ExecutorAssumption DEF PermissionsWithinRate
    <2> QED  BY <1>2, <2>4, <2>5, <2>10 DEF LimiterInv
  <1> QED  BY <1>5, <1>6

\* Everything else gives no permission, and ages those that were given.
LEMMA LimiterStep ==
    ASSUME LimiterInv, SemaphoreInv, [ExecutorNext]_executorVars
    PROVE  LimiterInv'
  <1>1. ASSUME UNCHANGED request_times, stage' \in [Loads -> Stages],
               Permitted \subseteq Permitted'
        PROVE  LimiterInv'
    <2>1. DOMAIN Recent(request_times)' = DOMAIN Recent(request_times)
      BY <1>1 DEF Recent
    <2> QED  BY <1>1, <2>1, FewerPermissions DEF LimiterInv
  <1>2. ASSUME NEW o \in Loads, NEW from, NEW to \in Stages, Moves(o, from, to),
               UNCHANGED request_times,
               from \in {"new", "limited", "asleep"} \/ to \notin {"new", "limited", "asleep"}
        PROVE  LimiterInv'
    BY <1>1, <1>2, StageMoves DEF Permitted
  <1>3. ASSUME NEW o \in Loads, Release(o), UNCHANGED request_times
        PROVE  LimiterInv'
    <2>1. stage' \in [Loads -> Stages] /\ \A p \in Loads : \/ stage'[p] = stage[p]
                                                           \/ stage'[p] \in {"done", "sending"}
      <3>1. CASE queue = <<>>
        BY <1>3, <3>1 DEF Release, LimiterInv, Stages
      <3>2. CASE queue # <<>>
        <4>1. Head(queue) \in Loads
          BY <3>2 DEF SemaphoreInv
        <4> QED  BY <1>3, <3>2, <4>1 DEF Release, LimiterInv, Stages
      <3> QED  BY <3>1, <3>2
    <2> QED  BY <1>1, <1>3, <2>1 DEF Permitted
  <1>4. ASSUME NEW o \in Loads, PollAgain(o) \/ AcquirePermit(o)
        PROVE  LimiterInv'
    BY <1>2, <1>4 DEF PollAgain, AcquirePermit, Stages
  <1>5. ASSUME NEW o \in Loads, CountAgain(o)
        PROVE  LimiterInv'
    BY <1>3, <1>5 DEF CountAgain
  <1>6. ASSUME NEW o \in Loads, NEW status, Complete_load(o, status)
        PROVE  LimiterInv'
    BY <1>2, <1>3, <1>6, CompletionSteps DEF Stages
  <1>7. ASSUME NEW operations \in SUBSET Loads, execute_concurrent(operations)
        PROVE  LimiterInv'
    BY <1>1, <1>7 DEF execute_concurrent, LimiterInv, Stages, Permitted
  <1>8. CASE PollInterval
    <2>1. stage' = stage /\ DOMAIN request_times' = DOMAIN request_times
          /\ \A p \in DOMAIN request_times : request_times'[p] =
                 IF request_times[p] < Window THEN request_times[p] + 1 ELSE Window
      BY <1>8 DEF PollInterval
    <2>2. \A p \in DOMAIN request_times : /\ request_times'[p] \in Nat
                                          /\ request_times'[p] < Window => request_times[p] < Window
      BY <2>1, ExecutorAssumption DEF LimiterInv
    <2>3. DOMAIN Recent(request_times)' \subseteq DOMAIN Recent(request_times)
      BY <2>1, <2>2 DEF Recent
    <2> QED  BY <2>1, <2>2, <2>3, FewerPermissions DEF LimiterInv, Permitted
  <1>9. CASE Join \/ LeaveBatch \/ UNCHANGED executorVars
    BY <1>1, <1>9 DEF Join, LeaveBatch, executorVars, LimiterInv, Permitted
  <1> QED  BY <1>4, <1>5, <1>6, <1>7, <1>8, <1>9, RateStep, ExecutorSteps

-----------------------------------------------------------------------------
\* The loads under way can be counted, with one more or one less.
LEMMA HoldingFacts ==
    /\ IsFiniteSet(Holding) /\ Cardinality(Holding) \in Nat
    /\ \A o \in Loads \ Holding : Cardinality(Holding \cup {o}) = Cardinality(Holding) + 1
    /\ \A o \in Holding : Cardinality(Holding \ {o}) = Cardinality(Holding) - 1
  <1>1. Holding \in SUBSET Loads
    BY DEF Holding
  <1>2. IsFiniteSet(Holding)
    BY <1>1, FS_Subset, ExecutorAssumption
  <1> QED  BY <1>2, FS_CardinalityType, FS_AddElement, FS_RemoveElement

\* A step that changes the stage of no load in the queue or under way.
LEMMA SemaphoreKept ==
    ASSUME SemaphoreInv, UNCHANGED <<permits, queue>>, Holding' = Holding,
           \A i \in DOMAIN queue : stage'[queue[i]] = "queued"
    PROVE  SemaphoreInv'
  BY DEF SemaphoreInv, PermitsAccounted

\* A load that moves on by itself, waits for no permit, and gives none back.
LEMMA MoveKeepsSemaphore ==
    ASSUME LimiterInv, SemaphoreInv, NEW o \in Loads, NEW from, NEW to \in Stages,
           Moves(o, from, to), UNCHANGED <<permits, queue>>, from # "queued",
           from \in {"sending", "counting"} <=> to \in {"sending", "counting"}
    PROVE  SemaphoreInv'
  <1>1. Holding' = Holding
    BY StageMoves DEF Holding
  <1>2. \A i \in DOMAIN queue : stage'[queue[i]] = "queued"
    BY StageMoves DEF SemaphoreInv
  <1> QED  BY <1>1, <1>2, SemaphoreKept

\* AcquirePermit: a permit is taken, or the load waits at the end of the queue.
LEMMA PermitStep ==
    ASSUME LimiterInv, SemaphoreInv, NEW o \in Loads, AcquirePermit(o)
    PROVE  SemaphoreInv'
  <1>1. CASE permits > 0 /\ Moves(o, "permitted", "sending") /\ permits' = permits - 1
             /\ UNCHANGED queue
    <2>1. /\ stage[o] = "permitted" /\ stage'[o] = "sending"
          /\ \A p \in Loads \ {o} : stage'[p] = stage[p]
      BY <1>1, StageMoves DEF Stages
    <2>2. o \notin Holding /\ Holding' = Holding \cup {o}
      BY <2>1 DEF Holding
    <2>3. queue = <<>> /\ queue' = <<>>
      BY <1>1 DEF SemaphoreInv
    <2>4. Cardinality(Holding') = Cardinality(Holding) + 1
      BY <2>2, HoldingFacts
    <2>5. permits' \in Nat /\ PermitsAccounted'
      BY <1>1, <2>4, HoldingFacts DEF SemaphoreInv, PermitsAccounted
    <2> QED  BY <2>3, <2>5 DEF SemaphoreInv
  <1>2. CASE permits = 0 /\ Moves(o, "permitted", "queued") /\ queue' = Append(queue, o)
             /\ UNCHANGED permits
    <2>1. /\ stage[o] = "permitted" /\ stage'[o] = "queued"
          /\ \A p \in Loads \ {o} : stage'[p] = stage[p]
      BY <1>2, StageMoves DEF Stages
    <2>2. Holding' = Holding
      BY <2>1 DEF Holding
    <2>3. queue \in Seq(Loads) /\ Len(queue) \in Nat /\ queue' \in Seq(Loads)
          /\ DOMAIN queue = 1..Len(queue) /\ DOMAIN queue' = 1..(Len(queue) + 1)
      BY <1>2 DEF SemaphoreInv
    <2>4. /\ \A i \in DOMAIN queue : queue'[i] = queue[i] /\ queue[i] \in Loads \ {o}
          /\ queue'[Len(queue) + 1] = o
      BY <1>2, <2>1, <2>3 DEF SemaphoreInv
    <2>5. \A i \in DOMAIN queue' : i \in DOMAIN queue \/ i = Len(queue) + 1
      BY <2>3
    <2>6. \A i \in DOMAIN queue' : stage'[queue'[i]] = "queued"
      BY <2>1, <2>4, <2>5 DEF SemaphoreInv
    <2>7. \A i, j \in DOMAIN queue' : queue'[i] = queue'[j] => i = j
      BY <2>4, <2>5 DEF SemaphoreInv
    <2>8. PermitsAccounted'
      BY <1>2, <2>2 DEF SemaphoreInv, PermitsAccounted
    <2> QED  BY <1>2, <2>3, <2>6, <2>7, <2>8 DEF SemaphoreInv
  <1> QED  BY <1>1, <1>2 DEF AcquirePermit

\* Release: the permit is free again, or goes to the first of the queue.
LEMMA ReleaseStep ==
    ASSUME LimiterInv, SemaphoreInv, NEW o \in Loads, o \in Holding, Release(o)
    PROVE  SemaphoreInv'
  <1>1. CASE queue = <<>>
    <2>1. /\ stage' = [stage EXCEPT ![o] = "done"] /\ permits' = permits + 1
          /\ queue' = <<>>
      BY <1>1 DEF Release
    <2>2. Holding' = Holding \ {o}
      BY <2>1 DEF Holding, LimiterInv
    <2>3. Cardinality(Holding') = Cardinality(Holding) - 1
      BY <2>2, HoldingFacts
    <2>4. permits' \in Nat /\ PermitsAccounted'
      BY <2>1, <2>3, HoldingFacts DEF SemaphoreInv, PermitsAccounted
    <2> QED  BY <2>1, <2>4 DEF SemaphoreInv
  <1>2. CASE queue # <<>>
    <2> DEFINE h == Head(queue)
    <2>1. /\ stage' = [stage EXCEPT ![o] = "done", ![h] = "sending"]
          /\ queue' = Tail(queue) /\ permits' = permits
      BY <1>2 DEF Release
    <2>2. queue \in Seq(Loads) /\ Len(queue) \in Nat \ {0} /\ DOMAIN queue = 1..Len(queue)
          /\ h = queue[1] /\ h \in Loads /\ stage[h] = "queued"
      BY <1>2 DEF SemaphoreInv
    <2>3. h \notin Holding /\ h # o
      BY <2>2 DEF Holding
    <2>4. stage'[h] = "sending" /\ stage'[o] = "done"
          /\ \A p \in Loads \ {o, h} : stage'[p] = stage[p]
      BY <2>1, <2>2, <2>3 DEF LimiterInv
    <2>5. Holding' = (Holding \cup {h}) \ {o}
      BY <2>2, <2>3, <2>4 DEF Holding
    <2>6. Cardinality(Holding') = Cardinality(Holding)
      <3>1. IsFiniteSet(Holding \cup {h}) /\ Cardinality(Holding \cup {h}) = Cardinality(Holding) + 1
        BY <2>2, <2>3, HoldingFacts, FS_AddElement
      <3>2. Cardinality((Holding \cup {h}) \ {o}) = Cardinality(Holding \cup {h}) - 1
        BY <3>1, FS_RemoveElement
      <3> QED  BY <2>5, <3>1, <3>2, HoldingFacts
    <2>7. queue' \in Seq(Loads) /\ DOMAIN queue' = 1..(Len(queue) - 1)
          /\ \A i \in DOMAIN queue' : queue'[i] = queue[i + 1]
      BY <2>1, <2>2
    <2>8. \A i \in DOMAIN queue' : i + 1 \in DOMAIN queue /\ i + 1 # 1
      BY <2>2, <2>7
    <2>9. \A i \in DOMAIN queue' : queue'[i] \in Loads \ {o, h} /\ stage[queue'[i]] = "queued"
      <3> SUFFICES ASSUME NEW i \in DOMAIN queue'
                   PROVE  queue'[i] \in Loads \ {o, h} /\ stage[queue'[i]] = "queued"
        OBVIOUS
      <3>1. queue'[i] = queue[i + 1] /\ i + 1 \in DOMAIN queue /\ i + 1 # 1 /\ 1 \in DOMAIN queue
        BY <2>2, <2>7, <2>8
      <3>2. stage[queue'[i]] = "queued" /\ queue'[i] # queue[1] /\ queue'[i] \in Loads
        BY <3>1, <2>2 DEF SemaphoreInv
      <3> QED  BY <3>2, <2>2 DEF Holding
    <2>10. \A i \in DOMAIN queue' : stage'[queue'[i]] = "queued"
      BY <2>4, <2>9
    <2>11. \A i, j \in DOMAIN queue' : queue'[i] = queue'[j] => i = j
      <3> SUFFICES ASSUME NEW i \in DOMAIN queue', NEW j \in DOMAIN queue', queue'[i] = queue'[j]
                   PROVE  i = j
        OBVIOUS
      <3>1. i + 1 = j + 1
        BY <2>7, <2>8 DEF SemaphoreInv
      <3> QED  BY <3>1, <2>7, <2>2
    <2>12. permits' \in Nat /\ PermitsAccounted' /\ permits' = 0
      BY <1>2, <2>1, <2>6 DEF SemaphoreInv, PermitsAccounted
    <2> QED  BY <2>7, <2>10, <2>11, <2>12 DEF SemaphoreInv
  <1> QED  BY <1>1, <1>2

LEMMA SemaphoreStep ==
    ASSUME LimiterInv, SemaphoreInv, [ExecutorNext]_executorVars
    PROVE  SemaphoreInv'
  <1>1. ASSUME NEW o \in Loads, AcquireRate(o)
        PROVE  SemaphoreInv'
    <2>1. \E to \in {"asleep", "permitted"} : Moves(o, "limited", to)
      BY <1>1 DEF AcquireRate
    <2> QED  BY <1>1, <2>1, MoveKeepsSemaphore DEF AcquireRate, Stages
  <1>2. ASSUME NEW o \in Loads, PollAgain(o)
        PROVE  SemaphoreInv'
    BY <1>2, MoveKeepsSemaphore DEF PollAgain, Stages
  <1>3. ASSUME NEW o \in Loads, CountAgain(o)
        PROVE  SemaphoreInv'
    BY <1>3, ReleaseStep DEF CountAgain, Holding
  <1>4. ASSUME NEW o \in Loads, NEW status, Complete_load(o, status)
        PROVE  SemaphoreInv'
    <2>1. o \in Holding
      BY <1>4, CompletionSteps DEF Holding
    <2> QED  BY <1>4, <2>1, CompletionSteps, ReleaseStep, MoveKeepsSemaphore DEF Stages
  <1>5. ASSUME NEW operations \in SUBSET Loads, execute_concurrent(operations)
        PROVE  SemaphoreInv'
    <2>1. /\ \A o \in operations : stage[o] = "new"
          /\ stage' = [o \in Loads |-> IF o \in operations THEN "limited" ELSE stage[o]]
          /\ UNCHANGED <<permits, queue>>
      BY <1>5 DEF execute_concurrent
    <2>2. Holding' = Holding
      BY <2>1 DEF Holding
    <2>3. \A i \in DOMAIN queue : stage'[queue[i]] = "queued"
      BY <2>1 DEF SemaphoreInv
    <2> QED  BY <2>1, <2>2, <2>3, SemaphoreKept
  <1>6. CASE Join \/ LeaveBatch \/ PollInterval \/ UNCHANGED executorVars
    <2>1. UNCHANGED <<permits, queue, stage>>
      BY <1>6 DEF Join, LeaveBatch, PollInterval, executorVars
    <2>2. Holding' = Holding
      BY <2>1 DEF Holding
    <2> QED  BY <2>1, <2>2, SemaphoreKept DEF SemaphoreInv
  <1> QED  BY <1>1, <1>2, <1>3, <1>4, <1>5, <1>6, PermitStep, ExecutorSteps

\* What every state of the executor satisfies: see LimiterInv and SemaphoreInv.
THEOREM ExecutorInvariant == ExecutorSpec => []ExecutorInv
  <1>1. ExecutorInit => LimiterInv
    <2> SUFFICES ASSUME ExecutorInit PROVE LimiterInv
      OBVIOUS
    <2>1. DOMAIN request_times = {} /\ DOMAIN Recent(request_times) = {}
      BY DEF ExecutorInit, Recent
    <2>2. PermissionsWithinRate
      BY <2>1, FS_EmptySet, ExecutorAssumption DEF PermissionsWithinRate
    <2> QED  BY <2>1, <2>2 DEF ExecutorInit, LimiterInv, Stages
  <1>2. ExecutorInit => SemaphoreInv
    <2> SUFFICES ASSUME ExecutorInit PROVE SemaphoreInv
      OBVIOUS
    <2>1. Holding = {}
      BY DEF ExecutorInit, Holding
    <2>2. PermitsAccounted
      BY <2>1, FS_EmptySet, ExecutorAssumption DEF PermitsAccounted, ExecutorInit
    <2>3. queue = <<>> /\ permits \in Nat
      BY ExecutorAssumption DEF ExecutorInit
    <2> QED  BY <2>2, <2>3 DEF SemaphoreInv
  <1>3. ExecutorInv /\ [ExecutorNext]_executorVars => ExecutorInv'
    BY LimiterStep, SemaphoreStep DEF ExecutorInv
  <1> QED  BY <1>1, <1>2, <1>3, PTL DEF ExecutorSpec, ExecutorInv

\* The permits that are free and the loads under way are max_concurrent, also
\* when a permit goes from a task that ends to the first that waits.
THEOREM PermitsAreAccounted == ExecutorSpec => []PermitsAccounted
  <1>1. ExecutorInv => PermitsAccounted
    BY DEF ExecutorInv, SemaphoreInv
  <1> QED  BY <1>1, ExecutorInvariant, PTL

\* The tasks that poll the limiter get no more than max_requests_per_second
\* permissions in any second.
THEOREM RateIsKept == ExecutorSpec => []PermissionsWithinRate
  <1>1. ExecutorInv => PermissionsWithinRate
    BY DEF ExecutorInv, LimiterInv
  <1> QED  BY <1>1, ExecutorInvariant, PTL

-----------------------------------------------------------------------------
(* The metrics: what every access to an atomic amounts to in the end.      *)

MetricNames == Counters \cup Extremes

Accesses ==
    {a \in [kind : {"add", "swap", "store"}, name : MetricNames, value : Nat] :
        /\ a.kind = "add" => a.name \in Counters
        /\ a.kind = "swap" => a.name \in Extremes
        /\ a.kind = "store" => a.value = Zeroed[a.name]}

\* What is left of a call: an access to each atomic at most, and only those of
\* a reset store.
CallOK(s) ==
    /\ s \in Seq(Accesses)
    /\ \A i, j \in DOMAIN s : s[i].name = s[j].name => i = j
    /\ \A i, j \in DOMAIN s : s[i].kind = "store" => s[j].kind = "store"

MetricsTypeOK ==
    /\ metric \in [MetricNames -> Nat] /\ exact \in [MetricNames -> Nat]
    /\ DOMAIN todo = Recorders /\ \A t \in Recorders : CallOK(todo[t])
    /\ DOMAIN tried = Recorders
    /\ \A t \in Recorders : tried[t] # NotLoaded => Calling(t) /\ todo[t][1].kind = "swap"

Has(t, a) == \E i \in DOMAIN todo[t] : todo[t][i] = a

\* As many pairs for each recorder as it still adds to the counter.
Pending(n) ==
    {p \in Recorders \X Nat :
        \E a \in Accesses : Has(p[1], a) /\ a.name = n /\ p[2] \in 1..a.value}

Waiting(n, v) ==
    \E t \in Recorders : \E a \in Accesses : Has(t, a) /\ a.name = n /\ a.value = v

AsGood(n, v, w) == Better(n, v, w) = v

ExtremeOK(n) ==
    /\ AsGood(n, exact[n], metric[n])
    /\ \A v \in Nat : Waiting(n, v) => AsGood(n, exact[n], v)
    /\ exact[n] = metric[n] \/ Waiting(n, exact[n])

CountersFinite == \A n \in Counters : IsFiniteSet(Pending(n))

\* While requests are recorded, the atomics and what is still added to them
\* are what the calls amount to.
Recording ==
    /\ ~Resetting
    /\ \A n \in Counters : exact[n] = metric[n] + Cardinality(Pending(n))
    /\ \A n \in Extremes : ExtremeOK(n)

\* A reset that nobody disturbs has set back what it is not about to set back.
Restarting ==
    /\ exact = Zeroed
    /\ \E t \in Recorders :
          /\ Calling(t) /\ todo[t][1].kind = "store"
          /\ \A u \in Recorders \ {t} : ~Calling(u)
          /\ \A n \in MetricNames :
                metric[n] = Zeroed[n] \/ \E a \in Accesses : Has(t, a) /\ a.name = n

MetricsInv ==
    MetricsTypeOK /\ CountersFinite /\ (~torn => Recording \/ Restarting)

-----------------------------------------------------------------------------
(* The calls. *)

LEMMA ZeroedType == Zeroed \in [MetricNames -> Nat]
  BY MetricsAssumption DEF Zeroed, MetricNames

\* The calls of one access, and of six.
LEMMA CountingCalls ==
    /\ \A n \in Counters : CallOK(<<Add(n, 1)>>) /\ <<Add(n, 1)>>[1].kind = "add"
    /\ \A d \in Durations : /\ CallOK(SuccessAccesses(d, 1))
                            /\ \A i \in DOMAIN SuccessAccesses(d, 1) :
                                  SuccessAccesses(d, 1)[i].kind # "store"
                            /\ SuccessAccesses(d, 1) # <<>>
  <1>1. ASSUME NEW n \in Counters
        PROVE  CallOK(<<Add(n, 1)>>) /\ <<Add(n, 1)>>[1].kind = "add"
    <2>1. Add(n, 1) \in Accesses /\ Add(n, 1).kind = "add"
      BY DEF Add, Access, Accesses, MetricNames
    <2> QED  BY <2>1 DEF CallOK
  <1>2. ASSUME NEW d \in Durations
        PROVE  /\ CallOK(SuccessAccesses(d, 1))
               /\ \A i \in DOMAIN SuccessAccesses(d, 1) :
                     SuccessAccesses(d, 1)[i].kind # "store"
               /\ SuccessAccesses(d, 1) # <<>>
    <2>1. d \in Nat
      BY MetricsAssumption
    <2> DEFINE s == SuccessAccesses(d, 1)
    <2>2. /\ DOMAIN s = 1..6 /\ s # <<>>
          /\ s[1] = Add("successful_requests", 1) /\ s[2] = Add("volume", 1)
          /\ s[3] = Add("total_latency_ns", d) /\ s[4] = Add("successful_latency_ns", d)
          /\ s[5] = Access("swap", "min_latency_ns", d)
          /\ s[6] = Access("swap", "max_latency_ns", d)
      BY DEF SuccessAccesses
    <2>3. s \in Seq(Accesses)
      BY <2>1 DEF SuccessAccesses, Add, Access, Accesses, MetricNames, Counters, Extremes
    <2>4. \A i \in DOMAIN s : s[i].kind # "store"
      BY <2>2 DEF Add, Access
    <2>5. \A i, j \in DOMAIN s : s[i].name = s[j].name => i = j
      BY <2>2 DEF Add, Access
    <2> QED  BY <2>2, <2>3, <2>4, <2>5 DEF CallOK
  <1> QED  BY <1>1, <1>2

\* The call of reset: a store for each atomic.
LEMMA ResetCall ==
    /\ CallOK(ResetAccesses) /\ ResetAccesses # <<>>
    /\ \A i \in DOMAIN ResetAccesses : ResetAccesses[i].kind = "store"
    /\ \A n \in MetricNames : \E i \in DOMAIN ResetAccesses : ResetAccesses[i].name = n
  <1> DEFINE s == ResetAccesses
  <1>1. /\ DOMAIN s = 1..10 /\ s # <<>>
        /\ s[1] = StoreZero("total_requests") /\ s[2] = StoreZero("successful_requests")
        /\ s[3] = StoreZero("failed_requests") /\ s[4] = StoreZero("total_retries")
        /\ s[5] = StoreZero("timeouts") /\ s[6] = StoreZero("total_latency_ns")
        /\ s[7] = StoreZero("min_latency_ns") /\ s[8] = StoreZero("max_latency_ns")
        /\ s[9] = StoreZero("successful_latency_ns") /\ s[10] = StoreZero("volume")
    BY DEF ResetAccesses
  <1>2. \A n \in MetricNames : StoreZero(n) \in Accesses /\ StoreZero(n).kind = "store"
                               /\ StoreZero(n).name = n
    BY ZeroedType DEF StoreZero, Access, Accesses
  <1>3. s \in Seq(Accesses)
    BY <1>2 DEF ResetAccesses, MetricNames, Counters, Extremes
  <1> HIDE DEF s
  <1>4. /\ s[1].name = "total_requests" /\ s[2].name = "successful_requests"
        /\ s[3].name = "failed_requests" /\ s[4].name = "total_retries"
        /\ s[5].name = "timeouts" /\ s[6].name = "total_latency_ns"
        /\ s[7].name = "min_latency_ns" /\ s[8].name = "max_latency_ns"
        /\ s[9].name = "successful_latency_ns" /\ s[10].name = "volume"
    BY <1>1 DEF StoreZero, Access
  <1>5. \A i \in DOMAIN s : s[i].kind = "store"
    BY <1>1 DEF StoreZero, Access
  <1>6. \A i, j \in DOMAIN s : s[i].name = s[j].name => i = j
    BY <1>1, <1>4
  <1>7. \A n \in MetricNames : \E i \in DOMAIN s : s[i].name = n
    BY <1>1, <1>4 DEF MetricNames, Counters, Extremes
  <1> QED  BY <1>1, <1>3, <1>5, <1>6, <1>7 DEF CallOK, s

-----------------------------------------------------------------------------
(* What a recorder has still to do. *)

\* Its accesses have names of their own.
LEMMA OneAccessEach ==
    ASSUME MetricsTypeOK, NEW t \in Recorders
    PROVE  /\ \A a : Has(t, a) => a \in Accesses
           /\ \A a, b : Has(t, a) /\ Has(t, b) /\ a.name = b.name => a = b
  <1>1. todo[t] \in Seq(Accesses)
        /\ \A i, j \in DOMAIN todo[t] : todo[t][i].name = todo[t][j].name => i = j
    BY DEF MetricsTypeOK, CallOK
  <1> QED  BY <1>1 DEF Has

\* An access that is done was the only one of its name.
LEMMA AccessDone ==
    ASSUME MetricsTypeOK, NEW t \in Recorders, Calling(t), Done(t)
    PROVE  /\ todo[t][1] \in Accesses /\ Has(t, todo[t][1])
           /\ DOMAIN todo' = Recorders /\ CallOK(todo'[t])
           /\ \A u \in Recorders \ {t} : todo'[u] = todo[u]
           /\ \A u \in Recorders \ {t} : \A a : Has(u, a)' <=> Has(u, a)
           /\ \A a : Has(t, a)' <=> Has(t, a) /\ a.name # todo[t][1].name
           /\ todo'[t] # <<>> => (todo'[t][1].kind = "store" <=> todo[t][1].kind = "store")
  <1> DEFINE s == todo[t]
             r == todo'[t]
  <1>1. /\ s \in Seq(Accesses) /\ s # <<>>
        /\ \A i, j \in DOMAIN s : s[i].name = s[j].name => i = j
        /\ \A i, j \in DOMAIN s : s[i].kind = "store" => s[j].kind = "store"
    BY DEF MetricsTypeOK, CallOK, Calling
  <1>2. r = Tail(s) /\ DOMAIN todo' = Recorders
        /\ \A u \in Recorders \ {t} : todo'[u] = todo[u]
    BY DEF MetricsTypeOK, Done
  <1> HIDE DEF s, r
  <1>3. /\ Len(s) \in Nat \ {0} /\ DOMAIN s = 1..Len(s)
        /\ r \in Seq(Accesses) /\ Len(r) = Len(s) - 1 /\ DOMAIN r = 1..(Len(s) - 1)
        /\ \A i \in DOMAIN r : r[i] = s[i + 1]
    BY <1>1, <1>2
  <1>4. \A i \in DOMAIN r : i \in Nat /\ i + 1 \in DOMAIN s /\ i + 1 # 1
    BY <1>3
  <1>5. 1 \in DOMAIN s /\ s[1] \in Accesses
    BY <1>1, <1>3
  <1>6. \A i \in DOMAIN s : i = 1 \/ (i - 1 \in DOMAIN r /\ r[i - 1] = s[i])
    BY <1>3
  <1>7. CallOK(r)
    <2>1. \A i, j \in DOMAIN r : r[i].name = r[j].name => i = j
      <3> SUFFICES ASSUME NEW i \in DOMAIN r, NEW j \in DOMAIN r, r[i].name = r[j].name
                   PROVE  i = j
        OBVIOUS
      <3>1. i + 1 = j + 1
        BY <1>1, <1>3, <1>4
      <3> QED  BY <1>4, <3>1
    <2>2. \A i, j \in DOMAIN r : r[i].kind = "store" => r[j].kind = "store"
      BY <1>1, <1>3, <1>4
    <2> QED  BY <1>3, <2>1, <2>2 DEF CallOK
  <1>8. \A a : (\E i \in DOMAIN r : r[i] = a) <=>
               (\E i \in DOMAIN s : s[i] = a) /\ a.name # s[1].name
    <2>1. ASSUME NEW i \in DOMAIN r
          PROVE  (\E j \in DOMAIN s : s[j] = r[i]) /\ r[i].name # s[1].name
      BY <1>1, <1>3, <1>4, <1>5
    <2>2. ASSUME NEW i \in DOMAIN s, s[i].name # s[1].name
          PROVE  \E j \in DOMAIN r : r[j] = s[i]
      BY <1>6, <2>2
    <2> QED  BY <2>1, <2>2
  <1>9. r # <<>> => (r[1].kind = "store" <=> s[1].kind = "store")
    <2> SUFFICES ASSUME r # <<>> PROVE r[1].kind = "store" <=> s[1].kind = "store"
      OBVIOUS
    <2>1. 1 \in DOMAIN r
      BY <1>3
    <2>2. 1 + 1 \in DOMAIN s /\ r[1] = s[1 + 1]
      BY <1>3, <1>4, <2>1
    <2> QED  BY <1>1, <1>5, <2>2
  <1> QED  BY <1>2, <1>5, <1>7, <1>8, <1>9 DEF Has, s, r

\* A call that begins.
LEMMA CallBegins ==
    ASSUME MetricsTypeOK, NEW t \in Recorders, ~Calling(t), NEW accesses,
           todo' = [todo EXCEPT ![t] = accesses]
    PROVE  /\ DOMAIN todo' = Recorders /\ todo'[t] = accesses
           /\ \A u \in Recorders \ {t} : todo'[u] = todo[u]
           /\ \A u \in Recorders \ {t} : \A a : Has(u, a)' <=> Has(u, a)
           /\ \A a : ~Has(t, a) /\ (Has(t, a)' <=> \E i \in DOMAIN accesses : accesses[i] = a)
  <1>1. /\ DOMAIN todo' = Recorders /\ todo'[t] = accesses
        /\ \A u \in Recorders \ {t} : todo'[u] = todo[u]
    BY DEF MetricsTypeOK
  <1>2. \A a : ~Has(t, a)
    BY DEF Calling, Has
  <1> QED  BY <1>1, <1>2 DEF Has

\* What an access of one recorder adds.
Share(t, v) == {t} \X (1..v)

LEMMA ShareSize ==
    ASSUME NEW t, NEW v \in Nat
    PROVE  IsFiniteSet(Share(t, v)) /\ Cardinality(Share(t, v)) = v
  <1>1. IsFiniteSet({t}) /\ Cardinality({t}) = 1
    BY FS_Singleton
  <1>2. IsFiniteSet(1..v) /\ Cardinality(1..v) = v
    BY FS_Interval
  <1>3. IsFiniteSet(Share(t, v))
        /\ Cardinality(Share(t, v)) = Cardinality({t}) * Cardinality(1..v)
    BY <1>1, <1>2, FS_Product, Zenon DEF Share
  <1> QED  BY <1>1, <1>2, <1>3

\* Two sets with nothing in common.
LEMMA DisjointUnion ==
    ASSUME NEW S, NEW T, IsFiniteSet(S), IsFiniteSet(T), S \cap T = {}
    PROVE  IsFiniteSet(S \cup T) /\ Cardinality(S \cup T) = Cardinality(S) + Cardinality(T)
  <1>1. Cardinality(S \cap T) = 0
    BY FS_EmptySet
  <1> QED  BY <1>1, FS_Union, FS_CardinalityType

\* What is left to be added to a counter after an access.
LEMMA PendingAfterAccess ==
    ASSUME MetricsTypeOK, CountersFinite, NEW t \in Recorders, Calling(t), Done(t),
           NEW n \in Counters
    PROVE  LET a == todo[t][1] IN
           /\ IsFiniteSet(Pending(n)') /\ Cardinality(Pending(n)') \in Nat
           /\ a.name # n => Pending(n)' = Pending(n)
           /\ a.name = n => Cardinality(Pending(n)) = Cardinality(Pending(n)') + a.value
  <1> DEFINE a == todo[t][1]
             P == Pending(n)
  <1>1. /\ a \in Accesses /\ Has(t, a)
        /\ \A u \in Recorders \ {t} : \A b : Has(u, b)' <=> Has(u, b)
        /\ \A b : Has(t, b)' <=> Has(t, b) /\ b.name # a.name
    BY AccessDone
  <1>2. \A b : Has(t, b) /\ b.name = a.name => b = a
    BY <1>1, OneAccessEach
  <1> HIDE DEF a
  <1>3. a.value \in Nat
    BY <1>1 DEF Accesses
  <1>4. IsFiniteSet(P)
    BY DEF CountersFinite
  <1>5. CASE a.name # n
    <2>1. P' = P
      <3>1. \A u \in Recorders : \A b : b.name = n => (Has(u, b)' <=> Has(u, b))
        BY <1>1, <1>5
      <3> QED  BY <3>1 DEF Pending
    <2> QED  BY <1>4, <1>5, <2>1, FS_CardinalityType DEF a
  <1>6. CASE a.name = n
    <2>1. P = P' \cup Share(t, a.value) /\ P' \cap Share(t, a.value) = {}
      <3>1. \A p \in P' : p \in P /\ p \notin Share(t, a.value)
        BY <1>1, <1>6 DEF Pending, Share
      <3>2. \A p \in P : p \in P' \/ p \in Share(t, a.value)
        <4> SUFFICES ASSUME NEW p \in P PROVE p \in P' \/ p \in Share(t, a.value)
          OBVIOUS
        <4>1. PICK b \in Accesses : Has(p[1], b) /\ b.name = n /\ p[2] \in 1..b.value
          BY DEF Pending
        <4>2. p \in Recorders \X Nat /\ p = <<p[1], p[2]>> /\ p[1] \in Recorders
          BY DEF Pending
        <4>3. CASE p[1] = t
          <5>1. b = a
            BY <1>2, <1>6, <4>1, <4>3
          <5> QED  BY <4>1, <4>2, <4>3, <5>1 DEF Share
        <4>4. CASE p[1] # t
          BY <1>1, <4>1, <4>2, <4>4 DEF Pending
        <4> QED  BY <4>3, <4>4
      <3>3. \A p \in Share(t, a.value) : p \in P
        BY <1>1, <1>3, <1>6 DEF Pending, Share
      <3> QED  BY <3>1, <3>2, <3>3
    <2>2. IsFiniteSet(P')
      BY <1>4, <2>1, FS_Subset
    <2>3. Cardinality(P) = Cardinality(P') + a.value
      <3>1. IsFiniteSet(Share(t, a.value)) /\ Cardinality(Share(t, a.value)) = a.value
        BY <1>3, ShareSize
      <3>2. Cardinality(P' \cup Share(t, a.value)) = Cardinality(P') + Cardinality(Share(t, a.value))
        BY <2>1, <2>2, <3>1, DisjointUnion
      <3> QED  BY <2>1, <3>1, <3>2
    <2> QED  BY <1>6, <2>2, <2>3, FS_CardinalityType DEF a
  <1> QED  BY <1>5, <1>6

\* A call adds what its access to the counter does, if it makes one.
LEMMA PendingAfterCall ==
    ASSUME MetricsTypeOK, CountersFinite, NEW t \in Recorders, ~Calling(t), NEW accesses,
           CallOK(accesses), todo' = [todo EXCEPT ![t] = accesses], NEW n \in Counters
    PROVE  /\ IsFiniteSet(Pending(n)') /\ Cardinality(Pending(n)') \in Nat
           /\ (\A i \in DOMAIN accesses : accesses[i].name # n) => Pending(n)' = Pending(n)
           /\ \A i \in DOMAIN accesses : accesses[i].name = n =>
                 Cardinality(Pending(n)') = Cardinality(Pending(n)) + accesses[i].value
  <1> DEFINE P == Pending(n)
  <1>1. /\ \A u \in Recorders \ {t} : \A b : Has(u, b)' <=> Has(u, b)
        /\ \A b : ~Has(t, b) /\ (Has(t, b)' <=> \E i \in DOMAIN accesses : accesses[i] = b)
    BY CallBegins
  <1>2. IsFiniteSet(P) /\ Cardinality(P) \in Nat
    BY FS_CardinalityType DEF CountersFinite
  <1>3. /\ \A i \in DOMAIN accesses : accesses[i] \in Accesses
        /\ \A i, j \in DOMAIN accesses : accesses[i].name = accesses[j].name => i = j
    BY DEF CallOK
  <1>4. CASE \A i \in DOMAIN accesses : accesses[i].name # n
    <2>1. \A u \in Recorders : \A b : b.name = n => (Has(u, b)' <=> Has(u, b))
      BY <1>1, <1>4
    <2>2. P' = P
      BY <2>1 DEF Pending
    <2> QED  BY <1>2, <1>4, <2>2
  <1>5. ASSUME NEW i \in DOMAIN accesses, accesses[i].name = n
        PROVE  /\ IsFiniteSet(P') /\ Cardinality(P') \in Nat
               /\ Cardinality(P') = Cardinality(P) + accesses[i].value
    <2> DEFINE a == accesses[i]
    <2>1. a \in Accesses /\ a.name = n /\ a.value \in Nat
      BY <1>3, <1>5 DEF Accesses
    <2>2. \A b : Has(t, b)' /\ b.name = n => b = a
      BY <1>1, <1>3, <1>5
    <2>3. Has(t, a)'
      BY <1>1
    <2> HIDE DEF a
    <2>4. P' = P \cup Share(t, a.value) /\ P \cap Share(t, a.value) = {}
      <3>1. \A p \in P : p \in P' /\ p \notin Share(t, a.value)
        BY <1>1 DEF Pending, Share
      <3>2. \A p \in P' : p \in P \/ p \in Share(t, a.value)
        <4> SUFFICES ASSUME NEW p \in P' PROVE p \in P \/ p \in Share(t, a.value)
          OBVIOUS
        <4>1. PICK b \in Accesses : Has(p[1], b)' /\ b.name = n /\ p[2] \in 1..b.value
          BY DEF Pending
        <4>2. p \in Recorders \X Nat /\ p = <<p[1], p[2]>> /\ p[1] \in Recorders
          BY DEF Pending
        <4>3. CASE p[1] = t
          <5>1. b = a
            BY <2>2, <4>1, <4>3
          <5> QED  BY <4>1, <4>2, <4>3, <5>1 DEF Share
        <4>4. CASE p[1] # t
          BY <1>1, <4>1, <4>2, <4>4 DEF Pending
        <4> QED  BY <4>3, <4>4
      <3>3. \A p \in Share(t, a.value) : p \in P'
        BY <2>1, <2>3 DEF Pending, Share
      <3> QED  BY <3>1, <3>2, <3>3
    <2>5. IsFiniteSet(Share(t, a.value)) /\ Cardinality(Share(t, a.value)) = a.value
      BY <2>1, ShareSize
    <2>6. IsFiniteSet(P \cup Share(t, a.value))
          /\ Cardinality(P \cup Share(t, a.value)) = Cardinality(P) + a.value
      BY <1>2, <2>4, <2>5, DisjointUnion
    <2>7. IsFiniteSet(P') /\ Cardinality(P') = Cardinality(P) + a.value
      BY <2>4, <2>6
    <2> QED  BY <1>2, <2>1, <2>7 DEF a
  <1> QED  BY <1>4, <1>5

-----------------------------------------------------------------------------
(* The values a call leaves.                                               *)

\* The better of two latencies is one of them, and as good as both.
LEMMA BetterOrder ==
    ASSUME NEW n \in Extremes
    PROVE  /\ \A v, w \in Nat : /\ Better(n, v, w) \in {v, w}
                                /\ AsGood(n, Better(n, v, w), v)
                                /\ AsGood(n, Better(n, v, w), w)
                                /\ AsGood(n, v, w) /\ AsGood(n, w, v) => v = w
           /\ \A v \in Nat : AsGood(n, v, v)
           /\ \A u, v, w \in Nat : AsGood(n, u, v) /\ AsGood(n, v, w) => AsGood(n, u, w)
  <1>1. CASE n = "min_latency_ns"
    <2>1. \A v, w \in Nat : Better(n, v, w) = IF v <= w THEN v ELSE w
      BY <1>1 DEF Better
    <2> QED  BY <2>1 DEF AsGood
  <1>2. CASE n = "max_latency_ns"
    <2>1. \A v, w \in Nat : Better(n, v, w) = IF v >= w THEN v ELSE w
      BY <1>2 DEF Better
    <2> QED  BY <2>1 DEF AsGood
  <1> QED  BY <1>1, <1>2 DEF Extremes

LEMMA AppliedType ==
    ASSUME NEW a \in Accesses, NEW v \in Nat
    PROVE  Applied(v, a) \in Nat
  <1>1. a.value \in Nat /\ a.kind \in {"add", "swap", "store"}
    BY DEF Accesses
  <1>2. Better(a.name, v, a.value) \in {v, a.value}
    BY DEF Better
  <1> QED  BY <1>1, <1>2 DEF Applied

\* A call does to each atomic what its access to it does.
LEMMA CallAmounts ==
    ASSUME NEW m \in [MetricNames -> Nat], NEW s, CallOK(s)
    PROVE  /\ AfterCall(m, s) \in [MetricNames -> Nat]
           /\ \A i \in DOMAIN s : AfterCall(m, s)[s[i].name] = Applied(m[s[i].name], s[i])
           /\ \A n \in MetricNames :
                 (\A i \in DOMAIN s : s[i].name # n) => AfterCall(m, s)[n] = m[n]
  <1> DEFINE own(n) == {i \in DOMAIN s : s[i].name = n}
             value(n) == IF own(n) = {} THEN m[n]
                                        ELSE Applied(m[n], s[CHOOSE i \in own(n) : TRUE])
  <1>1. AfterCall(m, s) = [n \in MetricNames |-> value(n)]
    BY DEF AfterCall
  <1>2. /\ \A i \in DOMAIN s : s[i] \in Accesses
        /\ \A i, j \in DOMAIN s : s[i].name = s[j].name => i = j
    BY DEF CallOK
  <1>3. ASSUME NEW i \in DOMAIN s
        PROVE  s[i].name \in MetricNames /\ value(s[i].name) = Applied(m[s[i].name], s[i])
    <2>1. s[i].name \in MetricNames
      BY <1>2 DEF Accesses
    <2>2. own(s[i].name) = {i}
      BY <1>2
    <2> QED  BY <2>1, <2>2
  <1>4. ASSUME NEW n \in MetricNames, \A i \in DOMAIN s : s[i].name # n
        PROVE  value(n) = m[n]
    BY <1>4
  <1>5. ASSUME NEW n \in MetricNames
        PROVE  value(n) \in Nat
    <2>1. CASE \A i \in DOMAIN s : s[i].name # n
      BY <1>4, <2>1
    <2>2. CASE \E i \in DOMAIN s : s[i].name = n
      BY <1>2, <1>3, <2>2, AppliedType
    <2> QED  BY <2>1, <2>2
  <1> HIDE DEF value
  <1> QED  BY <1>1, <1>3, <1>4, <1>5

\* An access changes the atomic it names.
LEMMA AccessAmounts ==
    ASSUME NEW m \in [MetricNames -> Nat], NEW a \in Accesses
    PROVE  /\ After(m, a) \in [MetricNames -> Nat]
           /\ After(m, a)[a.name] = Applied(m[a.name], a)
           /\ \A n \in MetricNames \ {a.name} : After(m, a)[n] = m[n]
  <1>1. a.name \in MetricNames
    BY DEF Accesses
  <1>2. Applied(m[a.name], a) \in Nat
    BY <1>1, AppliedType
  <1> QED  BY <1>1, <1>2 DEF After

\* Nobody in a call has anything left to do.
LEMMA QuietCounts ==
    ASSUME \A t \in Recorders : ~Calling(t)
    PROVE  /\ \A n : Pending(n) = {} /\ Cardinality(Pending(n)) = 0
           /\ \A n, v : ~Waiting(n, v)
  <1>1. \A t \in Recorders : \A a : ~Has(t, a)
    BY DEF Calling, Has
  <1> QED  BY <1>1, FS_EmptySet DEF Pending, Waiting

-----------------------------------------------------------------------------
(* While requests are recorded.                                            *)

\* A call keeps the account: what it is going to do is in both.
LEMMA RecordingCall ==
    ASSUME MetricsTypeOK, CountersFinite, Recording,
           NEW t \in Recorders, ~Calling(t), NEW accesses, CallOK(accesses),
           \A i \in DOMAIN accesses : accesses[i].kind # "store",
           metric' = metric, todo' = [todo EXCEPT ![t] = accesses],
           exact' = AfterCall(exact, accesses)
    PROVE  Recording'
  <1>1. /\ todo'[t] = accesses
        /\ \A u \in Recorders \ {t} : todo'[u] = todo[u]
        /\ \A u \in Recorders \ {t} : \A a : Has(u, a)' <=> Has(u, a)
        /\ \A a : ~Has(t, a) /\ (Has(t, a)' <=> \E i \in DOMAIN accesses : accesses[i] = a)
    BY CallBegins
  <1>2. /\ accesses \in Seq(Accesses)
        /\ \A i \in DOMAIN accesses : accesses[i] \in Accesses
        /\ \A i, j \in DOMAIN accesses : accesses[i].name = accesses[j].name => i = j
    BY DEF CallOK
  <1>3. /\ exact \in [MetricNames -> Nat] /\ metric \in [MetricNames -> Nat]
        /\ \A i \in DOMAIN accesses :
              exact'[accesses[i].name] = Applied(exact[accesses[i].name], accesses[i])
        /\ \A n \in MetricNames :
              (\A i \in DOMAIN accesses : accesses[i].name # n) => exact'[n] = exact[n]
    <2>1. exact \in [MetricNames -> Nat] /\ metric \in [MetricNames -> Nat]
      BY DEF MetricsTypeOK
    <2> QED  BY <2>1, CallAmounts
  <1>4. ~Resetting'
    <2>1. accesses # <<>> => 1 \in DOMAIN accesses
      BY <1>2
    <2> QED  BY <1>1, <2>1 DEF Recording, Resetting, Calling
  <1>5. ASSUME NEW n \in Counters
        PROVE  exact'[n] = metric'[n] + Cardinality(Pending(n)')
    <2>1. /\ exact[n] = metric[n] + Cardinality(Pending(n)) /\ n \in MetricNames
          /\ metric[n] \in Nat /\ Cardinality(Pending(n)) \in Nat
      BY <1>3, FS_CardinalityType DEF Recording, CountersFinite, MetricNames
    <2>2. CASE \A i \in DOMAIN accesses : accesses[i].name # n
      BY <1>3, <2>1, <2>2, PendingAfterCall
    <2>3. ASSUME NEW i \in DOMAIN accesses, accesses[i].name = n
          PROVE  exact'[n] = metric'[n] + Cardinality(Pending(n)')
      <3>1. accesses[i].kind = "add" /\ accesses[i].value \in Nat
        BY <1>2, <2>3 DEF Accesses, Counters, Extremes
      <3>2. exact'[n] = exact[n] + accesses[i].value
        BY <1>3, <2>3, <3>1 DEF Applied
      <3>3. Cardinality(Pending(n)') = Cardinality(Pending(n)) + accesses[i].value
        BY <2>3, PendingAfterCall
      <3> QED  BY <2>1, <3>1, <3>2, <3>3
    <2> QED  BY <2>2, <2>3
  <1>6. ASSUME NEW n \in Extremes
        PROVE  ExtremeOK(n)'
    <2>1. /\ AsGood(n, exact[n], metric[n])
          /\ \A v \in Nat : Waiting(n, v) => AsGood(n, exact[n], v)
          /\ exact[n] = metric[n] \/ Waiting(n, exact[n])
          /\ n \in MetricNames /\ metric[n] \in Nat /\ exact[n] \in Nat
      BY <1>3 DEF Recording, ExtremeOK, MetricNames
    <2>2. CASE \A i \in DOMAIN accesses : accesses[i].name # n
      <3>1. \A u \in Recorders : \A a : a.name = n => (Has(u, a)' <=> Has(u, a))
        BY <1>1, <2>2
      <3>2. \A v : Waiting(n, v)' <=> Waiting(n, v)
        BY <3>1 DEF Waiting
      <3>3. exact'[n] = exact[n]
        BY <1>3, <2>1, <2>2
      <3> QED  BY <2>1, <3>2, <3>3 DEF ExtremeOK, AsGood
    <2>3. ASSUME NEW i \in DOMAIN accesses, accesses[i].name = n
          PROVE  ExtremeOK(n)'
      <3> DEFINE v == accesses[i].value
                 e == exact[n]
      <3>1. accesses[i].kind = "swap" /\ v \in Nat /\ accesses[i] \in Accesses
        BY <1>2, <2>3 DEF Accesses, Counters, Extremes
      <3>2. exact'[n] = Better(n, e, v)
        BY <1>3, <2>3, <3>1 DEF Applied
      <3> DEFINE waits(w) ==
                   \E u \in Recorders : \E a \in Accesses :
                       Has(u, a)' /\ a.name = n /\ a.value = w
      <3>3. \A w : waits(w) <=> Waiting(n, w) \/ w = v
        <4>1. waits(v)
          BY <1>1, <2>3, <3>1
        <4>2. ASSUME NEW w, Waiting(n, w)
              PROVE  waits(w)
          BY <1>1, <4>2 DEF Waiting
        <4>3. ASSUME NEW w, waits(w), w # v
              PROVE  Waiting(n, w)
          <5>1. PICK u \in Recorders, a \in Accesses : Has(u, a)' /\ a.name = n /\ a.value = w
            BY <4>3
          <5>2. u # t
            BY <1>1, <1>2, <2>3, <4>3, <5>1
          <5> QED  BY <1>1, <5>1, <5>2 DEF Waiting
        <4> QED  BY <4>1, <4>2, <4>3
      <3>8. ExtremeOK(n)' <=>
               /\ AsGood(n, exact'[n], metric'[n])
               /\ \A w \in Nat : waits(w) => AsGood(n, exact'[n], w)
               /\ exact'[n] = metric'[n] \/ waits(exact'[n])
        BY DEF ExtremeOK, AsGood, Waiting
      <3> HIDE DEF v, e, waits
      <3>4. /\ Better(n, e, v) \in {e, v} /\ AsGood(n, Better(n, e, v), e)
            /\ AsGood(n, Better(n, e, v), v) /\ Better(n, e, v) \in Nat
        BY <2>1, <3>1, BetterOrder DEF e
      <3>5. AsGood(n, Better(n, e, v), metric[n])
        BY <2>1, <3>1, <3>4, BetterOrder DEF e
      <3>6. \A w \in Nat : waits(w) => AsGood(n, Better(n, e, v), w)
        BY <2>1, <3>1, <3>3, <3>4, BetterOrder DEF e
      <3>7. Better(n, e, v) = metric[n] \/ waits(Better(n, e, v))
        BY <2>1, <3>3, <3>4 DEF e
      <3> QED  BY <3>2, <3>5, <3>6, <3>7, <3>8
    <2> QED  BY <2>2, <2>3
  <1> QED  BY <1>4, <1>5, <1>6 DEF Recording

\* An access moves what it does from what is left to do to the atomic.
LEMMA RecordingAccess ==
    ASSUME MetricsTypeOK, CountersFinite, Recording, NEW t \in Recorders, Calling(t),
           Done(t), metric' = After(metric, todo[t][1]), exact' = exact
    PROVE  Recording'
  <1> DEFINE a == todo[t][1]
  <1>1. /\ a \in Accesses /\ Has(t, a) /\ a.name \in MetricNames /\ a.value \in Nat
        /\ \A u \in Recorders \ {t} : todo'[u] = todo[u]
        /\ \A u \in Recorders \ {t} : \A b : Has(u, b)' <=> Has(u, b)
        /\ \A b : Has(t, b)' <=> Has(t, b) /\ b.name # a.name
        /\ todo'[t] # <<>> => (todo'[t][1].kind = "store" <=> a.kind = "store")
    BY AccessDone DEF Accesses
  <1>2. \A b : Has(t, b) /\ b.name = a.name => b = a
    BY <1>1, OneAccessEach
  <1>3. a.kind # "store"
    BY DEF Recording, Resetting
  <1> HIDE DEF a
  <1>4. /\ metric \in [MetricNames -> Nat] /\ exact \in [MetricNames -> Nat]
        /\ metric'[a.name] = Applied(metric[a.name], a)
        /\ \A n \in MetricNames \ {a.name} : metric'[n] = metric[n]
    <2>1. metric \in [MetricNames -> Nat] /\ exact \in [MetricNames -> Nat]
      BY DEF MetricsTypeOK
    <2> QED  BY <1>1, <2>1, AccessAmounts DEF a
  <1>5. ~Resetting'
    BY <1>1, <1>3 DEF Recording, Resetting, Calling
  <1>6. ASSUME NEW n \in Counters
        PROVE  exact'[n] = metric'[n] + Cardinality(Pending(n)')
    <2>1. /\ exact[n] = metric[n] + Cardinality(Pending(n)) /\ n \in MetricNames
          /\ metric[n] \in Nat /\ Cardinality(Pending(n)) \in Nat
      BY <1>4, FS_CardinalityType DEF Recording, CountersFinite, MetricNames
    <2>2. /\ Cardinality(Pending(n)') \in Nat
          /\ a.name # n => Pending(n)' = Pending(n)
          /\ a.name = n => Cardinality(Pending(n)) = Cardinality(Pending(n)') + a.value
      BY PendingAfterAccess DEF a
    <2>3. CASE a.name = n
      <3>1. a.kind = "add"
        BY <1>1, <1>3, <2>3 DEF Accesses, Counters, Extremes
      <3>2. metric'[n] = metric[n] + a.value
        BY <1>4, <2>3, <3>1 DEF Applied
      <3> QED  BY <1>1, <2>1, <2>2, <2>3, <3>2
    <2>4. CASE a.name # n
      BY <1>4, <2>1, <2>2, <2>4
    <2> QED  BY <2>3, <2>4
  <1>7. ASSUME NEW n \in Extremes
        PROVE  ExtremeOK(n)'
    <2> DEFINE waits(w) ==
                 \E u \in Recorders : \E b \in Accesses :
                     Has(u, b)' /\ b.name = n /\ b.value = w
               e == exact[n]
               m == metric[n]
               v == a.value
    <2>1. /\ AsGood(n, e, m)
          /\ \A w \in Nat : Waiting(n, w) => AsGood(n, e, w)
          /\ e = m \/ Waiting(n, e)
          /\ n \in MetricNames /\ m \in Nat /\ e \in Nat
      BY <1>4 DEF Recording, ExtremeOK, MetricNames
    <2>2. ExtremeOK(n)' <=>
             /\ AsGood(n, e, metric'[n])
             /\ \A w \in Nat : waits(w) => AsGood(n, e, w)
             /\ e = metric'[n] \/ waits(e)
      BY DEF ExtremeOK, AsGood, Waiting
    <2>3. \A w : waits(w) => Waiting(n, w)
      BY <1>1 DEF Waiting
    <2>4. CASE a.name # n
      <3>1. \A w : Waiting(n, w) => waits(w)
        BY <1>1, <2>4 DEF Waiting
      <3> QED  BY <1>4, <2>1, <2>2, <2>3, <2>4, <3>1
    <2>5. CASE a.name = n
      <3>1. a.kind = "swap"
        BY <1>1, <1>3, <2>5 DEF Accesses, Counters, Extremes
      <3>2. metric'[n] = Better(n, m, v)
        BY <1>4, <2>5, <3>1 DEF Applied
      <3>3. Waiting(n, v)
        BY <1>1, <2>5 DEF Waiting
      <3>4. \A w : Waiting(n, w) => waits(w) \/ w = v
        <4> SUFFICES ASSUME NEW w, Waiting(n, w) PROVE waits(w) \/ w = v
          OBVIOUS
        <4>1. PICK u \in Recorders, b \in Accesses : Has(u, b) /\ b.name = n /\ b.value = w
          BY DEF Waiting
        <4>2. CASE u = t
          BY <1>2, <2>5, <4>1, <4>2
        <4>3. CASE u # t
          BY <1>1, <4>1, <4>3
        <4> QED  BY <4>2, <4>3
      <3> HIDE DEF waits, e, m, v
      <3>5. v \in Nat
        BY <1>1 DEF v
      <3>6. AsGood(n, e, v)
        BY <2>1, <3>3, <3>5
      <3>7. AsGood(n, e, Better(n, m, v))
        BY <2>1, <3>5, <3>6, BetterOrder
      <3>8. e = Better(n, m, v) \/ waits(e)
        <4>1. CASE e = m
          <5>1. Better(n, m, v) = m
            BY <3>6, <4>1 DEF AsGood
          <5> QED  BY <4>1, <5>1
        <4>2. CASE e = v
          <5>1. AsGood(n, Better(n, m, v), v) /\ Better(n, m, v) \in Nat
            BY <2>1, <3>5, BetterOrder
          <5> QED  BY <2>1, <3>5, <3>7, <4>2, <5>1, BetterOrder
        <4> QED  BY <2>1, <3>4, <4>1, <4>2
      <3> QED  BY <2>1, <2>2, <2>3, <3>2, <3>7, <3>8
    <2> QED  BY <2>4, <2>5
  <1> QED  BY <1>5, <1>6, <1>7 DEF Recording

\* A step that leaves the atomics and the calls alone.
LEMMA RecordingKept ==
    ASSUME Recording \/ Restarting, metric' = metric, todo' = todo, exact' = exact
    PROVE  Recording' \/ Restarting'
  <1>1. /\ \A u, a : Has(u, a)' <=> Has(u, a)
        /\ \A u : Calling(u)' <=> Calling(u)
    BY DEF Has, Calling
  <1>2. CASE Recording
    <2>1. ~Resetting'
      BY <1>2 DEF Recording, Resetting, Calling
    <2>2. \A n : Pending(n)' = Pending(n)
      BY <1>1 DEF Pending
    <2>3. \A n \in Extremes : ExtremeOK(n)'
      BY <1>1, <1>2 DEF Recording, ExtremeOK, Waiting, AsGood
    <2> QED  BY <1>2, <2>1, <2>2, <2>3 DEF Recording
  <1>3. CASE Restarting
    BY <1>1, <1>3 DEF Restarting
  <1> QED  BY <1>2, <1>3

-----------------------------------------------------------------------------
(* A reset that nobody disturbs.                                           *)

\* It begins when nobody is in a call.
LEMMA ResetBegins ==
    ASSUME MetricsTypeOK, NEW t \in Recorders, \A u \in Recorders : ~Calling(u),
           todo' = [todo EXCEPT ![t] = ResetAccesses],
           exact' = AfterCall(exact, ResetAccesses)
    PROVE  Restarting'
  <1> DEFINE s == ResetAccesses
  <1>1. /\ CallOK(s) /\ s # <<>>
        /\ \A i \in DOMAIN s : s[i].kind = "store"
        /\ \A n \in MetricNames : \E i \in DOMAIN s : s[i].name = n
    BY ResetCall
  <1>2. /\ todo'[t] = s
        /\ \A u \in Recorders \ {t} : todo'[u] = todo[u]
        /\ \A a : Has(t, a)' <=> \E i \in DOMAIN s : s[i] = a
    BY CallBegins
  <1> HIDE DEF s
  <1>3. /\ s \in Seq(Accesses) /\ 1 \in DOMAIN s
        /\ \A i \in DOMAIN s : s[i] \in Accesses
    BY <1>1 DEF CallOK
  <1>4. exact' = Zeroed
    <2>1. exact \in [MetricNames -> Nat]
      BY DEF MetricsTypeOK
    <2>2. /\ exact' \in [MetricNames -> Nat]
          /\ \A i \in DOMAIN s : exact'[s[i].name] = Applied(exact[s[i].name], s[i])
      BY <1>1, <2>1, CallAmounts DEF s
    <2>3. \A i \in DOMAIN s : exact'[s[i].name] = Zeroed[s[i].name]
      BY <1>1, <1>3, <2>2 DEF Applied, Accesses
    <2>4. \A n \in MetricNames : exact'[n] = Zeroed[n]
      BY <1>1, <2>3
    <2> QED  BY <2>2, <2>4, ZeroedType
  <1>5. Calling(t)' /\ todo'[t][1].kind = "store"
    BY <1>1, <1>2, <1>3 DEF Calling
  <1>6. \A u \in Recorders \ {t} : ~Calling(u)'
    BY <1>2 DEF Calling
  <1>7. \A n \in MetricNames : \E a \in Accesses : Has(t, a)' /\ a.name = n
    BY <1>1, <1>2, <1>3
  <1> QED  BY <1>4, <1>5, <1>6, <1>7 DEF Restarting

\* Each store leaves less to set back, and after the last one there are no
\* requests on record.
LEMMA ResetGoesOn ==
    ASSUME MetricsTypeOK, CountersFinite, Restarting, NEW t \in Recorders, Calling(t),
           Done(t), metric' = After(metric, todo[t][1]), exact' = exact
    PROVE  Recording' \/ Restarting'
  <1> DEFINE a == todo[t][1]
  <1>1. /\ exact = Zeroed /\ a.kind = "store"
        /\ \A u \in Recorders \ {t} : ~Calling(u)
        /\ \A n \in MetricNames :
              metric[n] = Zeroed[n] \/ \E b \in Accesses : Has(t, b) /\ b.name = n
    BY DEF Restarting
  <1>2. /\ a \in Accesses /\ a.name \in MetricNames /\ a.value = Zeroed[a.name]
        /\ \A u \in Recorders \ {t} : todo'[u] = todo[u]
        /\ \A b : Has(t, b)' <=> Has(t, b) /\ b.name # a.name
        /\ todo'[t] # <<>> => todo'[t][1].kind = "store"
    BY <1>1, AccessDone DEF Accesses
  <1> HIDE DEF a
  <1>3. /\ metric' \in [MetricNames -> Nat] /\ metric'[a.name] = Zeroed[a.name]
        /\ \A n \in MetricNames \ {a.name} : metric'[n] = metric[n]
    <2>1. metric \in [MetricNames -> Nat]
      BY DEF MetricsTypeOK
    <2>2. Applied(metric[a.name], a) = Zeroed[a.name]
      BY <1>1, <1>2 DEF Applied
    <2> QED  BY <1>2, <2>1, <2>2, AccessAmounts DEF a
  <1>4. \A u \in Recorders \ {t} : ~Calling(u)'
    BY <1>1, <1>2 DEF Calling
  <1>5. \A n \in MetricNames :
           metric'[n] = Zeroed[n] \/ \E b \in Accesses : Has(t, b)' /\ b.name = n
    BY <1>1, <1>2, <1>3
  <1>6. CASE todo'[t] # <<>>
    <2>1. Calling(t)'
      BY <1>6 DEF Calling
    <2> QED  BY <1>1, <1>2, <1>4, <1>5, <1>6, <2>1 DEF Restarting
  <1>7. CASE todo'[t] = <<>>
    <2>1. \A u \in Recorders : ~Calling(u)' /\ \A b : ~Has(u, b)'
      BY <1>4, <1>7 DEF Calling, Has
    <2>2. metric' = exact' /\ metric' = Zeroed
      <3>1. \A n \in MetricNames : metric'[n] = Zeroed[n]
        BY <1>5, <2>1
      <3> QED  BY <1>1, <1>3, <3>1, ZeroedType
    <2>3. ~Resetting'
      BY <2>1 DEF Resetting
    <2>4. ASSUME NEW n \in Counters
          PROVE  exact'[n] = metric'[n] + Cardinality(Pending(n)')
      <3>1. Pending(n)' = {}
        BY <2>1 DEF Pending
      <3>2. Cardinality(Pending(n)') = 0
        BY <3>1, FS_EmptySet
      <3>3. metric'[n] \in Nat
        BY <1>3 DEF MetricNames
      <3> QED  BY <2>2, <3>2, <3>3
    <2>5. ASSUME NEW n \in Extremes
          PROVE  ExtremeOK(n)'
      <3>1. metric'[n] \in Nat
        BY <1>3 DEF MetricNames
      <3>2. Better(n, metric'[n], metric'[n]) = metric'[n]
        BY DEF Better
      <3>3. \A v : ~Waiting(n, v)'
        BY <2>1 DEF Waiting
      <3> QED  BY <2>2, <3>2, <3>3 DEF ExtremeOK, AsGood
    <2> QED  BY <2>3, <2>4, <2>5 DEF Recording
  <1> QED  BY <1>6, <1>7

-----------------------------------------------------------------------------
(* The steps. *)

\* The types, and how much is still to be added, after a call or an access.
LEMMA CallTypes ==
    ASSUME MetricsTypeOK, CountersFinite, NEW t \in Recorders, ~Calling(t), NEW accesses,
           CallOK(accesses), metric' = metric, tried' = tried,
           todo' = [todo EXCEPT ![t] = accesses], exact' = AfterCall(exact, accesses)
    PROVE  MetricsTypeOK' /\ CountersFinite'
  <1>1. /\ DOMAIN todo' = Recorders /\ todo'[t] = accesses
        /\ \A u \in Recorders \ {t} : todo'[u] = todo[u]
    BY CallBegins
  <1>2. exact \in [MetricNames -> Nat] /\ metric' \in [MetricNames -> Nat]
    BY DEF MetricsTypeOK
  <1>3. exact' \in [MetricNames -> Nat]
    BY <1>2, CallAmounts
  <1>4. \A u \in Recorders : CallOK(todo'[u])
    BY <1>1 DEF MetricsTypeOK
  <1>5. /\ DOMAIN tried' = Recorders
        /\ \A u \in Recorders : tried'[u] # NotLoaded => todo'[u] # <<>> /\ todo'[u][1].kind = "swap"
    BY <1>1 DEF MetricsTypeOK, Calling
  <1>6. CountersFinite'
    BY PendingAfterCall DEF CountersFinite
  <1> QED  BY <1>1, <1>2, <1>3, <1>4, <1>5, <1>6 DEF MetricsTypeOK, Calling

LEMMA AccessTypes ==
    ASSUME MetricsTypeOK, CountersFinite, NEW t \in Recorders, Calling(t), Done(t),
           metric' = After(metric, todo[t][1]), exact' = exact,
           DOMAIN tried' = Recorders, tried'[t] = NotLoaded,
           \A u \in Recorders \ {t} : tried'[u] = tried[u]
    PROVE  MetricsTypeOK' /\ CountersFinite'
  <1>1. /\ todo[t][1] \in Accesses /\ DOMAIN todo' = Recorders /\ CallOK(todo'[t])
        /\ \A u \in Recorders \ {t} : todo'[u] = todo[u]
    BY AccessDone
  <1>2. metric \in [MetricNames -> Nat] /\ exact' \in [MetricNames -> Nat]
    BY DEF MetricsTypeOK
  <1>3. metric' \in [MetricNames -> Nat]
    BY <1>1, <1>2, AccessAmounts
  <1>4. \A u \in Recorders : CallOK(todo'[u])
    BY <1>1 DEF MetricsTypeOK
  <1>5. \A u \in Recorders : tried'[u] # NotLoaded => todo'[u] # <<>> /\ todo'[u][1].kind = "swap"
    BY <1>1 DEF MetricsTypeOK, Calling
  <1>6. CountersFinite'
    BY PendingAfterAccess DEF CountersFinite
  <1> QED  BY <1>1, <1>2, <1>3, <1>4, <1>5, <1>6 DEF MetricsTypeOK, Calling

\* A call that counts something.
LEMMA CountStep ==
    ASSUME MetricsInv, NEW t \in Recorders, NEW accesses, Count(t, accesses),
           CallOK(accesses), \A i \in DOMAIN accesses : accesses[i].kind # "store"
    PROVE  MetricsInv'
  <1>1. /\ ~Calling(t) /\ todo' = [todo EXCEPT ![t] = accesses]
        /\ exact' = AfterCall(exact, accesses) /\ metric' = metric /\ tried' = tried
        /\ torn' = (torn \/ Resetting)
    BY DEF Count, MetricsCall
  <1>2. MetricsTypeOK' /\ CountersFinite'
    BY <1>1, CallTypes DEF MetricsInv
  <1>3. ASSUME ~torn'
        PROVE  Recording'
    <2>1. Recording
      BY <1>1, <1>3 DEF MetricsInv, Restarting, Resetting
    <2> QED  BY <1>1, <2>1, RecordingCall DEF MetricsInv
  <1> QED  BY <1>2, <1>3 DEF MetricsInv

\* An access that is done.
LEMMA AccessStep ==
    ASSUME MetricsInv, NEW t \in Recorders, Calling(t), Done(t),
           metric' = After(metric, todo[t][1]), exact' = exact, torn' = torn,
           DOMAIN tried' = Recorders, tried'[t] = NotLoaded,
           \A u \in Recorders \ {t} : tried'[u] = tried[u]
    PROVE  MetricsInv'
  <1>1. MetricsTypeOK' /\ CountersFinite'
    BY AccessTypes DEF MetricsInv
  <1>2. ASSUME ~torn'
        PROVE  Recording' \/ Restarting'
    BY <1>2, RecordingAccess, ResetGoesOn DEF MetricsInv
  <1> QED  BY <1>1, <1>2 DEF MetricsInv

LEMMA MetricsStep ==
    ASSUME MetricsInv, [MetricsNext]_metricsVars
    PROVE  MetricsInv'
  <1>1. ASSUME NEW t \in Recorders,
               metrics_record_request(t) \/ metrics_record_failure(t)
               \/ metrics_record_retry(t) \/ metrics_record_timeout(t)
        PROVE  MetricsInv'
    <2>1. PICK n \in Counters : Count(t, <<Add(n, 1)>>)
      BY <1>1 DEF metrics_record_request, metrics_record_failure, metrics_record_retry,
                  metrics_record_timeout, Counters
    <2>2. CallOK(<<Add(n, 1)>>)
      BY CountingCalls
    <2>3. \A i \in DOMAIN <<Add(n, 1)>> : <<Add(n, 1)>>[i].kind # "store"
      BY DEF Add, Access
    <2> QED  BY <2>1, <2>2, <2>3, CountStep
  <1>2. ASSUME NEW t \in Recorders, NEW d \in Durations, metrics_record_success(t, d, 1)
        PROVE  MetricsInv'
    <2>1. Count(t, SuccessAccesses(d, 1))
      BY <1>2 DEF metrics_record_success
    <2>2. CallOK(SuccessAccesses(d, 1))
          /\ \A i \in DOMAIN SuccessAccesses(d, 1) : SuccessAccesses(d, 1)[i].kind # "store"
      BY CountingCalls
    <2> QED  BY <2>1, <2>2, CountStep
  <1>3. ASSUME NEW t \in Recorders, metrics_reset(t)
        PROVE  MetricsInv'
    <2>1. /\ ~Calling(t) /\ todo' = [todo EXCEPT ![t] = ResetAccesses]
          /\ exact' = AfterCall(exact, ResetAccesses) /\ metric' = metric /\ tried' = tried
          /\ torn' = \E u \in Recorders : Calling(u)
      BY <1>3 DEF metrics_reset, MetricsCall
    <2>2. MetricsTypeOK' /\ CountersFinite'
      BY <2>1, ResetCall, CallTypes DEF MetricsInv
    <2>3. ASSUME ~torn'
          PROVE  Restarting'
      BY <2>1, <2>3, ResetBegins DEF MetricsInv
    <2> QED  BY <2>2, <2>3 DEF MetricsInv
  <1>4. ASSUME NEW t \in Recorders, AccessOnce(t)
        PROVE  MetricsInv'
    <2>1. /\ Calling(t) /\ Done(t) /\ metric' = After(metric, todo[t][1])
          /\ todo[t][1].kind # "swap" /\ tried' = tried /\ exact' = exact /\ torn' = torn
      BY <1>4 DEF AccessOnce
    <2>2. DOMAIN tried = Recorders /\ tried[t] = NotLoaded
      BY <2>1 DEF MetricsInv, MetricsTypeOK
    <2> QED  BY <2>1, <2>2, AccessStep
  <1>5. ASSUME NEW t \in Recorders, LoadExtreme(t)
        PROVE  MetricsInv'
    <2>1. /\ Calling(t) /\ tried[t] = NotLoaded /\ todo[t][1].kind = "swap"
          /\ metric' = metric /\ exact' = exact /\ torn' = torn /\ DOMAIN tried = Recorders
      BY <1>5 DEF LoadExtreme, MetricsInv, MetricsTypeOK
    <2>2. CASE After(metric, todo[t][1]) = metric
      <3>1. Done(t) /\ tried' = tried
        BY <1>5, <2>2 DEF LoadExtreme
      <3> QED  BY <2>1, <2>2, <3>1, AccessStep
    <2>3. CASE After(metric, todo[t][1]) # metric
      <3>1. tried' = [tried EXCEPT ![t] = metric[todo[t][1].name]] /\ todo' = todo
        BY <1>5, <2>3 DEF LoadExtreme
      <3>2. MetricsTypeOK' /\ CountersFinite'
        <4>1. MetricsTypeOK'
          BY <2>1, <3>1 DEF MetricsInv, MetricsTypeOK, Calling
        <4>2. \A n : Pending(n)' = Pending(n)
          BY <3>1 DEF Pending, Has
        <4> QED  BY <4>1, <4>2 DEF MetricsInv, CountersFinite
      <3> QED  BY <2>1, <3>1, <3>2, RecordingKept DEF MetricsInv
    <2> QED  BY <2>2, <2>3
  <1>6. ASSUME NEW t \in Recorders, ExchangeExtreme(t)
        PROVE  MetricsInv'
    <2>1. /\ tried' = [tried EXCEPT ![t] = NotLoaded] /\ exact' = exact /\ torn' = torn
          /\ Calling(t) /\ DOMAIN tried = Recorders
      BY <1>6 DEF ExchangeExtreme, MetricsInv, MetricsTypeOK
    <2>2. CASE Done(t) /\ metric' = After(metric, todo[t][1])
      BY <2>1, <2>2, AccessStep
    <2>3. CASE metric' = metric /\ todo' = todo
      <3>1. MetricsTypeOK'
        BY <2>1, <2>3 DEF MetricsInv, MetricsTypeOK, Calling
      <3>2. \A n : Pending(n)' = Pending(n)
        BY <2>3 DEF Pending, Has
      <3>3. CountersFinite'
        BY <3>2 DEF MetricsInv, CountersFinite
      <3> QED  BY <2>1, <2>3, <3>1, <3>3, RecordingKept DEF MetricsInv
    <2> QED  BY <1>6, <2>2, <2>3 DEF ExchangeExtreme
  <1>7. CASE UNCHANGED metricsVars
    <2>1. metric' = metric /\ todo' = todo /\ tried' = tried /\ exact' = exact /\ torn' = torn
      BY <1>7 DEF metricsVars
    <2>2. \A n : Pending(n)' = Pending(n)
      BY <2>1 DEF Pending, Has
    <2>3. MetricsTypeOK' /\ CountersFinite'
      BY <2>1, <2>2 DEF MetricsInv, MetricsTypeOK, CountersFinite, Calling
    <2> QED  BY <2>1, <2>3, RecordingKept DEF MetricsInv
  <1> QED  BY <1>1, <1>2, <1>3, <1>4, <1>5, <1>6, <1>7 DEF MetricsNext

\* The account of the metrics is kept by every interleaving of accesses.
THEOREM MetricsInvariant == MetricsSpec => []MetricsInv
  <1>1. MetricsInit => MetricsInv
    <2> SUFFICES ASSUME MetricsInit PROVE MetricsInv
      OBVIOUS
    <2> USE DEF MetricsInit
    <2>1. \A t \in Recorders : ~Calling(t)
      BY DEF Calling
    <2>2. /\ \A n : Pending(n) = {} /\ Cardinality(Pending(n)) = 0
          /\ \A n, v : ~Waiting(n, v)
      BY <2>1, QuietCounts
    <2>3. MetricsTypeOK
      BY ZeroedType DEF MetricsTypeOK, CallOK
    <2>4. CountersFinite
      BY <2>2, FS_EmptySet DEF CountersFinite
    <2>5. Recording
      <3>1. ~Resetting
        BY <2>1 DEF Resetting
      <3>2. \A n \in Counters : exact[n] = metric[n] + Cardinality(Pending(n))
        BY <2>2, ZeroedType DEF MetricNames
      <3>3. \A n \in Extremes : ExtremeOK(n)
        BY <2>2, ZeroedType, BetterOrder DEF ExtremeOK, MetricNames
      <3> QED  BY <3>1, <3>2, <3>3 DEF Recording
    <2> QED  BY <2>3, <2>4, <2>5 DEF MetricsInv
  <1>2. MetricsInv /\ [MetricsNext]_metricsVars => MetricsInv'
    BY MetricsStep
  <1> QED  BY <1>1, <1>2, PTL DEF MetricsSpec

\* No update of a metric is lost or half done: when nobody is in a call, the
\* atomics are what the calls amount to, unless a reset was overlapped.
THEOREM MetricsAreExact == MetricsSpec => []ExactWhenQuiet
  <1>1. MetricsInv => ExactWhenQuiet
    <2> SUFFICES ASSUME MetricsInv, ~torn, \A t \in Recorders : ~Calling(t)
                 PROVE  metric = exact
      BY DEF ExactWhenQuiet
    <2>1. Recording
      BY DEF MetricsInv, Restarting
    <2>2. /\ \A n : Pending(n) = {} /\ Cardinality(Pending(n)) = 0
          /\ \A n, v : ~Waiting(n, v)
      BY QuietCounts
    <2>3. metric \in [MetricNames -> Nat] /\ exact \in [MetricNames -> Nat]
      BY DEF MetricsInv, MetricsTypeOK
    <2>4. ASSUME NEW n \in MetricNames
          PROVE  metric[n] = exact[n]
      <3>1. CASE n \in Counters
        BY <2>1, <2>2, <2>3, <3>1 DEF Recording
      <3>2. CASE n \in Extremes
        BY <2>1, <2>2, <3>2 DEF Recording, ExtremeOK
      <3> QED  BY <3>1, <3>2 DEF MetricNames
    <2> QED  BY <2>3, <2>4
  <1> QED  BY <1>1, MetricsInvariant, PTL
=============================================================================
