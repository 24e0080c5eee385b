--------------------------- MODULE ConcurrentLoads ---------------------------
(***************************************************************************)
(* The executor of examples/integration/concurrent_loads.rs: a task per    *)
(* load, which first gets past a rate limiter, then past a semaphore,      *)
(* sends its load and counts how it ended; and the caller that joins them. *)
(*                                                                         *)
(* A step is what a task does under one lock or between two awaits.  Times *)
(* are ages in polls of the limiter (100 ms); a second is Window of them.  *)
(***************************************************************************)
EXTENDS Naturals, Sequences, FiniteSets

CONSTANTS Loads, max_concurrent, max_requests_per_second, Window

ASSUME ExecutorAssumption ==
    /\ IsFiniteSet(Loads)
    /\ max_concurrent \in Nat \ {0}
    /\ max_requests_per_second \in Nat \ {0}
    /\ Window \in Nat \ {0}

VARIABLES
    request_times,   \* age of each load's permission that the limiter remembers
    permits,         \* free permits of the semaphore
    queue,           \* tasks that wait for one, first come first served
    stage,           \* how far each load is
    batch,           \* loads the caller waits for
    completions      \* what record_completion has counted

executorVars == <<request_times, permits, queue, stage, batch, completions>>

Stages == {"new", "limited", "asleep", "permitted", "queued", "sending", "counting", "done"}

ExecutorInit ==
    /\ request_times = [o \in {} |-> 0]
    /\ permits = max_concurrent
    /\ queue = <<>>
    /\ stage = [o \in Loads |-> "new"]
    /\ batch = {}
    /\ completions = [ok |-> 0, failed |-> 0]

-----------------------------------------------------------------------------
Moves(o, from, to) == stage[o] = from /\ stage' = [stage EXCEPT ![o] = to]

execute_concurrent(operations) ==
    /\ batch = {}
    /\ operations # {} /\ \A o \in operations : stage[o] = "new"
    /\ batch' = operations
    /\ stage' = [o \in Loads |-> IF o \in operations THEN "limited" ELSE stage[o]]
    /\ UNCHANGED <<request_times, permits, queue, completions>>

Recent(times) == [o \in {o \in DOMAIN times : times[o] < Window} |-> times[o]]

FullAfterOneMore(times) == Cardinality(DOMAIN times) > max_requests_per_second  \* (bug)

RateExceeded(times) == Cardinality(DOMAIN times) >= max_requests_per_second

\* A load is permitted once: its permission is new now.
Push(times, o) == [p \in DOMAIN times \cup {o} |-> IF p = o THEN 0 ELSE times[p]]

\* RateLimiter::acquire, and the sleep if it refuses.
AcquireRate(o) ==
    LET recent == Recent(request_times)
        exceeded == RateExceeded(recent)
    IN  /\ Moves(o, "limited", IF exceeded THEN "asleep" ELSE "permitted")
        /\ request_times' = IF exceeded THEN recent ELSE Push(recent, o)
        /\ UNCHANGED <<permits, queue, batch, completions>>

PollAgain(o) ==
    /\ Moves(o, "asleep", "limited")
    /\ UNCHANGED <<request_times, permits, queue, batch, completions>>

PassWithoutPermit(o) ==  \* (bug)
    /\ Moves(o, "permitted", "sending")
    /\ permits' = IF permits > 0 THEN permits - 1 ELSE permits
    /\ UNCHANGED <<request_times, queue, batch, completions>>

AcquirePermit(o) ==
    /\ \/ /\ permits > 0
          /\ Moves(o, "permitted", "sending")
          /\ permits' = permits - 1
          /\ UNCHANGED queue
       \/ /\ permits = 0
          /\ Moves(o, "permitted", "queued")
          /\ queue' = Append(queue, o)
          /\ UNCHANGED permits
    /\ UNCHANGED <<request_times, batch, completions>>

ReleaseUnnoticed(o) ==  \* (bug)
    /\ stage' = [stage EXCEPT ![o] = "done"]
    /\ permits' = permits + 1
    /\ UNCHANGED queue

\* The permit is dropped with the task, and goes to whoever waits longest.
Release(o) ==
    \/ /\ queue = <<>>
       /\ stage' = [stage EXCEPT ![o] = "done"]
       /\ permits' = permits + 1
       /\ UNCHANGED queue
    \/ /\ queue # <<>>
       /\ stage' = [stage EXCEPT ![o] = "done", ![Head(queue)] = "sending"]
       /\ queue' = Tail(queue)
       /\ UNCHANGED permits

\* The manager answers with an error or with a status it accepts, and the
\* completion is counted.  A status other than Success and OK is counted as a
\* success first, and then as a failure.
Complete_load(o, status) ==
    /\ stage[o] = "sending"
    /\ completions' = IF status = "error" THEN [completions EXCEPT !.failed = @ + 1]
                                          ELSE [completions EXCEPT !.ok = @ + 1]
    /\ IF status = "Publish Timeout"
       THEN Moves(o, "sending", "counting") /\ UNCHANGED <<permits, queue>>
       ELSE Release(o)
    /\ UNCHANGED <<request_times, batch>>

CountAgain(o) ==
    /\ stage[o] = "counting"
    /\ completions' = [completions EXCEPT !.failed = @ + 1]
    /\ Release(o)
    /\ UNCHANGED <<request_times, batch>>

\* join_all is through, or the caller drops the future: the tasks run on.
Join ==
    /\ batch # {} /\ \A o \in batch : stage[o] = "done"
    /\ batch' = {}
    /\ UNCHANGED <<request_times, permits, queue, stage, completions>>

LeaveBatch ==
    /\ batch # {}
    /\ batch' = {}
    /\ UNCHANGED <<request_times, permits, queue, stage, completions>>

PollInterval ==
    /\ request_times' = [o \in DOMAIN request_times |->
           IF request_times[o] < Window THEN request_times[o] + 1 ELSE Window]
    /\ UNCHANGED <<permits, queue, stage, batch, completions>>

LoadStep(o) ==
    \/ AcquireRate(o) \/ PollAgain(o) \/ AcquirePermit(o) \/ CountAgain(o)
    \/ \E status \in {"Success", "Publish Timeout", "error"} : Complete_load(o, status)

ExecutorNext ==
    \/ \E operations \in SUBSET Loads : execute_concurrent(operations)
    \/ \E o \in Loads : LoadStep(o)
    \/ Join \/ LeaveBatch \/ PollInterval

ExecutorSpec == ExecutorInit /\ [][ExecutorNext]_executorVars

-----------------------------------------------------------------------------
\* No more loads than max_concurrent are under way, and no permit is lost.
Holding == {o \in Loads : stage[o] \in {"sending", "counting"}}

PermitsAccounted == Cardinality(Holding) + permits = max_concurrent

\* In no second are more permissions given than the rate allows, however many
\* tasks poll for one.
PermissionsWithinRate ==
    Cardinality(DOMAIN Recent(request_times)) <= max_requests_per_second

\* Every load that was asked for is done some day, also when the caller does
\* not wait for it: no task polls the limiter in vain for ever, and none is
\* forgotten in the queue of the semaphore.
EveryLoadEnds == \A o \in Loads : stage[o] # "new" ~> stage[o] = "done"
=============================================================================
