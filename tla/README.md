# A TLA+ verification of starrocks-stream-load

This directory holds formal models of the Rust SDK in `src/`, the TLC
configurations that check them on small instances, and theorems about them that
the TLA+ proof system (TLAPS) checks for every value of their constants.

The SDK loads data into a StarRocks cluster over HTTP. What is hard in it is not
the data but what may happen around it: many tasks share one client and its
cursor over the frontends, a frontend hands a request on to a backend, an answer
is lost after the request was executed, a retry sends the same request again, a
future is dropped at an await, a request arrives long after its sender gave up.

Contents: [1 the system](#1-the-system), [2 the modules](#2-the-modules),
[3 the runs](#3-the-runs), [4 fairness](#4-fairness), [5 the proofs](#5-the-proofs),
[6 where code and words differ](#6-where-code-and-words-differ),
[7 what is not modelled](#7-what-is-not-modelled), [8 state of the plan](#8-state-of-the-plan).

## 1 The system

### Inventory

| Part | State it keeps | Operations | Hard behaviour |
| --- | --- | --- | --- |
| `src/src/http.rs` `StarRocksHttpClient` | `current_pos`, an atomic cursor over the frontends (FEs); per call an attempt number | `execute_request` (retry, failover, redirect by hand), `get_request`, `get_available_fe` | callers overlap on the cursor; dropped futures; a `usize` that wraps; a retry of what was already executed |
| `src/src/manager.rs` `StreamLoadManager` | none of its own | V1 `send_single_batch`; V2 `begin_transaction`, `load_transaction_data`, `prepare_transaction`, `commit_transaction`, `rollback_transaction`; `get_load_status`, `cancel_load`; `get_error_log`, `try_get_error_log_for_merge_commit`; `build_headers`, `convert_delimiter` | whether an `Ok` or an error tells the truth; partial failures inside an HTTP 200; the same label from several tasks |
| StarRocks cluster (external) | per label: used or not, open, prepared, committed, aborted; the rows | serves the requests, ends a transaction at its deadline | executes a request and loses the answer; executes it late |
| `src/src/config.rs` | configuration values | builders | defaults and bounds |
| `src/src/types.rs` | `StreamLoadResponse` | parsing of the body | which `Status` is a success |
| `src/src/error.rs` | none | redaction of URLs and passwords, extraction of error log URLs | index arithmetic over text |
| `src/src/lib.rs` | none | re-exports, crate documentation | none |
| `examples/production/transaction_state.rs` | a state per label behind a mutex | begin, load, prepare, commit, rollback, mark as failed, recover, clean up | checks under the lock, calls the server outside it, writes under it again |
| `examples/production/circuit_breaker.rs` | four atomics | `can_proceed`, `record_success`, `record_failure`, `reset` | read and written one by one by concurrent callers |
| `examples/production/exponential_backoff.rs` | an attempt counter | delay computation, retry loop | width of the arithmetic, no attempt at all, a new label per attempt |
| `examples/production/metrics_monitoring.rs` | atomics | record a request, a success, a failure; reset | several atomics per call, a compare-exchange loop |
| `examples/integration/concurrent_loads.rs` | a rate limiter, a semaphore, counts | a task per load | tasks that poll, queue, and outlive their caller |
| `examples/advanced/data_pipeline.rs` | a bounded queue, counts, a state | add a record, process a batch, start, stop | each piece behind a lock of its own |
| `examples/advanced/error_handling_recovery.rs` | a log, a delay | classify, retry | which error is retried, after how long |
| `examples/advanced/high_availability.rs` | health of the nodes, behind a lock | monitor, load with failover | checks and loads overlap |
| `examples/advanced/multi_table_transaction.rs` | two flags | begin with loads, prepare, commit, rollback | a commit whose answer is lost |
| `examples/basic`, `benches`, `test_data` | none | straight-line demonstrations | none |

### How the parts interact

A user task calls an operation of `StreamLoadManager`. The manager builds headers
and enters `execute_request` of the one `StarRocksHttpClient` it owns; managers
are cloned or shared behind an `Arc`, so any number of calls overlap on one
`current_pos`. A call sends to the FE under the cursor. The FE executes the
request or answers 307 with a `Location`, upon which the client repeats method,
headers and body at that backend (BE). A network failure of either moves the
cursor, sleeps, and starts the next attempt with *the same* headers and body. The
manager then reads the HTTP status and the `Status` of the body and returns `Ok`
or an error. Transactions are named by their label alone: the manager remembers
nothing, and the server is the only judge of the order of operations.

### What makes each part correct

* **HTTP client.** A call ends. It makes no more attempts than configured. If
  nobody else moves the cursor it has failed at *every* FE before it gives up, so
  one good FE is enough. A lone caller with fewer attempts than FEs still finds
  the good one, over several calls.
* **Manager.** `Ok` is true when it is said and stays true, whatever retries,
  redirects, other callers and late copies do. Nothing takes effect that was not
  asked for. Retries multiply a load only within the configured number. No
  transaction stays open for ever.
* **Requests.** All requests of a transaction address the same one, whatever the
  custom headers are called; what was configured reaches the server.
* **Transaction tracker.** The recorded state agrees with the server, and a
  recovery that is called again and again finishes what is stuck.
* **Circuit breaker.** It never opens for good, closes again once the service
  works, and not before a trial had the successes it asks for (which does not hold:
  section 6). **Metrics.** No update is lost. **Concurrent loads.** The limits hold and every load ends.
* **Retry loops** (backoff, recovery, failover). They end; a batch is stored once
  when its label is kept; `Ok` is true; the delays stay within their bounds (which
  those of the backoff do not: section 6).
* **Pipeline.** No record is lost or handled twice. **Several tables.** Nothing is
  committed in part, and the flags are true.

`PROJECT.json` lists under `hazards` every place where this can go wrong, with
the properties that watch it.

## 2 The modules

```
StarRocksHttpClient ----> HttpFailover           (history: where a call has failed)
        |                      |
        |                 MCHttpFailover, HttpFailover_proofs
        |---> MCHttpClient, MCRetries, StarRocksHttpClient_proofs
        v
StreamLoadManager <---- StarRocksServer (external) ----> LoadContract (abstract)
        |                                                     ^
        |---> MCMenus, MCStreamLoad, StreamLoadManager_proofs | refinement
        +-----------------------------------------------------+

LoadContract ----> TransactionTracker ----> MCTracker, TransactionTracker_proofs
        |--------> MultiTableTransaction, DataPipeline ----> Requests_proofs
        +--------> RetriedLoad ----> ExponentialBackoff ----> MCBackoff
                        |----------> ErrorRecovery ---------> MCRetries
                        +----------> HighAvailability
                                     (all three) ----> RetryLoops_proofs
LoadRequest ----> MCDelimiter, Requests_proofs
CircuitBreaker ----> MCBreaker
CircuitBreaker, MetricsMonitoring, ConcurrentLoads ----> SharedCounters_proofs

MCParts: HttpFailover and all that follows the tracker here but ErrorRecovery,
one at a time
```

`StarRocksServer_proofs` holds the lemmas about the server that the proofs of the
manager, of the tracker and of the examples share; `Requests_proofs`,
`RetryLoops_proofs` and `SharedCounters_proofs` hold those of several components of
one kind, a section for each. Operators marked `(bug)` are plausible slips of
the code, kept next to the definition they would replace: with one of them in its
place some property must fail. No specification uses them.

### StarRocksHttpClient: `src/src/http.rs`, `execute_request`

State: `currentPos` is the atomic cursor, `call[c]` is what the future of caller
`c` is doing. A step is a stretch of code *between two awaits*. The cursor is
read (line 97) in the stretch that sends and advanced (lines 167, 184) in the
stretch after a failed await, so each stretch touches it once and nothing finer
needs to be interleaved.

| Action | Code |
| --- | --- |
| `StartCall` | entry, the test for no URLs, the empty loop |
| `Send` | cursor read, `join(path)`, send to the FE |
| `JoinFails` | the `?` on `join`: returns from the call without retry |
| `FEAnswers` | any response that is not a 307 with a usable `Location` |
| `FERedirects` | a 307 with a usable `Location`: send to the BE |
| `BEAnswers` | whatever the BE says, a second 307 included |
| `NetworkFailure` | `fetch_add`, then sleep or give up |
| `Wake` | `retry_interval` has passed, next attempt |
| `DropCall` | the caller drops the future at an await |

`Usize` is the number of values of a `usize`; the cursor and `max_retries + 1`
wrap at it. With `max_retries = usize::MAX` the loop has no turn (a build with
overflow checks panics instead); the model has the first outcome. `Healthy` are
FEs that are known to answer. It is a constant and not a state: the two
properties that need it say what failover achieves while one FE works.
`BadBase` are FEs whose URL parses as a URL but cannot be joined with a path.

### HttpFailover: the same code with two history variables

`failed[c]` collects the FEs at which the current call of `c` has failed;
`undisturbed[c]` is true as long as only that call has moved the cursor since its
first attempt (and the cursor did not wrap at a point where the number of FEs
does not divide 2^w). They observe and decide nothing.

### StarRocksServer: the cluster (external)

Not part of the repository. It is what `src/src/manager.rs` and
`src/tests/integration_tests.rs` take for granted of the endpoints: a label is
used once for good; V1 loads commit at once; V2 transactions are opened, take
loads, and end by commit, rollback or deadline; anything may be refused. Where
the SDK does not rely on a rule the model leaves it open: a resent chunk may be
stored again or recognised by its `channel_num`, a commit does not need a
prepare. A label in the model stands for the pair of database and label. A label
stays used after an abort; a real cluster may allow its reuse, and the SDK never
relies on that.

### StreamLoadManager: `src/src/manager.rs`

EXTENDS the client and the server. `op[c]` is the operation a caller is in,
`reply[c]` what the server has said to its current send, `outcome[c]` what the
operation returned, `late[o]` the copies of a request that the client gave up on
and that may still be executed. `invoked` is history and bounds the runs.

| Action | Code |
| --- | --- |
| `Invoke`, `RefuseLabel` | header building and entry; an invalid label is an error before anything is sent |
| `Transmit`, `Redirect`, `Fail`, `RetryLater`, `UrlError`, `Drop` | the client's steps, with what they mean for a request on its way |
| `Execute` | the server serves the request, once per send |
| `Answer` | the reading of status and body: `OutcomesOf` |
| `ExecuteLate` | a copy that nobody waits for is served |
| `PassDeadline` | the server ends a transaction at the deadline `begin_transaction` asked for |

The operators `send_single_batch` ... `cancel_load` are the requests that the
functions of those names build, reduced to what the server's answer depends on.
`Accepted` is the list of `Status` values each of them takes as a success. The
body is read after the last await that touches shared state, so its reading is
part of `Answer`; a connection that breaks there is the outcome `err` of a request
that was executed, and a future that is dropped there is the outcome `dropped`.

### LoadContract: what a user may count on

No FE, no retry, no network: a request that was made may take effect at any later
time, any number of times, also after its caller was told of an error; nothing
else takes effect; `Ok` is only said when the effect is there. StreamLoadManager
implements it with `asked <- {o : invoked[o] > 0}`.

### TransactionTracker: `src/examples/production/transaction_state.rs`

The example's `TransactionManager`, over LoadContract instead of over the manager:
what it may count on is the contract, and StreamLoadManager is shown to keep it.
`state` and `error_details` are the map behind the mutex, `task[u]` is where a task
is. The mutex is released for every request. A step is therefore either *check
under the lock and send* or *answer and write under the lock*. Joining the two
halves loses nothing: a request may take effect, and be answered, at any later
time, and what an `Ok` says stays true, so that the answer may as well be given
when it is written down.

| Action | Code |
| --- | --- |
| `begin_transaction` ... `rollback_transaction`, `load_data` | the check, and the call of the SDK |
| `AutoPrepare`, `AutoCommit` | `commit_transaction` of a transaction that is not prepared: the second check, in `prepare_transaction`, and the commit after it |
| `recover_stuck_transactions`, `RecoverNext` | the snapshot, and the rollbacks one by one |
| `cleanup_completed_transactions` | removal of ended entries |
| `Complete` | an answer and what is written down of it |
| `Abandon` | the caller drops the future |
| `ClusterActs` | requests take effect, deadlines pass |

How old an entry is decides only whether recovery and cleanup find it; the model
lets them find any subset. The mutex is never poisoned: nothing panics under it.

### LoadRequest: `src/src/config.rs`, and the headers of `src/src/manager.rs`

The builders of configuration and table properties call by call, `build_headers`
and `to_header_val`, the headers that each operation sets itself, and
`convert_delimiter`. Texts are of four kinds, as far as a header or the escaping of
a delimiter tells them apart. The custom headers live in a `HashMap`, which may be
walked in any order. Of that order only one thing is left in a request: which of several
keys that differ in case alone came last (`LastKeys`), because names are compared as they were
given by `to_header_val`, and without case by the header map. The own headers of an operation
are inserted last, which is what `RequestsAgree` turns on. In `convert_delimiter`
a character is a hexadecimal digit or something else of some number of bytes:
the code counts bytes and takes characters.

### The examples over the contract

Five example programs use the SDK and are modelled over LoadContract, as the tracker
is: an answer may be lost, a request may take effect at any later time.

* **RetriedLoad** is what three retry loops have in common: one batch, one call of
  `send_single_batch` per attempt, under one label for all attempts or a new one for
  each (`keeps`). **ExponentialBackoff** (`exponential_backoff.rs`) adds the
  delay as arithmetic of `Width` bits, with the jitter as the code subtracts it, and
  the `unwrap` after a loop without attempts. Its demonstrations keep a label in one
  case and make a new one in another, so both are initial states.
  **ErrorRecovery** (`error_handling_recovery.rs`) adds the classification by the words
  a text contains, the log and the doubling. **HighAvailability** (`high_availability.rs`)
  adds the monitor, which holds the lock for a whole round with an await in it for
  each node, and the loads that wait for that lock.
* **DataPipeline** (`data_pipeline.rs`): `is_empty` and `dequeue` are two steps, as are
  the load and the counting of its end. `process_data` checks the quality rules and
  then applies the transformations, each of which may refuse the data.
* **MultiTableTransaction** (`multi_table_transaction.rs`): `begin` opens the
  transaction and loads each table; a failure there leaves it open. Only the second
  demonstration rolls back when prepare or commit fails (`rolls_back`).

### The examples that stand alone

* **CircuitBreaker** (`circuit_breaker.rs`): a step is *one* access to *one* atomic.
  `can_proceed` reads the state, then the time, then stores HalfOpen; opening stores
  the state and then the time. `doing[t]` is the access that comes next. Ages replace
  times; `seen[t]` is the age of a time that a task has read, from a clock or from the
  atomic, and not used yet. Whether a blocked request is recorded as a failure, as one
  demonstration does, is `RecordsBlocked`.
* **MetricsMonitoring** (`metrics_monitoring.rs`): a call is the list of accesses it
  makes; minimum and maximum are a load and a `compare_exchange_weak` that may fail
  without reason. `exact` is what the calls add up to.
* **ConcurrentLoads** (`concurrent_loads.rs`): the limiter is polled, the semaphore is
  a queue, and a permit is dropped with its task. The caller may be gone.

## 3 The runs

| Run | Instance | Shows |
| --- | --- | --- |
| `http_overlap` | 2 callers, 3 FEs, 3 attempts, `Usize` 8 | `BoundedWork`; `CallsWindDown`: each step of a call brings it nearer to its end; `FailoverCovers`: an undisturbed call with an attempt per FE has failed at all of them when it gives up; and the invariant that proves it |
| `retries` | 1 caller, 9 FEs, 3 attempts, 1 healthy; the same with a bad URL; or 1 loop of ErrorRecovery, 3 retries, 8 error texts: one of the three, chosen at the start (`MCRetries`) | `LoneCallerIsServed`: the cursor outlives the call, so that three attempts at a time reach all nine, unless a bad URL is on the way; `EveryCallReturns`; `LogExplainsAttempts`: no retry too many, too few or for the wrong error; `DelayDoubles`, up to a cap that it meets; `LoopEnds` |
| `load_transaction` | 1 caller, late copies; the operations of one menu in any order (`MCMenus`) | `OkMeansAchieved`, `Publish Timeout` of V1 included, and its inductive invariant; `StoredPerAttempt`; the refinement `KeepsContract`; `EveryTransactionEnds`, and `OpenHasDeadline`, its safety half |
| `tracker` | 2 tasks, 1 label, every operation | `MapIsTruthful`, `RecoveryFinishes` |
| `parts` | HttpFailover, LoadRequest and seven examples, one at a time | see below |
| `http_retry_same_fe`, `load_exactly_once`, `tracker_overtaken`, `tracker_stuck`, `backoff_jitter`, `breaker_closes_early`, `delimiter_cut` | the smallest instance that shows it | a sentence of the repository does not hold: see [6](#6-where-code-and-words-differ) |

`parts` checks nine small systems in one run. `MCParts` conjoins their initial
states and keeps a variable `part`, chosen at the start, that says which of them
moves; the others keep their initial state, in which their properties hold, so that
each property is a question about its own part only (the loop of the backoff and of
the failover is the same variable). What the run shows of each:

| `part` | Instance | Properties |
| --- | --- | --- |
| `breaker` | 2 tasks, thresholds 2, timeout 1 s | `BreakerTypeOK`; `OpenIsDated`: an open circuit gets the time from which it recovers; `SuccessesBounded`: overlapping successes overshoot by those that are closing it, and are below the threshold again then, though not always gone; `CircuitRecovers` |
| `metrics` | 2 recorders, 2 durations, 3 calls | `ExactWhenQuiet`: no update is lost and none is half done, resets that overlap a call excepted |
| `executor` | 3 loads, 1 permit, 1 per second | `PermitsAccounted`, `PermissionsWithinRate`, `EveryLoadEnds` |
| `backoff` | 1 loop, 3 attempts, both ways to label | `RetriesDoNotMultiply`, `LoopOkIsStored`, `LoopEnds`; `BackoffStopsInTime`: no attempt too many, no sleep after the last one, no panic but those of section 6 and of a loop without attempts |
| `failover` | 1 loop, 2 nodes, 6 rounds | the same of its loop; `HealthFollowsChecks`; `SeesWholeRounds` |
| `pipeline` | 2 batches of 2, 3 records, a queue of 2 | `RecordsAccounted`, `ProcessedIsStored` |
| `tables` | 2 tables, chunks stored up to twice | `AllOrNothing`, `FlagsAreTrue` |
| `request` | 3 builder calls; delimiters of up to 4 characters | `RequestsAgree`, `SettingsReachServer`, `DelimiterSpelt` |
| `http` | 2 callers, 4 FEs, one bad URL, one healthy, 5 attempts | `HealthyFEServes`: an undisturbed call with an attempt per FE does not end in a network error |

### The bounds

* **Callers** are two where their steps meet (the cursor, one label), one where the
  question is what a call and its own late copies do. They are interchangeable, so
  the safety run of the failover, `http_overlap`, uses symmetry; the others do not.
* **`Usize`** is small so that the cursor wraps. 3 FEs with 8 values is
  the uneven wrap (3 does not divide 8), 4 FEs with 8, in `parts`, the even one.
* **`MaxInvocations`** is 1: each request is made once by somebody, but it may be
  sent, answered, lost and executed late once per attempt. It is the only counter
  that has to be bounded in the manager, and when it is used up the callers stop;
  that is why these runs do not check for deadlock. The others do.
* **`Offered`** selects the operations of a run, and the menus of `load_transaction`
  those of an initial state: begin and three of load, prepare, commit and rollback
  (all but load, prepare and rollback together, where nothing is committed); V1, begin,
  cancel and status with three FEs of which one has a URL that `join` refuses; a V1
  load of a refused label. So each two operations of a transaction meet, all four at a
  time do not: that instance is beyond the time of a run.
* **`MaxStores`** (tracker) is 1: what the tracker looks at is whether a chunk is
  stored, not how often. `MaxChunkCopies` (several tables) is 2 for the same reason.
* **Thresholds** of 2 (breaker) are the least at which a count can be at, below and
  above them; a timeout of 1 is the least at which an old and a fresh time differ.
* **`MaxRounds`** is 6, the number of failures in a row at which a rule of
  `update_health` that is not about the rate applies; **`MaxCalls`** 3 lets two calls
  overlap and one follow. **`MaxBuilderCalls`** 3 is a property, a custom header and
  one that collides with either.
* **`MaxU64`** (metrics) is 3: the code starts the minimum at `u64::MAX`, which is above every
  duration; the durations are 1 and 2, so that each can replace the other.
* **Labels** of `parts` are three: one per attempt of a loop, one per record; `retries`
  has four. Its **delays** of 100 double to 200 and then meet the cap of 350.
* One label is enough where the question is about one transaction: the server keeps
  labels apart, the tracker's map has no entry that depends on another, and the
  theorems hold for any number.
* Deadlock is not checked in runs whose bounded counters are used up at some time,
  and in `parts` and `retries`, where a loop that has ended is at rest.

## 4 Fairness

* `HttpFairSpec`: `WF(CallStep(c))`. reqwest is built with `request_timeout`
  (`http.rs` line 57), so an await of `send()` ends; the timer ends a sleep; tokio
  polls a task that was woken. Nothing is assumed about FEs and BEs. Nothing is
  assumed about starting calls or dropping them.
* `FairSpec` of the manager: `WF(PassDeadline(l))`. The server watches the deadline
  that a begin asked for. The code's part is to ask for one: the `timeout` header is
  always sent, with 600 s by default. No call needs to return for this property.
* `TrackerFairSpec`: weak fairness of what a task does without waiting; strong
  fairness of an answer, which says that a task is not dropped *every* time; weak
  fairness of a recovery that finds everything that is stuck, which says that
  somebody keeps calling it. The example does not call it by itself.

* `BreakerFairness`: weak fairness of the accesses a task makes without waiting, of
  the clock, and of each task's asking again; strong fairness of `record_success`: an
  operation that could succeed again and again is not dropped every time. Without it
  `CircuitRecovers` fails, as it must: a breaker that nobody asks cannot close.
* `ExecutorFairness`: the clock goes on, and the manager answers (its own theorem
  `EveryCallReturns` is what justifies that). The semaphore of tokio serves its queue
  in order. The caller need not wait for its loads.
* `LoopFairness`: the SDK answers, sleeps end, and checks of a node come to an end
  (they have a timeout). New rounds need not begin. A load that waits for the lock
  gets it when the monitor is through with its round: the lock of tokio is fair.

## 5 The proofs

Everything below is checked by TLAPS for all values of the constants, under the
named assumptions of the modules. They say what a constant is, and no more than the
code makes sure of:

| Assumption | What it says, and why |
| --- | --- |
| `HttpAssumption` | a `Vec` is not longer than a `usize` can count |
| `ManagerAssumption`, `TrackerAssumption`, `HAAssumption`, `MultiTableAssumption` | bounds of the runs are numbers; the constants have their types |
| `BreakerAssumption` | finitely many tasks, a threshold of at least one success |
| `ExecutorAssumption` | finitely many loads; a permit and a permission at least: with none, nothing ever runs |
| `MetricsAssumption` | a duration is above zero and below `u64::MAX`, which the code takes for "none yet"; `MaxCalls` is a number |
| `RetriersAssumption`, `BackoffAssumption`, `RecoveryAssumption`, `TextsAssumption` | types; a text with "gateway timeout" has "timeout" in it |
| `PipelineAssumption` | types; finitely many batches at a time |
| `RequestAssumption` | types |

Every safety property and every action property that a passing run checks is stated by
a theorem, and so is `DelayCapped`, under the premise without which it is false. The type invariants are proved as well, and only that of the breaker is left
in a run: once they are theorems, a run shows no more.

**The client** (`StarRocksHttpClient_proofs`). `AttemptInv` says for each place of a
call which attempt numbers are possible there. It is inductive together with the
types, and implies `BoundedWork`.

`CallsWindDown` is what a proof can say of termination: `StepsLeft`, at most
`4 * MaxAttempts`, is a natural number that every step of a call makes smaller, for any
number of FEs and whatever they answer. A redirect is followed once because
the answer of a BE is never one (`bug`: a client that follows every redirect has no such
measure), a failure is made up for by an attempt less. What is left of
`EveryCallReturns` is that the call goes on at all, which is the fairness of section 4.

**Failover** (`HttpFailover_proofs`). `FailoverCovers` relates a set that grows over
several calls of `fetch_add` to the set of all FEs; by itself it says nothing about
a call that is still under way. `FailoverInv` does: count the FEs *backwards* from
the one tried last (`BackDist`). An undisturbed call in attempt *k* has failed at the
*k - 1* FEs behind that one, and the cursor is at it, or one further when the call
sleeps. A step of the cursor moves every distance up by one, except that of the FE
it lands on, which becomes 0; that is the lemma the proof turns on. After
`NumFEs` failures all distances are covered. `HealthyFEServes` follows, because no
call fails at a healthy FE.

**The manager** (`StreamLoadManager_proofs`). First, a behaviour of the manager is
one of the client (`ManagerRefinesHttp`), so that the client's theorems hold here.
Then `OkMeansAchieved`, which is not inductive: an `Ok` is given for a *reply* that
was made earlier, and between the two other callers and late copies act. `ManagerInv`
adds that a reply the manager would accept is already true. What keeps it true is a
fact about the server, `Advances`: rows are only added, a used label stays used,
committed and aborted are final. `ServeAdvances` and `ExpireAdvances` show it for
every request and deadline, `AchievedStays` what it means for an effect.

`OkMeansAchieved` speaks of the latest outcome of each caller. What an `Ok` is worth
*later*, when its caller has gone on, are two theorems about all later times, which no
run could ask for without a history of all outcomes: `OkStaysTrue`, and
`NeverCommittedAndRolledBack`, that of a commit and a rollback of one label at most one
is ever told `Ok`. They follow from the invariant, `AchievedStays`, and temporal logic.

`OpenHasDeadline` is the part of `EveryTransactionEnds` that is the code's: only a begin
opens a transaction, each begin asks for a deadline, and no other request takes it back.
What is left is that the server keeps it.

`StoredPerAttempt` is about a sum over all calls, and the invariant behind it keeps
books (`StoresPaidFor`): of each chunk, the copies stored, the copies that may still
arrive late, and the sends that calls have outstanding or may still make (`ToSend`, a
set of pairs of a caller and an attempt) are together no more than the attempts paid
for by invocations. An invocation adds at most `MaxAttempts` pairs and pays for them.
Executing a request takes away one pair and stores one copy; giving up on it takes one
away and leaves one late copy; a late copy that is executed is stored; all other steps
only take pairs away. `DueShrinks` shows that no step gives an attempt back, from the
client's `AttemptInv`; `ServeStores` that the server stores one copy for a request. The
cardinalities come from FiniteSetTheorems, for any number of callers.

**Refinement.** `ManagerImplementsContract` maps `asked` to the requests that were
invoked. Sending, redirecting, failing over, sleeping and losing an answer map to
stuttering; `Execute` and `ExecuteLate` to `TakeEffect` (this needs that nothing is
in flight that was not asked for, the second half of `ManagerInv`); `Answer` and the
giving up to `Tell` (this needs `OkMeansAchieved`).

**The tracker** (`TransactionTracker_proofs`). `MapIsTruthful` is inductive with the
types: an answer that is written down is true by the contract, and stays true by
`Advances`, whoever overtakes whom. It says nothing of an entry with an error noted.
`MapNeverContradicts` is about all later times: a label that the map once had as
Committed is committed for ever, and the map never has it as RolledBack without an
error, not even after its entry was removed and made anew; and the other way round.

**What is shared** (`SharedCounters_proofs`).

*The breaker.* The type invariant carries the one fact about times that the rest
needs: a task that is about to store a time has a real one. With it `OpenIsDated` is
inductive: the state is set to Open by a task that goes on to store the time.
`SuccessesBounded` counts: a task whose success reaches the threshold joins `Closing`,
and leaves it by setting the count to 0, at which the bound holds whatever the others
do; the step from closing to setting back does not change `Closing`, and all other steps
leave it and the count alone. It bounds the count and does not say that the count is zero
when the circuit has closed: a task that read HALF-OPEN before may count after it, which
is the finding 6 of section 6.

*The concurrent loads.* `ExecutorInv` has nobody wait for a permit that is free, and the
queue of the semaphore hold only loads that wait, each once; then a permit that is given
back goes to the head of the queue or becomes free, never both, and the permits in use
are the size of a set. For the rate, only loads that were let through have a time in the
limiter's list, so that a permission adds one, in the step in which the code compares the
size of what is recent with the limit; as time goes on, that set only shrinks.

*The metrics.* `ExactWhenQuiet` says nothing of a call that is under way, so `MetricsInv`
counts the accesses that are still to come: the sum of the calls is the atomic and the
size of `Pending`, the *set of pairs* of a recorder and each number up to what it still
adds. A step takes the pairs of one recorder away and adds as many. Minimum and maximum
are an order instead of a sum (`ExtremeOK`): the best duration is as good as the atomic
and as all that wait to be exchanged, and is one of these; a recorder whose exchange
failed for no reason still has it to do. A reset that nobody overlaps has set back what
it is not about to set back (`Restarting`), so that it leaves only zeroes behind it.

**The retry loops** (`RetryLoops_proofs`). `ThreeRetryLoops` maps the backoff, the
recovery and the failover to one specification, `RetriedSpec`, whatever they wait for,
and what is stored is proved once, of that. The invariant has a label stored at most
once, because the server refuses it a second time, and a loop that keeps its label use
one, any other one per attempt at most. From this `RetriesDoNotMultiply` and
`LoopOkIsStored`. The fold over the labels, which a theorem of this prover cannot
unfold, is met through `Copies`, the cardinality of those that are stored.
`CopiesWithinSettings` then replaces the attempts by the *settings* of each loop:
`max_attempts`, `max_retries + 1`, three.

`LoopsComeToAnEnd` is the safety half of `LoopEnds`: three steps for each attempt that the
settings still allow are a measure that every step of a loop makes smaller.
`BackoffCountsRight` is the end of the backoff's loop: the same attempt numbers
(`AttemptsWithin`) with what may make it panic (`PanicsExplained`).

*The delay of the backoff.* `DelayIsCapped` holds where the subtraction does not wrap:
with overflow checks, where the loop panics instead, or without jitter. Without this
hypothesis it is false, which is the finding 5 of section 6; both builds exist.

*The recovery.* `LogExplains` needs to know of the entry that is not yet written:
during a call, and after the one that succeeds, the log is one shorter than the attempts,
and as long at all other times. `DelaysDouble` is about `TwoTo`, a recursive function. What such a function
computes needs an induction, and the induction theorems of the library cannot be used
with an operator; here it is done once for a *set*, `{n \in Nat : ...}`, which is closed
under successor (`SetInduction`, from the minimum of a non-empty set of numbers in
WellFoundedInduction), and gives that the powers are numbers and
double. After the cap is met the exact power no longer matters, as it stays above.

*High availability.* `MonitorInv` ties the counts of a node to the history of its
checks: the failures are those since its last success, and there was a success if there
are fewer of them than checks. From that the health that `update_health` computes is
what `HealthFollowsChecks` says. It also says how many checks each node has had in the
present round, from which `SeesWholeRounds` follows for a load, which is at work only
between rounds.

**Requests** (`Requests_proofs`).

*Several tables.* `AllOrNothing` is about what the cluster does at any later time, so
`MultiInv` has to say what it may be asked to do: a commit is among the requests only
when every chunk is stored (`CommitInv`), and that is so because the demonstration goes
from one step to the next only with an `Ok`, which is true, for the chunk of the step
(`StepInv`). Rows are only added (`Advances`, shared with the manager), so it stays
true. The flags are then facts about final states, and `CommittedForGood` says so of
all later times.

*The pipeline.* `PipelineInv` has no record in the queue twice or in the hands of two
batches, and none in both. A `dequeue` takes one from the queue into one pair of hands, every
other step keeps what the other batches hold (`HandOK`), and the count of records, those
in the queue, the batches that hold one and those counted stay in balance. For
`ProcessedIsStored` there is a record for each success that was counted to which nothing
can happen any more (`Settled`): it is stored, and out of the queue and of all hands. That
keeps two successes from being counted for one record.

*The headers.* `RequestInv` says of what was sent last that it is what the *present*
settings make of it, for some order of the custom headers; the settings cannot change
once there is a manager. `RequestsAgree` and `SettingsReachServer` are then facts about
functions: the own headers of an operation are put over all others. `DelimiterSpelt` is
about the pairs of digits of a text; that an even number of bytes is an even number of
characters, when each is of one byte, is the lemma `SingleBytes`.

**What the examples count on.** They are modelled over LoadContract, and ask for what
they need in its terms; that the manager keeps it is `ManagerImplementsContract`. That an
example keeps to the contract holds by the way it is written and is not a theorem.

**Only model-checked:** the liveness properties, `EveryCallReturns`,
`LoneCallerIsServed`, `EveryTransactionEnds`, `RecoveryFinishes`, `CircuitRecovers`,
`EveryLoadEnds` and `LoopEnds`. They need fairness and ENABLED, which are out of the
prover's reach.

## 6 Where code and words differ

Each is a run that TLC must find violated, and an entry under `findings`.

1. **A retry may go back to the FE that just failed.** With two FEs: one call fails
   at FE 0 and moves the cursor; another begins, fails at FE 1 and moves it on, back
   to FE 0; the first call then retries there, where it has just failed. The comment
   says "Route to next FE candidate on retry".
2. **Not exactly once.** A chunk whose answer was lost is sent again. Unless the
   server recognises the copy, a committed transaction holds it twice. The server is
   external and may well recognise it; the SDK does nothing to make sure.
3. **The tracker's state goes back to Loaded** when a load is answered after a
   prepare or commit.
4. **An entry whose begin was dropped stays for ever**, and its label stays taken.
5. **The jitter of the backoff underflows.** `random_range(0..=jitter_ms * 2) -
   jitter_ms` is a subtraction in `u64`; for the smaller half of the random numbers
   the delay is of the order of 2^64 ms, where the configuration says "Cap at 30
   seconds". With overflow checks the loop panics instead.
6. **A trial of the circuit breaker may close the circuit early.** `record_success`
   reads the state and counts in two steps. A task that has read HALF-OPEN before
   another one reopens the circuit and sets `success_count` to 0 counts after that, and
   nothing clears the count before the next trial. That one closes with one success
   less than "Need 3 successful requests to close circuit" says, although every other
   task is at rest when it begins. `MCBreaker` counts the successes of a trial beside
   the code.
7. **An invalid delimiter may be accepted.** `convert_delimiter` checks that the digits
   are an even number of bytes and takes them by pairs of characters. A last character
   without a partner is dropped: `0x` followed by a single `é` gives `Ok` of an empty
   delimiter, where the documentation has an error if "The delimiter format is invalid".

Worth knowing, and modelled, but not the subject of a run: `cancel_load` returns `Ok`
when the server refused in a body with HTTP 200, where its documentation promises an
error; a URL that `join` refuses jams the
client, because `?` leaves the call before the cursor moves on (`BadBase`); a commit
that answers "Publish Timeout" is an error, where a V1 load that does is an `Ok`;
`execute_request` returns a 503 as `Ok` (its caller, the manager, looks at the
status); the tracker sends a commit whatever became of the loads, and marks a
transaction as rolled back, with the error noted, when its rollback was refused;
its `max_concurrent_transactions` is read by nothing.

Of the requests: `enable_transaction` is read by nothing; a custom `Authorization` header replaces
the credentials of loads and of no other operation, and a custom `timeout` header
likewise concerns loads only.

Of the examples: the tracker's map says nothing reliable of an entry with an error noted;
the breaker keeps its count of failures when it closes after a trial,
so that the next single failure opens it again; a demonstration that records blocked
requests as failures can keep it open; a reset of the metrics that overlaps a call
leaves a part of it; a load that ends with "Publish Timeout" is counted as a success
and as a failure; the backoff retries every error, its `is_retryable_error` is never
called; the recovery and one backoff demonstration make a new label for every attempt,
so that a batch is stored once *per attempt* (`RetriesDoNotMultiply` says so);
the node that the failover chooses is only printed; a pipeline can never be stopped,
because nothing sets `Running`; its quality rules look at the data before the
transformations, which may leave it empty; and a multi-table transaction whose begin
fails half-way is left open to its deadline.

## 7 What is not modelled

* **Rows, schemas, formats, authentication headers**: data that passes through.
* **`get_request`, `get_error_log`, `try_get_error_log_for_merge_commit`**: they fetch a
  text, change no state and are not retried.
* **Text functions**: `base64_encode`, the redaction and URL extraction of `error.rs`.
  They are loops over characters without any state around them; a model would be the
  program once more, and unit tests reach all of it.
* **`lib.rs`, basic examples, benches**: one call after the other.
* **What is only reported**: times, throughput, statistics, printed choices.
* **A response body in pieces**: that a body breaks off is modelled, its length not.
* **Weak memory**: the client's cursor is one atomic, for which `Relaxed` accesses
  behave like sequential ones. The atomics of the breaker and of the metrics are
  several, and interleaved here as if they were sequentially consistent: a machine that
  shows `Relaxed` stores to two of them out of order has behaviours beyond the model.

## 8 State of the plan

The modules were written with the most important behaviour first: the client, the
manager and its contract, the tracker, and then the other examples over the contract
or by themselves. What could come next:

* The safety half of the liveness properties that have none yet: `CallsWindDown`,
  `OpenHasDeadline` and `LoopsComeToAnEnd` are those of `EveryCallReturns`,
  `EveryTransactionEnds` and `LoopEnds`; the loads of the executor and a recovery of the
  tracker would each need a measure.
* The manager instead of its contract under one of the retry loops, for a larger
  instance: the contract allows more than the manager does.
