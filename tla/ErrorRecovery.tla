---------------------------- MODULE ErrorRecovery ----------------------------
(***************************************************************************)
(* The RecoveryExecutor of examples/advanced/error_handling_recovery.rs:   *)
(* an error is classified by the words its text contains, logged, and      *)
(* retried if its category allows, after a delay that doubles up to a cap. *)
(***************************************************************************)
EXTENDS RetriedLoad, Sequences

(***************************************************************************)
(* classify_error: the first category with a word that the text contains.  *)
(* A text is the set of the words it contains; "gateway timeout" contains  *)
(* "timeout".                                                              *)
(***************************************************************************)
Category(name, words) == [name |-> name, words |-> words]

Classifier ==
    <<Category("Network", {"timeout", "connection", "network", "dns", "unreachable"}),
      Category("Server", {"503", "service unavailable", "504", "gateway timeout", "overload"}),
      Category("Data", {"schema", "validation", "null", "constraint", "duplicate",
                        "invalid data"}),
      Category("Auth", {"authentication", "authorization", "permission", "unauthorized",
                        "401", "403"}),
      Category("Transaction", {"transaction", "conflict", "aborted", "timeout"})>>

Words == UNION {Classifier[i].words : i \in DOMAIN Classifier}

CONSTANTS
    max_retries, base_delay, max_delay,
    Texts    \* what errors may say

ASSUME RecoveryAssumption ==
    max_retries \in Nat /\ base_delay \in Nat /\ max_delay \in Nat

ASSUME TextsAssumption ==
    /\ Texts \subseteq SUBSET Words
    /\ \A text \in Texts : "gateway timeout" \in text => "timeout" \in text

classify_error(text) ==
    LET found == {i \in DOMAIN Classifier : Classifier[i].words \cap text # {}}
        first == CHOOSE i \in found : \A j \in found : i <= j
    IN  IF found = {} THEN "Unknown" ELSE Classifier[first].name

RetryAnything(category) == TRUE  \* (bug)

is_retryable(category) == category \in {"Network", "Server"}

VARIABLES
    backoff_delay,   \* of each user
    error_log        \* category of each error that was handled, by user

recoveryVars == <<retriedVars, backoff_delay, error_log>>

HandlerInit ==
    /\ backoff_delay = [c \in Retriers |-> base_delay]
    /\ error_log = [c \in Retriers |-> <<>>]

\* The demonstrations make a label for every attempt.
RecoveryInit == RetriedInit /\ HandlerInit /\ \A c \in Retriers : ~loop[c].keeps

-----------------------------------------------------------------------------
StartRecovery(c) == StartLoop(c, "trying") /\ UNCHANGED <<backoff_delay, error_log>>

TryRecovery(c) == TryLoad(c) /\ UNCHANGED <<backoff_delay, error_log>>

RecoveryOk(c) == LoadOk(c) /\ UNCHANGED <<backoff_delay, error_log>>

\* handle_error, and what the loop makes of it.
HandleError(c, text) ==
    LET category == classify_error(text)
        again == is_retryable(category) /\ loop[c].attempts <= max_retries
    IN  /\ error_log' = [error_log EXCEPT ![c] = Append(@, category)]
        /\ LoadErr(c, IF again THEN "asleep" ELSE "failed")
        /\ UNCHANGED backoff_delay

DoubleFreely(delay) == delay * 2  \* (bug)

DoubleDelay(delay) == Least(delay * 2, max_delay)

\* The delay is doubled after the sleep.
RecoveryWakes(c) ==
    /\ WakeUp(c)
    /\ backoff_delay' = [backoff_delay EXCEPT ![c] = DoubleDelay(@)]
    /\ UNCHANGED error_log

RecoveryStep(c) ==
    \/ TryRecovery(c) \/ RecoveryOk(c) \/ RecoveryWakes(c)
    \/ \E text \in Texts : HandleError(c, text)

RecoveryNext ==
    \/ \E c \in Retriers : StartRecovery(c) \/ RecoveryStep(c)
    \/ ClusterLoads /\ UNCHANGED <<backoff_delay, error_log>>

RecoverySpec == RecoveryInit /\ [][RecoveryNext]_recoveryVars

-----------------------------------------------------------------------------
\* The log explains the attempts: every failed attempt has its entry, none
\* follows an error of another category than Network and Server, and a loop
\* gives up for such an error or after max_retries retries, not before.
LogExplainsAttempts ==
    \A c \in Retriers :
        LET log == error_log[c]
            failures == loop[c].attempts - IF loop[c].pc \in {"calling", "ok"} THEN 1 ELSE 0
            transient == {"Network", "Server"}
        IN  /\ Len(log) = failures
            /\ \A i \in DOMAIN log : i < loop[c].attempts => log[i] \in transient
            /\ loop[c].pc = "failed" => \/ log[failures] \notin transient
                                        \/ failures = max_retries + 1

\* The delay before a retry is what doubling says: the first is base_delay,
\* the others double it and stay below the cap.
DelayDoubles ==
    \A c \in Retriers : loop[c].pc = "asleep" =>
        LET retries == loop[c].attempts - 1
        IN  backoff_delay[c] = IF retries = 0 THEN base_delay
                               ELSE Least(base_delay * TwoTo[retries], max_delay)
=============================================================================
