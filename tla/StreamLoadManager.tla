-------------------------- MODULE StreamLoadManager --------------------------
(***************************************************************************)
(* StreamLoadManager (src/src/manager.rs) on top of StarRocksHttpClient,   *)
(* against a cluster that may execute a request and lose the answer, or    *)
(* execute it long after the client has given up on it.                    *)
(*                                                                         *)
(* Every operation is one execute_request, whose retries send the same     *)
(* headers and body again, then a reading of the status code and the body. *)
(* Requests name their transaction by its label only.                      *)
(***************************************************************************)
EXTENDS StarRocksHttpClient, StarRocksServer

CONSTANTS
    BadLabels,        \* labels that HeaderValue::from_str refuses
    Offered,          \* kinds of operation the callers use (bounds a run)
    MaxInvocations    \* times each request is made (bounds a run)

ASSUME ManagerAssumption ==
    /\ BadLabels \subseteq Labels
    /\ Offered \subseteq Kinds
    /\ MaxInvocations \in Nat

(***************************************************************************)
(* The operations.  Each definition stands for the request a function of   *)
(* the manager builds; database, table and format headers pass through and *)
(* decide nothing here.                                                    *)
(***************************************************************************)
send_single_batch(l, d) ==
    [kind |-> "v1", label |-> l, chunk |-> d, deadline |-> FALSE]

BeginWithoutTimeout(l) ==  \* (bug)
    [kind |-> "begin", label |-> l, chunk |-> NoChunk, deadline |-> FALSE]

\* The timeout header is always sent, 600 s unless configured otherwise.
begin_transaction(l) ==
    [kind |-> "begin", label |-> l, chunk |-> NoChunk, deadline |-> TRUE]

load_transaction_data(l, d) ==
    [kind |-> "load", label |-> l, chunk |-> d, deadline |-> FALSE]

prepare_transaction(l) ==
    [kind |-> "prepare", label |-> l, chunk |-> NoChunk, deadline |-> FALSE]

commit_transaction(l) ==
    [kind |-> "commit", label |-> l, chunk |-> NoChunk, deadline |-> FALSE]

rollback_transaction(l) ==
    [kind |-> "rollback", label |-> l, chunk |-> NoChunk, deadline |-> FALSE]

get_load_status(l) ==
    [kind |-> "status", label |-> l, chunk |-> NoChunk, deadline |-> FALSE]

cancel_load(l) ==
    [kind |-> "cancel", label |-> l, chunk |-> NoChunk, deadline |-> FALSE]

Requests ==
    LET All == UNION {
            {send_single_batch(l, d), load_transaction_data(l, d),
             begin_transaction(l), prepare_transaction(l),
             commit_transaction(l), rollback_transaction(l),
             get_load_status(l), cancel_load(l)} : l \in Labels, d \in Chunks}
    IN  {o \in All : o.kind \in Offered}

\* The label goes into a header, except where it is part of the URL.
LabelInHeader(o) == o.kind \notin {"status", "cancel"}

AcceptsAnything(o) == Replies  \* (bug)

\* The Status values that are not turned into Error::StarRocksFailure.
Accepted(o) ==
    CASE o.kind = "v1" -> {"Success", "OK", "Publish Timeout"}
      [] o.kind \in {"status", "cancel"} -> Replies
      [] OTHER -> {"OK", "Success"}

-----------------------------------------------------------------------------
VARIABLES
    op,        \* each caller's operation
    reply,     \* what the server has said to its current send, "none" before
    outcome,   \* what the operation returned
    late,      \* copies the client gave up on that the server may still get
    invoked    \* times each request was made (history, bounds a run)

vars == <<httpVars, server, op, reply, outcome, late, invoked>>

NoOp == [kind |-> "none"]

Outcomes == {"none", "ok", "err", "dropped"}

ManagerTypeOK ==
    /\ ServerTypeOK
    /\ op \in [Callers -> Requests \cup {NoOp}]
    /\ reply \in [Callers -> Replies \cup {"none"}]
    /\ outcome \in [Callers -> Outcomes]
    /\ late \in [Requests -> Nat]
    /\ invoked \in [Requests -> Nat]

Init ==
    /\ HttpInit
    /\ ServerInit
    /\ op = [c \in Callers |-> NoOp]
    /\ reply = [c \in Callers |-> "none"]
    /\ outcome = [c \in Callers |-> "none"]
    /\ late = [o \in Requests |-> 0]
    /\ invoked = [o \in Requests |-> 0]

\* An operation starts: its headers are built and execute_request entered,
\* which may return an error at once.
Invoke(c, o) ==
    /\ invoked[o] < MaxInvocations
    /\ LabelInHeader(o) => o.label \notin BadLabels
    /\ StartCall(c)
    /\ op' = [op EXCEPT ![c] = o]
    /\ reply' = [reply EXCEPT ![c] = "none"]
    /\ outcome' = [outcome EXCEPT ![c] =
           IF EnteredCall.pc = "done" THEN "err" ELSE "none"]
    /\ invoked' = [invoked EXCEPT ![o] = @ + 1]
    /\ UNCHANGED <<server, late>>

\* "Invalid label name": nothing is sent.
RefuseLabel(c, o) ==
    /\ ~InFlight(c)
    /\ LabelInHeader(o) /\ o.label \in BadLabels
    /\ op' = [op EXCEPT ![c] = o]
    /\ reply' = [reply EXCEPT ![c] = "none"]
    /\ outcome' = [outcome EXCEPT ![c] = "err"]
    /\ UNCHANGED <<httpVars, server, late, invoked>>

Transmit(c) ==
    /\ Send(c)
    /\ reply' = [reply EXCEPT ![c] = "none"]
    /\ UNCHANGED <<server, op, outcome, late, invoked>>

\* The server that has the request, FE or BE, executes it once.
Outstanding(c) == Waiting(c) /\ reply[c] = "none"

Execute(c) ==
    /\ Outstanding(c)
    /\ \E r \in Replies :
          /\ Serve(op[c], r)
          /\ reply' = [reply EXCEPT ![c] = r]
    /\ UNCHANGED <<httpVars, op, outcome, late, invoked>>

\* The FE hands the request on instead of executing it.
Redirect(c) ==
    /\ FERedirects(c)
    /\ reply[c] = "none"
    /\ UNCHANGED <<server, op, reply, outcome, late, invoked>>

\* What the manager makes of a response: a status other than 200 is an error,
\* so is a body that is cut off or does not parse (or, for begin, has no
\* TxnId), so is a Status it does not accept.  The future may be dropped while
\* it reads the body.
OutcomesOf(c, status) ==
    {"err", "dropped"}
    \cup {r \in {"ok"} : status = "200" /\ reply[c] \in Accepted(op[c])}

\* A server that executed the request may still answer something else than
\* 200 (a proxy, an overloaded FE); 200 comes with the body of a reply.
Answer(c) ==
    \E status \in Statuses :
        /\ status = "200" => reply[c] # "none"
        /\ FEAnswers(c, status) \/ BEAnswers(c, status)
        /\ \E r \in OutcomesOf(c, status) : outcome' = [outcome EXCEPT ![c] = r]
        /\ UNCHANGED <<server, op, reply, late, invoked>>

UrlError(c) ==
    /\ JoinFails(c)
    /\ outcome' = [outcome EXCEPT ![c] = "err"]
    /\ UNCHANGED <<server, op, reply, late, invoked>>

\* The client gives up on a send; if it was not executed yet it is lost, or
\* still on its way.
Abandon(c) ==
    \/ late' = late
    \/ Outstanding(c) /\ late' = [late EXCEPT ![op[c]] = @ + 1]

Fail(c) ==
    /\ NetworkFailure(c)
    /\ Abandon(c)
    /\ outcome' = [outcome EXCEPT ![c] = IF Retries(c) THEN "none" ELSE "err"]
    /\ UNCHANGED <<server, op, reply, invoked>>

RetryLater(c) ==
    /\ Wake(c)
    /\ UNCHANGED <<server, op, reply, outcome, late, invoked>>

Drop(c) ==
    /\ DropCall(c)
    /\ Abandon(c)
    /\ outcome' = [outcome EXCEPT ![c] = "dropped"]
    /\ UNCHANGED <<server, op, reply, invoked>>

\* A copy that nobody waits for any more is executed.
ExecuteLate(o) ==
    /\ late[o] > 0
    /\ \E r \in Replies : Serve(o, r)
    /\ late' = [late EXCEPT ![o] = @ - 1]
    /\ UNCHANGED <<httpVars, op, reply, outcome, invoked>>

PassDeadline(l) ==
    /\ Expire(l)
    /\ UNCHANGED <<httpVars, op, reply, outcome, late, invoked>>

Next ==
    \/ \E c \in Callers, o \in Requests : Invoke(c, o) \/ RefuseLabel(c, o)
    \/ \E c \in Callers :
          \/ Transmit(c) \/ Execute(c) \/ Redirect(c) \/ Answer(c)
          \/ UrlError(c) \/ Fail(c) \/ RetryLater(c) \/ Drop(c)
    \/ \E o \in Requests : ExecuteLate(o)
    \/ \E l \in Labels : PassDeadline(l)

Spec == Init /\ [][Next]_vars

\* The server does watch the deadlines it was given.
FairSpec == Spec /\ \A l \in Labels : WF_vars(PassDeadline(l))

-----------------------------------------------------------------------------
(* Safety. *)

\* Ok can be believed: when an operation returns Ok its effect is on the
\* server, and neither other callers nor copies that arrive late take it
\* away.  (A begin is achieved when its label is taken: the transaction may
\* have ended since.)
OkMeansAchieved ==
    \A c \in Callers : outcome[c] = "ok" => Achieved(op[c])

\* What is known of a caller: while its call is under way it was counted and
\* not told anything yet; a reply that would be accepted, and an Ok, are true.
CallerInvOf(c) ==
    /\ InFlight(c) => op[c] \in Requests /\ invoked[op[c]] > 0 /\ outcome[c] = "none"
    /\ ~InFlight(c) => op[c] = NoOp \/ outcome[c] # "none"
    /\ reply[c] \in Accepted(op[c]) => Achieved(op[c])
    /\ outcome[c] = "ok" => Achieved(op[c])

\* OkMeansAchieved, strengthened to be inductive together with ManagerTypeOK;
\* late copies were once asked for.
ManagerInv ==
    /\ \A c \in Callers : CallerInvOf(c)
    /\ \A o \in Requests : late[o] > 0 => invoked[o] > 0

\* Retries multiply a load within limits: no chunk is stored more often than
\* its loads were made, times the attempts of a call.
StoredPerAttempt ==
    \A l \in Labels, d \in Chunks :
        LET Made(o) == IF o \in Requests THEN invoked[o] ELSE 0 IN
        server[l].rows[d] <=
            MaxAttempts * (Made(send_single_batch(l, d))
                           + Made(load_transaction_data(l, d)))

\* Two-phase commit for exactly-once semantics: a chunk for which one load was
\* made, and which was committed, is there once.
LoadedExactlyOnce ==
    \A l \in Labels, d \in Chunks :
        LET o == load_transaction_data(l, d) IN
        o \in Requests /\ invoked[o] <= 1 /\ server[l].state = "committed"
        => server[l].rows[d] <= 1

\* A transaction that is open can be ended without any caller, also one whose
\* begin was retried, reported as an error, or executed when nobody waited.
OpenHasDeadline == \A l \in Labels : Live(server[l]) => server[l].deadline

-----------------------------------------------------------------------------
(* Refinement and liveness. *)

Contract == INSTANCE LoadContract
    WITH Users <- Callers, asked <- {o \in Requests : invoked[o] > 0}

\* Redirects, retries and failover do not show: the manager keeps the contract.
KeepsContract == Contract!ContractSpec

\* No transaction stays open for ever, not even one whose begin was retried
\* and reported as an error, so that no caller knows of it.
EveryTransactionEnds ==
    \A l \in Labels : Live(server[l]) ~> ~Live(server[l])
=============================================================================
