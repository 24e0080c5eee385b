------------------------- MODULE StarRocksHttpClient -------------------------
(***************************************************************************)
(* The HTTP layer of the SDK (src/src/http.rs): one StarRocksHttpClient,   *)
(* shared by any number of concurrent callers, sends every request to one  *)
(* of the configured frontends (FEs), follows a 307 to a backend (BE) by   *)
(* hand, and on a network failure moves a shared cursor to the next FE,    *)
(* sleeps and tries again.                                                 *)
(*                                                                         *)
(* The cursor is an AtomicUsize read before the request is sent and        *)
(* advanced after its await has failed, so other callers run in between.   *)
(* A step of the model is a stretch of execute_request between two awaits: *)
(* each such stretch touches the cursor at most once.                      *)
(***************************************************************************)
EXTENDS Integers, FiniteSets

CONSTANTS
    Callers,      \* tasks that share the client (it is used behind an Arc)
    NumFEs,       \* length of config.load_urls
    MaxRetries,   \* config.max_retries
    Usize,        \* number of values of a usize, 2^64 on the usual build
    BadBase,      \* FEs whose URL parses but is not a base for join(path)
    Healthy       \* FEs that answer, and whose redirect targets answer

FEs == 0 .. (NumFEs - 1)

\* A Vec cannot be longer than usize::MAX, and max_retries is a usize.
ASSUME HttpAssumption ==
    /\ Usize \in Nat \ {0}
    /\ NumFEs \in Nat
    /\ NumFEs < Usize
    /\ MaxRetries \in 0 .. (Usize - 1)
    /\ BadBase \subseteq FEs
    /\ Healthy \subseteq FEs

\* The sum is a usize: it wraps to zero when max_retries is usize::MAX (on a
\* build with overflow checks it panics instead, before anything is sent).
MaxAttempts == (MaxRetries + 1) % Usize

\* What the server may say: a success, a redirect, any other status.
Statuses == {"200", "307", "503"}

\* How a call ended without an answer.
Failures == {"network", "badUrl", "noUrls", "exhausted"}

VARIABLES
    currentPos,   \* the atomic cursor
    call          \* what each caller's execute_request is doing

httpVars == <<currentPos, call>>

NoCall == [pc |-> "idle", attempt |-> 0, fe |-> 0, result |-> "none"]

(***************************************************************************)
(* The places a call can be: before an attempt, waiting for the FE,        *)
(* waiting for the BE it was redirected to, sleeping, returned.            *)
(***************************************************************************)
PCs == {"idle", "attempt", "fe", "be", "sleep", "done"}

HttpTypeOK ==
    /\ currentPos \in 0 .. (Usize - 1)
    /\ call \in [Callers -> [pc : PCs, attempt : Nat, fe : Nat,
                             result : Statuses \cup Failures \cup {"none"}]]

HttpInit ==
    /\ currentPos = 0
    /\ call = [c \in Callers |-> NoCall]

-----------------------------------------------------------------------------
\* Plausible bugs of this code, which no run uses, stand before the
\* definition they would replace and are marked (bug).
FirstFE(pos) == 0  \* (bug)

AvailableFE(pos) == pos % NumFEs

Waiting(c) == call[c].pc \in {"fe", "be"}

InFlight(c) == call[c].pc \in {"attempt", "fe", "be", "sleep"}

CursorIfFEFailed(c) ==  \* (bug)
    IF call[c].pc = "be" THEN currentPos ELSE (currentPos + 1) % Usize

CursorAfterFailure(c) == (currentPos + 1) % Usize

RetriesOnceMore(c) == call[c].attempt <= MaxAttempts  \* (bug)

Retries(c) == call[c].attempt < MaxAttempts

\* The call returns r.
Return(c, r) == call' = [call EXCEPT ![c] = [@ EXCEPT !.pc = "done", !.result = r]]

\* execute_request is entered: without URLs, or with a loop of no turn, it
\* returns an error at once.
EnteredCall ==
    IF NumFEs = 0 THEN [NoCall EXCEPT !.pc = "done", !.result = "noUrls"]
    ELSE IF MaxAttempts = 0
    THEN [NoCall EXCEPT !.pc = "done", !.result = "exhausted"]
    ELSE [NoCall EXCEPT !.pc = "attempt", !.attempt = 1]

StartCallAtFirstFE(c) ==  \* (bug)
    /\ ~InFlight(c)
    /\ currentPos' = 0
    /\ call' = [call EXCEPT ![c] = EnteredCall]

StartCall(c) ==
    /\ ~InFlight(c)
    /\ call' = [call EXCEPT ![c] = EnteredCall]
    /\ UNCHANGED currentPos

\* The cursor is read and the request sent; the FE is fixed until the next
\* attempt.
Send(c) ==
    LET fe == AvailableFE(currentPos) IN
    /\ call[c].pc = "attempt"
    /\ fe \notin BadBase
    /\ call' = [call EXCEPT ![c] = [@ EXCEPT !.pc = "fe", !.fe = fe]]
    /\ UNCHANGED currentPos

\* fe_url.join(path)? returns from the whole call: no retry, no failover.
JoinFails(c) ==
    /\ call[c].pc = "attempt"
    /\ AvailableFE(currentPos) \in BadBase
    /\ Return(c, "badUrl")
    /\ UNCHANGED currentPos

\* Any response that is not a 307 with a usable Location is the result.
FEAnswers(c, status) ==
    /\ call[c].pc = "fe"
    /\ Return(c, status)
    /\ UNCHANGED currentPos

\* A 307 with a usable Location: method, headers and body go to the BE.
FERedirects(c) ==
    /\ call[c].pc = "fe"
    /\ call' = [call EXCEPT ![c].pc = "be"]
    /\ UNCHANGED currentPos

FollowEveryRedirect(c, status) ==  \* (bug)
    /\ call[c].pc = "be"
    /\ IF status = "307"
       THEN call' = [call EXCEPT ![c].pc = "fe"]
       ELSE Return(c, status)
    /\ UNCHANGED currentPos

\* Whatever the BE says is the result, a second redirect included.
BEAnswers(c, status) ==
    /\ call[c].pc = "be"
    /\ Return(c, status)
    /\ UNCHANGED currentPos

\* No answer from the FE or from the BE: refused, reset, timed out.  The
\* cursor moves on, whichever of the two failed and wherever it is by now.
NetworkFailure(c) ==
    /\ Waiting(c)
    /\ call[c].fe \notin Healthy
    /\ currentPos' = CursorAfterFailure(c)
    /\ IF Retries(c)
       THEN call' = [call EXCEPT ![c].pc = "sleep"]
       ELSE Return(c, "network")

\* retry_interval has passed.
Wake(c) ==
    /\ call[c].pc = "sleep"
    /\ call' = [call EXCEPT ![c].pc = "attempt", ![c].attempt = @ + 1]
    /\ UNCHANGED currentPos

\* The caller drops the future at an await (a select!, a tokio timeout): the
\* code after that await never runs, the cursor stays.
DropCall(c) ==
    /\ Waiting(c) \/ call[c].pc = "sleep"
    /\ call' = [call EXCEPT ![c] = NoCall]
    /\ UNCHANGED currentPos

\* What the call does once it is under way.
CallStep(c) ==
    \/ Send(c)
    \/ JoinFails(c)
    \/ \E s \in Statuses : FEAnswers(c, s)
    \/ FERedirects(c)
    \/ \E s \in Statuses : BEAnswers(c, s)
    \/ NetworkFailure(c)
    \/ Wake(c)

HttpNext == \E c \in Callers : StartCall(c) \/ CallStep(c) \/ DropCall(c)

HttpSpec == HttpInit /\ [][HttpNext]_httpVars

\* A call that is under way goes on: request_timeout ends every await of
\* send(), the timer ends every sleep, and the runtime polls a woken task.
HttpFairSpec == HttpSpec /\ \A c \in Callers : WF_httpVars(CallStep(c))

-----------------------------------------------------------------------------
(* Safety. *)

\* A call never works longer than configured: it makes at most MaxAttempts
\* attempts, it sleeps only before an attempt it still has, and it reports a
\* network error only with its last attempt.
BoundedWork ==
    \A c \in Callers :
        /\ call[c].attempt <= MaxAttempts
        /\ call[c].pc = "sleep" => call[c].attempt < MaxAttempts
        /\ call[c].result = "network" => call[c].attempt = MaxAttempts

\* Steps that a call under way can still take: an attempt is sent, redirected,
\* and answered or failed, and then there is a sleep.
StepsLeft(c) ==
    4 * (MaxAttempts - call[c].attempt)
        + CASE call[c].pc = "attempt" -> 3
            [] call[c].pc = "fe" -> 2
            [] call[c].pc = "be" -> 1
            [] OTHER -> 0

\* Each step of a call takes one of them, whatever FEs and BEs answer and
\* other callers do to the cursor: a redirect leads to no further one, and a
\* failure is made up for by an attempt less.
CallsWindDown ==
    [][\A c \in Callers :
          InFlight(c) /\ InFlight(c)' /\ call'[c] # call[c]
              => StepsLeft(c)' \in 0 .. (StepsLeft(c) - 1)]_httpVars

\* What the program counter of a call says of its attempt number.
AttemptInvOf(c) ==
    /\ call[c].pc = "idle" => call[c].attempt = 0
    /\ InFlight(c) => /\ call[c].result = "none"
                      /\ call[c].attempt \in 1 .. MaxAttempts
                      /\ NumFEs > 0
    /\ call[c].pc = "idle" => call[c].result = "none"
    /\ call[c].pc = "done" => call[c].attempt \in 0 .. MaxAttempts
    /\ call[c].pc = "sleep" => call[c].attempt < MaxAttempts
    /\ call[c].result = "network" => call[c].pc = "done" /\ call[c].attempt = MaxAttempts

\* BoundedWork, strengthened to be inductive together with HttpTypeOK.
AttemptInv == \A c \in Callers : AttemptInvOf(c)

(* What the code says of itself, and does not do when callers overlap. *)

\* "Route to next FE candidate on retry": with two FEs or more, a retry does
\* not go back to the FE that has just failed.
RetryLeavesFailedFE ==
    [][\A c \in Callers :
          /\ NumFEs > 1
          /\ call[c].pc = "attempt" /\ call[c].attempt > 1
          /\ call'[c].pc = "fe"
          => call'[c].fe # call[c].fe]_httpVars

-----------------------------------------------------------------------------
(* Liveness, under HttpFairSpec. *)

\* Every call ends, whatever the FEs and BEs do, redirect to each other
\* included.
EveryCallReturns ==
    \A c \in Callers : InFlight(c) ~> ~InFlight(c)

\* A caller alone on its client finds a working FE sooner or later, however
\* few attempts a call has and however often it drops a call half-way: if its
\* calls keep returning, one of them is answered, again and again.  Only a URL
\* that join refuses is in the way: the cursor does not get past it.
LoneCallerIsServed ==
    \A c \in Callers :
        /\ Callers = {c} /\ Healthy # {} /\ MaxAttempts > 0
        /\ []<>(call[c].pc = "attempt")
        /\ []<>(call[c].pc = "done" /\ call[c].result # "badUrl")
        => []<>(call[c].pc = "done" /\ call[c].result \in Statuses)
=============================================================================
