---------------------------- MODULE HttpFailover ----------------------------
(***************************************************************************)
(* Does a call reach every FE before it gives up?  StarRocksHttpClient     *)
(* with history variables that record where each call has failed and       *)
(* whether anybody else moved the shared cursor meanwhile.                 *)
(***************************************************************************)
EXTENDS StarRocksHttpClient

VARIABLES
    failed,       \* FEs at which the caller's current call has failed
    undisturbed   \* only the call itself has moved the cursor since it began

failoverVars == <<httpVars, failed, undisturbed>>

\* Does one more step of the cursor land on the FE next in line?  It does
\* not when the usize wraps and the number of FEs does not divide 2^w.
Seamless(pos) == pos + 1 < Usize \/ Usize % NumFEs = 0

FailoverTypeOK ==
    /\ HttpTypeOK
    /\ failed \in [Callers -> SUBSET FEs]
    /\ undisturbed \in [Callers -> BOOLEAN]

FailoverInit ==
    /\ HttpInit
    /\ failed = [c \in Callers |-> {}]
    /\ undisturbed = [c \in Callers |-> TRUE]

\* A new call, or none any more.
Begin(c) ==
    /\ StartCall(c) \/ DropCall(c)
    /\ failed' = [failed EXCEPT ![c] = {}]
    /\ UNCHANGED undisturbed

\* Where the cursor stands at the first attempt is where the call begins.
Try(c) ==
    /\ Send(c)
    /\ undisturbed' = [undisturbed EXCEPT ![c] = @ \/ call[c].attempt = 1]
    /\ UNCHANGED failed

Miss(c) ==
    /\ NetworkFailure(c)
    /\ failed' = [failed EXCEPT ![c] = @ \cup {call[c].fe}]
    /\ undisturbed' =
           [d \in Callers |-> d = c /\ undisturbed[c] /\ Seamless(currentPos)]

GoOn(c) ==
    /\ \/ JoinFails(c)
       \/ \E s \in Statuses : FEAnswers(c, s) \/ BEAnswers(c, s)
       \/ FERedirects(c)
       \/ Wake(c)
    /\ UNCHANGED <<failed, undisturbed>>

FailoverNext == \E c \in Callers : Begin(c) \/ Try(c) \/ Miss(c) \/ GoOn(c)

FailoverSpec == FailoverInit /\ [][FailoverNext]_failoverVars

-----------------------------------------------------------------------------
GivesUpUndisturbed(c) ==
    /\ call[c].result = "network"
    /\ undisturbed[c]
    /\ MaxAttempts >= NumFEs

\* Failover reaches everyone: a call with at least one attempt per FE, during
\* which no other caller moved the cursor, gives up with a network error only
\* after it has failed at every FE.
FailoverCovers ==
    \A c \in Callers : GivesUpUndisturbed(c) => failed[c] = FEs

\* So one working FE is enough for such a call never to give up.
HealthyFEServes ==
    \A c \in Callers : GivesUpUndisturbed(c) => Healthy = {}

(***************************************************************************)
(* Why FailoverCovers holds.  Count the FEs backwards from the one a call  *)
(* has tried last: an undisturbed call has failed at as many of them, in a *)
(* row, as it has had failing attempts, and the cursor is where the call   *)
(* left it.                                                                *)
(***************************************************************************)
NextFE(fe) == IF fe + 1 = NumFEs THEN 0 ELSE fe + 1

BackDist(fe, f) == IF f <= fe THEN fe - f ELSE fe - f + NumFEs

\* The k FEs that end with the call's own are among those it failed at.
FailedLast(c, k) ==
    \A f \in FEs : BackDist(call[c].fe, f) < k => f \in failed[c]

\* All but the one it is waiting for.
FailedBefore(c) ==
    \A f \in FEs :
        BackDist(call[c].fe, f) \in 1 .. (call[c].attempt - 1) => f \in failed[c]

BetweenAttempts(c) ==
    call[c].pc = "sleep" \/ (call[c].pc = "attempt" /\ call[c].attempt > 1)

FailoverInvOf(c) ==
    /\ failed[c] \cap Healthy = {}
    /\ Waiting(c) \/ BetweenAttempts(c) \/ call[c].result = "network" =>
          call[c].fe \in FEs
    /\ undisturbed[c] =>
          /\ Waiting(c) => AvailableFE(currentPos) = call[c].fe /\ FailedBefore(c)
          /\ BetweenAttempts(c) => AvailableFE(currentPos) = NextFE(call[c].fe)
          /\ call[c].pc = "sleep" => FailedLast(c, call[c].attempt)
          /\ BetweenAttempts(c) /\ call[c].pc = "attempt" =>
                FailedLast(c, call[c].attempt - 1)
          /\ call[c].result = "network" => FailedLast(c, MaxAttempts)

\* FailoverCovers and HealthyFEServes, strengthened to be inductive together
\* with FailoverTypeOK and AttemptInv.
FailoverInv == \A c \in Callers : FailoverInvOf(c)
=============================================================================
