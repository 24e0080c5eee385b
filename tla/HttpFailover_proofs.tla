-------------------------- MODULE HttpFailover_proofs --------------------------
(***************************************************************************)
(* Proofs about HttpFailover: that an undisturbed call tries every FE      *)
(* before it gives up, for any number of FEs, callers and attempts and any *)
(* width of the cursor.                                                    *)
(***************************************************************************)
EXTENDS HttpFailover, StarRocksHttpClient_proofs

-----------------------------------------------------------------------------
(* Remainders, for a divisor that is not a number. *)

\* What the quotient and the remainder are.
LEMMA Quotient ==
    ASSUME NEW p \in Nat, NEW n \in Nat \ {0}
    PROVE  /\ p \div n \in Nat
           /\ p % n \in 0 .. (n - 1)
           /\ p = n * (p \div n) + (p % n)
  OBVIOUS

\* A positive multiple of n is no smaller than n.
LEMMA PositiveMultiple ==
    ASSUME NEW n \in Nat \ {0}, NEW d \in Int, d >= 1
    PROVE  n * d >= n
  OBVIOUS

\* There is only one remainder.
LEMMA UniqueRemainder ==
    ASSUME NEW n \in Nat \ {0}, NEW q \in Int, NEW r \in 0 .. (n - 1),
           NEW s \in Int, NEW t \in 0 .. (n - 1), n * q + r = n * s + t
    PROVE  r = t
  <1>1. n * (q - s) = t - r
    OBVIOUS
  <1>2. n * (s - q) = r - t
    OBVIOUS
  <1>3. CASE q - s >= 1
    BY <1>1, <1>3, PositiveMultiple
  <1>4. CASE s - q >= 1
    BY <1>2, <1>4, PositiveMultiple
  <1>5. CASE q = s
    BY <1>1, <1>5
  <1> QED  BY <1>3, <1>4, <1>5

\* The remainder moves on by one, or starts again at zero.
LEMMA NextRemainder ==
    ASSUME NEW p \in Nat, NEW n \in Nat \ {0}
    PROVE  (p + 1) % n = IF (p % n) + 1 = n THEN 0 ELSE (p % n) + 1
  <1> DEFINE q == p \div n
             r == p % n
             s == (p + 1) \div n
             t == (p + 1) % n
  <1>1. /\ q \in Nat
        /\ r \in 0 .. (n - 1)
        /\ p = n * q + r
    BY Quotient
  <1>2. /\ s \in Nat
        /\ t \in 0 .. (n - 1)
        /\ p + 1 = n * s + t
    BY Quotient, p + 1 \in Nat
  <1> HIDE DEF q, r, s, t
  <1>3. CASE r + 1 = n
    <2>1. n * (q + 1) + 0 = n * s + t
      BY <1>1, <1>2, <1>3
    <2>2. t = 0
      BY <1>1, <1>2, <2>1, UniqueRemainder
    <2> QED  BY <1>3, <2>2 DEF r, t
  <1>4. CASE r + 1 < n
    <2>1. n * q + (r + 1) = n * s + t
      BY <1>1, <1>2
    <2>2. r + 1 \in 0 .. (n - 1)
      BY <1>1, <1>4
    <2>3. r + 1 = t
      BY <1>1, <1>2, <2>1, <2>2, UniqueRemainder
    <2> QED  BY <1>1, <1>4, <2>3 DEF r, t
  <1> QED  BY <1>1, <1>3, <1>4

-----------------------------------------------------------------------------
(* The cursor. *)

\* A usize wraps to zero and nowhere else.
LEMMA WrapAround ==
    ASSUME NEW p \in 0 .. (Usize - 1)
    PROVE  (p + 1) % Usize = IF p + 1 = Usize THEN 0 ELSE p + 1
  BY HttpAssumption

\* fetch_add(1) moves the cursor to the next FE, unless it wraps unevenly.
LEMMA CursorStep ==
    ASSUME NumFEs > 0, NEW p \in 0 .. (Usize - 1), Seamless(p)
    PROVE  AvailableFE((p + 1) % Usize) = NextFE(AvailableFE(p))
  <1>1. NumFEs \in Nat \ {0} /\ Usize \in Nat \ {0} /\ p \in Nat
    BY HttpAssumption
  <1>2. (p + 1) % NumFEs = NextFE(p % NumFEs)
    BY <1>1, NextRemainder DEF NextFE
  <1>3. CASE p + 1 < Usize
    <2>1. (p + 1) % Usize = p + 1
      BY <1>1, <1>3, WrapAround
    <2> QED  BY <1>2, <2>1 DEF AvailableFE
  <1>4. CASE p + 1 = Usize /\ Usize % NumFEs = 0
    <2>1. (p + 1) % Usize = 0
      BY <1>1, <1>4, WrapAround
    <2>2. 0 % NumFEs = 0
      BY <1>1
    <2> QED  BY <1>2, <1>4, <2>1, <2>2 DEF AvailableFE
  <1> QED  BY <1>1, <1>3, <1>4 DEF Seamless
------------------------------------------------------------------------

\* The distance to an FE is less than their number, and zero to itself only.
LEMMA BackDistRange ==
    ASSUME NEW e \in FEs, NEW f \in FEs
    PROVE  /\ BackDist(e, f) \in 0 .. (NumFEs - 1)
           /\ BackDist(e, f) = 0 => f = e
  BY HttpAssumption DEF FEs, BackDist

\* One step along the ring of FEs is one step of BackDist.
LEMMA BackDistNext ==
    ASSUME NEW e \in FEs, NEW f \in FEs
    PROVE  /\ NextFE(e) \in FEs
           /\ f # NextFE(e) => BackDist(NextFE(e), f) = BackDist(e, f) + 1
  BY HttpAssumption DEF FEs, NextFE, BackDist

-----------------------------------------------------------------------------
(* The history variables leave the client alone. *)

\* With its history taken away, a step is one of the HTTP layer.
LEMMA FailoverStepIsHttpStep == [FailoverNext]_failoverVars => [HttpNext]_httpVars
  BY DEF FailoverNext, failoverVars, httpVars, Begin, Try, Miss, GoOn,
         HttpNext, CallStep

\* So what holds of the client holds of it here.
THEOREM FailoverRefinesHttp == FailoverSpec => HttpSpec
  <1>1. FailoverInit => HttpInit
    BY DEF FailoverInit
  <1> QED  BY <1>1, FailoverStepIsHttpStep, PTL DEF FailoverSpec, HttpSpec

\* The types of the history variables.
LEMMA HistoryTypeStep ==
    FailoverTypeOK /\ FailoverInv /\ [FailoverNext]_failoverVars =>
        /\ failed' \in [Callers -> SUBSET FEs]
        /\ undisturbed' \in [Callers -> BOOLEAN]
  <1> SUFFICES ASSUME FailoverTypeOK, FailoverInv, [FailoverNext]_failoverVars
               PROVE  /\ failed' \in [Callers -> SUBSET FEs]
                      /\ undisturbed' \in [Callers -> BOOLEAN]
    OBVIOUS
  <1> DEFINE Goal == /\ failed' \in [Callers -> SUBSET FEs]
                     /\ undisturbed' \in [Callers -> BOOLEAN]
  <1> USE DEF FailoverTypeOK
  <1>1. ASSUME NEW c \in Callers, Begin(c)
        PROVE  Goal
    <2>1. failed' \in [Callers -> SUBSET FEs]
      BY <1>1 DEF Begin
    <2> QED  BY <1>1, <2>1 DEF Begin
  <1>2. ASSUME NEW c \in Callers, Try(c)
        PROVE  Goal
    <2>1. undisturbed' \in [Callers -> BOOLEAN]
      BY <1>2, Zenon DEF Try
    <2> QED  BY <1>2, <2>1 DEF Try
  <1>3. ASSUME NEW c \in Callers, Miss(c)
        PROVE  Goal
    <2>1. call[c].fe \in FEs
      BY <1>3 DEF Miss, NetworkFailure, FailoverInv, FailoverInvOf
    <2>2. failed' \in [Callers -> SUBSET FEs]
      BY <1>3, <2>1 DEF Miss
    <2>3. undisturbed' \in [Callers -> BOOLEAN]
      BY <1>3, Zenon DEF Miss
    <2> QED  BY <2>2, <2>3
  <1>4. ASSUME NEW c \in Callers, GoOn(c)
        PROVE  Goal
    BY <1>4 DEF GoOn
  <1>5. CASE UNCHANGED failoverVars
    BY <1>5 DEF failoverVars
  <1> QED  BY <1>1, <1>2, <1>3, <1>4, <1>5 DEF FailoverNext

-----------------------------------------------------------------------------
(* The inductive invariant. *)

\* What the invariant says of d depends on d's state and on the cursor only,
\* and on the cursor only as long as d is undisturbed.
LEMMA FailoverFrame ==
    ASSUME NEW d \in Callers, FailoverInvOf(d), call'[d] = call[d],
           failed'[d] = failed[d],
           ~undisturbed'[d] \/ (undisturbed[d] /\ currentPos' = currentPos)
    PROVE  FailoverInvOf(d)'
  BY DEF FailoverInvOf, FailedLast, FailedBefore, Waiting, BetweenAttempts,
         AvailableFE

\* A step of d itself: a call begins.
LEMMA BeginStep ==
    ASSUME FailoverTypeOK, NEW d \in Callers, FailoverInvOf(d), Begin(d)
    PROVE  FailoverInvOf(d)'
  <1>1. /\ call'[d].pc \in {"idle", "done", "attempt"}
        /\ call'[d].attempt \in {0, 1}
        /\ call'[d].result # "network"
    <2>1. call'[d] = EnteredCall \/ call'[d] = NoCall
      BY DEF FailoverTypeOK, HttpTypeOK, Begin, StartCall, DropCall
    <2>2. CASE call'[d] = EnteredCall
      BY <2>2 DEF EnteredCall, NoCall
    <2>3. CASE call'[d] = NoCall
      BY <2>3 DEF NoCall
    <2> QED  BY <2>1, <2>2, <2>3
  <1>2. failed'[d] = {}
    BY DEF FailoverTypeOK, Begin
  <1> QED  BY <1>1, <1>2 DEF FailoverInvOf, Waiting, BetweenAttempts

\* The cursor is read for the next attempt: it is one FE further.
LEMMA TryStep ==
    ASSUME FailoverTypeOK, NEW d \in Callers, FailoverInvOf(d),
           AttemptInvOf(d), Try(d)
    PROVE  FailoverInvOf(d)'
  <1> USE DEF FailoverTypeOK, HttpTypeOK
  <1> DEFINE fe == AvailableFE(currentPos)
  <1>1. fe \in FEs
    BY AvailableFENat DEF Try, Send, AttemptInvOf, InFlight
  <1>2. /\ call'[d].pc = "fe"
        /\ call'[d].fe = fe
        /\ call'[d].attempt = call[d].attempt
        /\ call'[d].result = "none"
        /\ call[d].pc = "attempt"
        /\ call[d].attempt \in Nat \ {0}
        /\ failed' = failed
        /\ currentPos' = currentPos
    BY MaxAttemptsNat DEF Try, Send, AttemptInvOf, InFlight
  <1>3. undisturbed'[d] => undisturbed[d] \/ call[d].attempt = 1
    BY DEF Try
  <1>4. ASSUME undisturbed'[d], NEW f \in FEs,
               BackDist(fe, f) \in 1 .. (call[d].attempt - 1)
        PROVE  f \in failed[d]
    <2>1. call[d].attempt > 1 /\ undisturbed[d]
      BY <1>2, <1>3, <1>4
    <2>2. /\ call[d].fe \in FEs
          /\ fe = NextFE(call[d].fe)
          /\ FailedLast(d, call[d].attempt - 1)
      BY <1>2, <2>1 DEF FailoverInvOf, BetweenAttempts
    <2>3. f # fe
      BY <1>1, <1>4 DEF BackDist, FEs
    <2>4. BackDist(fe, f) = BackDist(call[d].fe, f) + 1
      BY <2>2, <2>3, BackDistNext
    <2>5. BackDist(call[d].fe, f) < call[d].attempt - 1
      BY <1>2, <1>4, <2>2, <2>4, BackDistRange
    <2> QED  BY <2>2, <2>5 DEF FailedLast
  <1>5. failed[d] \cap Healthy = {}
    BY DEF FailoverInvOf
  <1> HIDE DEF fe
  <1>6. AvailableFE(currentPos)' = fe
    BY <1>2 DEF fe, AvailableFE
  <1> QED  BY <1>1, <1>2, <1>4, <1>5, <1>6
           DEF FailoverInvOf, FailedBefore, Waiting, BetweenAttempts

\* The attempt fails: the cursor moves on to the next FE.
LEMMA MissStep ==
    ASSUME FailoverTypeOK, NEW d \in Callers, FailoverInvOf(d),
           AttemptInvOf(d), Miss(d)
    PROVE  FailoverInvOf(d)'
  <1> USE MaxAttemptsNat DEF FailoverTypeOK, HttpTypeOK
  <1> HIDE DEF MaxAttempts
  <1>1. /\ Waiting(d)
        /\ call[d].fe \in FEs
        /\ call[d].fe \notin Healthy
        /\ call[d].attempt \in 1 .. MaxAttempts
        /\ NumFEs > 0
    BY DEF Miss, NetworkFailure, FailoverInvOf, AttemptInvOf, Waiting, InFlight
  <1>2. /\ call'[d].fe = call[d].fe
        /\ call'[d].attempt = call[d].attempt
        /\ \/ call'[d].pc = "sleep" /\ call'[d].result = "none"
           \/ /\ call'[d].pc = "done" /\ call'[d].result = "network"
              /\ call[d].attempt = MaxAttempts
    <2>1. CASE Retries(d)
      BY <1>1, <2>1 DEF Miss, NetworkFailure, AttemptInvOf, Waiting, InFlight
    <2>2. CASE ~Retries(d)
      <3>1. Return(d, "network")
        BY <2>2 DEF Miss, NetworkFailure
      <3> QED  BY <1>1, <2>2, <3>1 DEF Return, Retries
    <2> QED  BY <2>1, <2>2
  <1>3. failed'[d] = failed[d] \cup {call[d].fe}
    BY DEF Miss
  <1>4. undisturbed'[d] => undisturbed[d] /\ Seamless(currentPos)
    BY DEF Miss
  <1>5. ASSUME undisturbed'[d]
        PROVE  AvailableFE(currentPos)' = NextFE(call[d].fe)
    <2>1. AvailableFE(currentPos) = call[d].fe
      BY <1>1, <1>4, <1>5 DEF FailoverInvOf
    <2>2. currentPos' = (currentPos + 1) % Usize
      BY DEF Miss, NetworkFailure, CursorAfterFailure
    <2>3. AvailableFE((currentPos + 1) % Usize) = NextFE(AvailableFE(currentPos))
      BY <1>1, <1>4, <1>5, CursorStep
    <2> QED  BY <2>1, <2>2, <2>3 DEF AvailableFE
  <1>6. ASSUME undisturbed'[d], NEW f \in FEs,
               BackDist(call[d].fe, f) < call[d].attempt
        PROVE  f \in failed'[d]
    <2>1. CASE f = call[d].fe
      BY <1>3, <2>1
    <2>2. CASE f # call[d].fe
      <3>1. BackDist(call[d].fe, f) \in Int /\ BackDist(call[d].fe, f) >= 1
        BY <1>1, <2>2, BackDistRange, HttpAssumption
      <3>2. BackDist(call[d].fe, f) \in 1 .. (call[d].attempt - 1)
        BY <1>1, <1>6, <3>1
      <3>3. FailedBefore(d)
        BY <1>1, <1>4, <1>6 DEF FailoverInvOf
      <3> QED  BY <1>3, <3>2, <3>3 DEF FailedBefore
    <2> QED  BY <2>1, <2>2
  <1>7. failed'[d] \cap Healthy = {}
    BY <1>1, <1>3 DEF FailoverInvOf
  <1> QED  BY <1>1, <1>2, <1>5, <1>6, <1>7
           DEF FailoverInvOf, FailedLast, Waiting, BetweenAttempts

\* The call is answered, follows a redirect, ends in a bad URL or wakes up.
LEMMA GoOnStep ==
    ASSUME FailoverTypeOK, NEW d \in Callers, FailoverInvOf(d),
           AttemptInvOf(d), GoOn(d)
    PROVE  FailoverInvOf(d)'
  <1> USE DEF FailoverTypeOK, HttpTypeOK, FailoverInvOf, FailedLast,
              FailedBefore, Waiting, BetweenAttempts, AttemptInvOf, InFlight
  <1>1. CASE JoinFails(d)
    BY <1>1 DEF GoOn, JoinFails, Return
  <1>2. ASSUME NEW s \in Statuses, FEAnswers(d, s) \/ BEAnswers(d, s)
        PROVE  FailoverInvOf(d)'
    <2>1. /\ call'[d].pc = "done"
          /\ call'[d].result # "network"
      BY <1>2 DEF FEAnswers, BEAnswers, Return, Statuses
    <2>2. failed' = failed
      BY DEF GoOn
    <2> QED  BY <2>1, <2>2
  <1>3. CASE FERedirects(d)
    BY <1>3 DEF GoOn, FERedirects
  <1>4. CASE Wake(d)
    BY <1>4, MaxAttemptsNat DEF GoOn, Wake
  <1> QED  BY <1>1, <1>2, <1>3, <1>4 DEF GoOn

\* Every step keeps the invariant of every caller: its own steps by the lemmas
\* above, those of the others because they move at most the cursor.
LEMMA FailoverStep ==
    ASSUME FailoverTypeOK, AttemptInv, FailoverInv, [FailoverNext]_failoverVars
    PROVE  FailoverInv'
  <1> SUFFICES ASSUME NEW d \in Callers
               PROVE  FailoverInvOf(d)'
    BY DEF FailoverInv
  <1>0. FailoverInvOf(d) /\ AttemptInvOf(d)
    BY DEF FailoverInv, AttemptInv
  <1>1. ASSUME Begin(d) \/ Try(d) \/ Miss(d) \/ GoOn(d)
        PROVE  FailoverInvOf(d)'
    BY <1>0, <1>1, BeginStep, TryStep, MissStep, GoOnStep
  <1>2. ASSUME NEW c \in Callers, c # d, Begin(c) \/ Try(c) \/ GoOn(c)
        PROVE  FailoverInvOf(d)'
    <2>1. call'[d] = call[d]
      BY <1>2 DEF FailoverTypeOK, HttpTypeOK, Begin, Try, GoOn, StartCall,
         DropCall, Send, JoinFails, FEAnswers, BEAnswers, FERedirects, Wake, Return
    <2>2. /\ failed'[d] = failed[d]
          /\ undisturbed'[d] = undisturbed[d]
          /\ currentPos' = currentPos
      BY <1>2 DEF FailoverTypeOK, Begin, Try, GoOn, StartCall, DropCall,
         Send, JoinFails, FEAnswers, BEAnswers, FERedirects, Wake
    <2> QED  BY <1>0, <2>1, <2>2, FailoverFrame
  <1>3. ASSUME NEW c \in Callers, c # d, Miss(c)
        PROVE  FailoverInvOf(d)'
    BY <1>0, <1>3, FailoverFrame
    DEF FailoverTypeOK, HttpTypeOK, Miss, NetworkFailure, Return
  <1>4. CASE UNCHANGED failoverVars
    BY <1>0, <1>4, FailoverFrame
    DEF failoverVars, httpVars, FailoverInvOf, FailedLast, FailedBefore, Waiting,
        BetweenAttempts, AvailableFE
  <1> QED  BY <1>1, <1>2, <1>3, <1>4 DEF FailoverNext

-----------------------------------------------------------------------------
(* The theorems. *)

\* Every reachable state satisfies the inductive invariant.
THEOREM FailoverInvariant == FailoverSpec => [](FailoverTypeOK /\ AttemptInv /\ FailoverInv)
  <1>1. FailoverInit => FailoverTypeOK /\ AttemptInv /\ FailoverInv
    <2> SUFFICES ASSUME FailoverInit
                 PROVE  FailoverTypeOK /\ FailoverInv
      BY HttpInitInv DEF FailoverInit
    <2>1. HttpTypeOK
      BY HttpInitInv DEF FailoverInit
    <2>2. FailoverInv
      BY DEF FailoverInit, HttpInit, NoCall, FailoverInv, FailoverInvOf,
             Waiting, BetweenAttempts
    <2> QED  BY <2>1, <2>2 DEF FailoverTypeOK, FailoverInit
  <1>2. FailoverTypeOK /\ AttemptInv /\ FailoverInv /\ [FailoverNext]_failoverVars
        => (FailoverTypeOK /\ AttemptInv /\ FailoverInv)'
    <2> SUFFICES ASSUME FailoverTypeOK, AttemptInv, FailoverInv,
                        [FailoverNext]_failoverVars
                 PROVE  (FailoverTypeOK /\ AttemptInv /\ FailoverInv)'
      OBVIOUS
    <2>1. HttpTypeOK' /\ AttemptInv'
      BY FailoverStepIsHttpStep, HttpTypeStep, AttemptStep DEF FailoverTypeOK
    <2>2. FailoverTypeOK'
      BY <2>1, HistoryTypeStep DEF FailoverTypeOK
    <2> QED  BY <2>1, <2>2, FailoverStep
  <1> QED  BY <1>1, <1>2, PTL DEF FailoverSpec

\* The types of the client and of the history.
THEOREM FailoverTypeCorrect == FailoverSpec => []FailoverTypeOK
  BY FailoverInvariant, PTL

\* With an attempt for each FE, an undisturbed call that gives up has failed at
\* every one of them.
LEMMA InvCovers == FailoverTypeOK /\ FailoverInv => FailoverCovers
  <1> SUFFICES ASSUME FailoverTypeOK, FailoverInv, NEW c \in Callers,
                      GivesUpUndisturbed(c)
               PROVE  failed[c] = FEs
    BY DEF FailoverCovers
  <1>1. call[c].fe \in FEs /\ FailedLast(c, MaxAttempts)
    BY DEF FailoverInv, FailoverInvOf, GivesUpUndisturbed
  <1>2. failed[c] \subseteq FEs
    BY DEF FailoverTypeOK
  <1>3. ASSUME NEW f \in FEs
        PROVE  f \in failed[c]
    <2>1. BackDist(call[c].fe, f) \in 0 .. (NumFEs - 1)
      BY <1>1, BackDistRange
    <2>2. BackDist(call[c].fe, f) < MaxAttempts
      BY <2>1, MaxAttemptsNat, HttpAssumption DEF GivesUpUndisturbed
    <2> QED  BY <1>1, <2>2 DEF FailedLast
  <1> QED  BY <1>2, <1>3

\* Failover is complete: see FailoverCovers.
THEOREM FailoverIsComplete == FailoverSpec => []FailoverCovers
  BY InvCovers, FailoverInvariant, PTL

\* One healthy FE is enough for an undisturbed call with an attempt per FE.
THEOREM OneHealthyFEIsEnough == FailoverSpec => []HealthyFEServes
  <1>1. FailoverTypeOK /\ FailoverInv => HealthyFEServes
    BY InvCovers, HttpAssumption
    DEF FailoverCovers, HealthyFEServes, FailoverInv, FailoverInvOf
  <1> QED  BY <1>1, FailoverInvariant, PTL
=============================================================================
