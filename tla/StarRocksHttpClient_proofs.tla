---------------------- MODULE StarRocksHttpClient_proofs ----------------------
(***************************************************************************)
(* Proofs about StarRocksHttpClient, for any number of callers and FEs,    *)
(* any max_retries and any width of the usize.                             *)
(***************************************************************************)
EXTENDS StarRocksHttpClient, TLAPS

\* The values a call can have.
CallValues == [pc : PCs, attempt : Nat, fe : Nat,
               result : Statuses \cup Failures \cup {"none"}]

\* MaxAttempts is a number of attempts.
LEMMA MaxAttemptsNat == MaxAttempts \in Nat
  BY HttpAssumption DEF MaxAttempts

\* The cursor names a number of an FE.
LEMMA AvailableFENat ==
    ASSUME NumFEs > 0, NEW p \in Nat
    PROVE  AvailableFE(p) \in FEs
  BY HttpAssumption DEF AvailableFE, FEs

\* The types and the attempt numbers hold in the beginning.
LEMMA HttpInitInv == HttpInit => HttpTypeOK /\ AttemptInv
  BY HttpAssumption, MaxAttemptsNat
  DEF HttpInit, HttpTypeOK, AttemptInv, AttemptInvOf, InFlight, NoCall, PCs

\* Every step keeps the types: the cursor stays a usize, whatever the number
\* of failures.
LEMMA HttpTypeStep ==
    HttpTypeOK /\ AttemptInv /\ [HttpNext]_httpVars => HttpTypeOK'
  <1> SUFFICES ASSUME HttpTypeOK, AttemptInv, [HttpNext]_httpVars
               PROVE  HttpTypeOK'
    OBVIOUS
  <1> USE HttpAssumption DEF HttpTypeOK, PCs, Statuses, Failures
  <1>1. ASSUME NEW c \in Callers, StartCall(c)
        PROVE  HttpTypeOK'
    BY <1>1 DEF StartCall, EnteredCall, NoCall
  <1>2. ASSUME NEW c \in Callers, Send(c)
        PROVE  HttpTypeOK'
    <2> DEFINE fe == AvailableFE(currentPos)
    <2>1. fe \in Nat
      BY <1>2, AvailableFENat DEF Send, FEs, AttemptInv, AttemptInvOf, InFlight
    <2>2. /\ call' = [call EXCEPT ![c] = [@ EXCEPT !.pc = "fe", !.fe = fe]]
          /\ currentPos' = currentPos
      BY <1>2 DEF Send
    <2> HIDE DEF fe
    <2> QED  BY <2>1, <2>2
  <1>3. ASSUME NEW c \in Callers, JoinFails(c)
        PROVE  HttpTypeOK'
    BY <1>3 DEF JoinFails, Return
  <1>4. ASSUME NEW c \in Callers, NEW s \in Statuses, FEAnswers(c, s)
        PROVE  HttpTypeOK'
    BY <1>4 DEF FEAnswers, Return
  <1>5. ASSUME NEW c \in Callers, FERedirects(c)
        PROVE  HttpTypeOK'
    BY <1>5 DEF FERedirects
  <1>6. ASSUME NEW c \in Callers, NEW s \in Statuses, BEAnswers(c, s)
        PROVE  HttpTypeOK'
    BY <1>6 DEF BEAnswers, Return
  <1>7. ASSUME NEW c \in Callers, NetworkFailure(c)
        PROVE  HttpTypeOK'
    <2>1. currentPos' \in 0 .. (Usize - 1)
      BY <1>7 DEF NetworkFailure, CursorAfterFailure
    <2>2. call' \in [Callers -> CallValues]
      <3>1. CASE Retries(c)
        BY <1>7, <3>1 DEF NetworkFailure, CallValues
      <3>2. CASE ~Retries(c)
        <4>1. Return(c, "network")
          BY <1>7, <3>2 DEF NetworkFailure
        <4> QED  BY <4>1 DEF Return, CallValues
      <3> QED  BY <3>1, <3>2
    <2> QED  BY <2>1, <2>2 DEF CallValues
  <1>8. ASSUME NEW c \in Callers, Wake(c)
        PROVE  HttpTypeOK'
    BY <1>8 DEF Wake
  <1>9. ASSUME NEW c \in Callers, DropCall(c)
        PROVE  HttpTypeOK'
    BY <1>9 DEF DropCall, NoCall
  <1>10. CASE UNCHANGED httpVars
    BY <1>10 DEF httpVars
  <1> QED  BY <1>1, <1>2, <1>3, <1>4, <1>5, <1>6, <1>7, <1>8, <1>9, <1>10
           DEF HttpNext, CallStep

\* Every step keeps the attempt numbers right.
LEMMA AttemptStep ==
    HttpTypeOK /\ AttemptInv /\ [HttpNext]_httpVars => AttemptInv'
  <1> SUFFICES ASSUME HttpTypeOK, AttemptInv, [HttpNext]_httpVars,
                      NEW d \in Callers
               PROVE  AttemptInvOf(d)'
    BY DEF AttemptInv
  <1> USE MaxAttemptsNat DEF HttpTypeOK, AttemptInvOf, InFlight
  <1> HIDE DEF MaxAttempts
  <1>0. AttemptInvOf(d)
    BY DEF AttemptInv
  <1>1. ASSUME NEW c \in Callers, StartCall(c)
        PROVE  AttemptInvOf(d)'
    BY <1>0, <1>1, HttpAssumption DEF StartCall, EnteredCall, NoCall
  <1>2. ASSUME NEW c \in Callers, Send(c)
        PROVE  AttemptInvOf(d)'
    BY <1>0, <1>2 DEF Send
  <1>3. ASSUME NEW c \in Callers, JoinFails(c)
        PROVE  AttemptInvOf(d)'
    BY <1>0, <1>3 DEF JoinFails, Return
  <1>4. ASSUME NEW c \in Callers, NEW s \in Statuses, FEAnswers(c, s)
        PROVE  AttemptInvOf(d)'
    BY <1>0, <1>4 DEF FEAnswers, Return, Statuses
  <1>5. ASSUME NEW c \in Callers, FERedirects(c)
        PROVE  AttemptInvOf(d)'
    BY <1>0, <1>5 DEF FERedirects
  <1>6. ASSUME NEW c \in Callers, NEW s \in Statuses, BEAnswers(c, s)
        PROVE  AttemptInvOf(d)'
    BY <1>0, <1>6 DEF BEAnswers, Return, Statuses
  <1>7. ASSUME NEW c \in Callers, NetworkFailure(c)
        PROVE  AttemptInvOf(d)'
    <2>1. CASE Retries(c)
      BY <1>0, <1>7, <2>1 DEF NetworkFailure, Retries, Waiting
    <2>2. CASE ~Retries(c)
      <3>1. Return(c, "network")
        BY <1>7, <2>2 DEF NetworkFailure
      <3> QED  BY <1>0, <1>7, <2>2, <3>1
               DEF NetworkFailure, Retries, Waiting, Return
    <2> QED  BY <2>1, <2>2
  <1>8. ASSUME NEW c \in Callers, Wake(c)
        PROVE  AttemptInvOf(d)'
    BY <1>0, <1>8 DEF Wake
  <1>9. ASSUME NEW c \in Callers, DropCall(c)
        PROVE  AttemptInvOf(d)'
    BY <1>0, <1>9 DEF DropCall, NoCall
  <1>10. CASE UNCHANGED httpVars
    BY <1>0, <1>10 DEF httpVars
  <1> QED  BY <1>1, <1>2, <1>3, <1>4, <1>5, <1>6, <1>7, <1>8, <1>9, <1>10
           DEF HttpNext, CallStep

-----------------------------------------------------------------------------
\* Every reachable state satisfies the inductive invariant.
THEOREM HttpInvariant == HttpSpec => [](HttpTypeOK /\ AttemptInv)
  BY HttpInitInv, HttpTypeStep, AttemptStep, PTL DEF HttpSpec

\* The types are right, in particular the cursor stays within its width.
THEOREM HttpTypeCorrect == HttpSpec => []HttpTypeOK
  BY HttpInvariant, PTL

\* What the invariant says of the work of a call.
LEMMA InvBounded == HttpTypeOK /\ AttemptInv => BoundedWork
  BY HttpAssumption, MaxAttemptsNat
  DEF HttpTypeOK, AttemptInv, AttemptInvOf, BoundedWork, InFlight, PCs

\* No call makes more than MaxAttempts attempts or sleeps after its last one,
\* and a network error is reported with the last attempt only.
THEOREM WorkIsBounded == HttpSpec => []BoundedWork
  BY HttpInvariant, InvBounded, PTL

-----------------------------------------------------------------------------
(* Where a call goes, it is nearer to its end. *)

\* The steps a call has left are a number, of four for each attempt at most.
LEMMA StepsLeftNat ==
    ASSUME HttpTypeOK, AttemptInv, NEW c \in Callers, InFlight(c)
    PROVE  StepsLeft(c) \in Nat /\ StepsLeft(c) < 4 * MaxAttempts
  <1>1. call[c].attempt \in 1 .. MaxAttempts /\ MaxAttempts \in Nat
    BY MaxAttemptsNat DEF AttemptInv, AttemptInvOf
  <1> HIDE DEF MaxAttempts
  <1>2. 4 * (MaxAttempts - call[c].attempt) \in Nat
        /\ 4 * (MaxAttempts - call[c].attempt) <= 4 * MaxAttempts - 4
    BY <1>1
  <1> QED  BY <1>1, <1>2 DEF StepsLeft

LEMMA ReturnEnds ==
    ASSUME HttpTypeOK, NEW c \in Callers, NEW r, Return(c, r)
    PROVE  ~InFlight(c)'
  <1>1. call'[c].pc = "done"
    BY DEF HttpTypeOK, Return
  <1> QED  BY <1>1 DEF InFlight

\* A step of the call itself takes one of them at least.
LEMMA StepTaken ==
    ASSUME HttpTypeOK, AttemptInv, NEW c \in Callers, CallStep(c), InFlight(c), InFlight(c)'
    PROVE  StepsLeft(c)' < StepsLeft(c)
  <1>1. call[c].attempt \in 1 .. MaxAttempts /\ MaxAttempts \in Nat
    BY MaxAttemptsNat DEF AttemptInv, AttemptInvOf
  <1> USE DEF HttpTypeOK
  <1> HIDE DEF MaxAttempts
  <1> DEFINE left == 4 * (MaxAttempts - call[c].attempt)
  <1>2. left \in Nat
    BY <1>1
  <1>3. CASE Send(c)
    <2>1. call[c].pc = "attempt" /\ call'[c].pc = "fe" /\ call'[c].attempt = call[c].attempt
      BY <1>3 DEF Send
    <2>2. StepsLeft(c) = left + 3 /\ StepsLeft(c)' = left + 2
      BY <2>1 DEF StepsLeft, MaxAttempts
    <2> QED  BY <1>2, <2>2
  <1>4. CASE FERedirects(c)
    <2>1. call[c].pc = "fe" /\ call'[c].pc = "be" /\ call'[c].attempt = call[c].attempt
      BY <1>4 DEF FERedirects
    <2>2. StepsLeft(c) = left + 2 /\ StepsLeft(c)' = left + 1
      BY <2>1 DEF StepsLeft, MaxAttempts
    <2> QED  BY <1>2, <2>2
  <1>5. CASE NetworkFailure(c)
    <2>1. Retries(c)
      BY <1>5, ReturnEnds DEF NetworkFailure
    <2>2. Waiting(c) /\ call'[c].pc = "sleep" /\ call'[c].attempt = call[c].attempt
      BY <1>5, <2>1 DEF NetworkFailure
    <2>3. StepsLeft(c) \in {left + 1, left + 2} /\ StepsLeft(c)' = left + 0
      BY <2>2 DEF StepsLeft, MaxAttempts, Waiting
    <2> QED  BY <1>2, <2>3
  <1>6. CASE Wake(c)
    <2>1. call[c].pc = "sleep" /\ call'[c].pc = "attempt"
          /\ call'[c].attempt = call[c].attempt + 1
      BY <1>6 DEF Wake
    <2>2. StepsLeft(c) = left + 0
          /\ StepsLeft(c)' = 4 * (MaxAttempts - (call[c].attempt + 1)) + 3
      BY <2>1 DEF StepsLeft, MaxAttempts
    <2> QED  BY <1>1, <2>2
  <1>7. ASSUME JoinFails(c) \/ \E s \in Statuses : FEAnswers(c, s) \/ BEAnswers(c, s)
        PROVE  FALSE
    BY <1>7, ReturnEnds DEF JoinFails, FEAnswers, BEAnswers
  <1> QED  BY <1>3, <1>4, <1>5, <1>6, <1>7 DEF CallStep

\* A call under way takes a step, or nothing happens to it.
LEMMA OwnStepOnly ==
    ASSUME HttpTypeOK, [HttpNext]_httpVars, NEW c \in Callers, call'[c] # call[c],
           InFlight(c), InFlight(c)'
    PROVE  CallStep(c)
  <1>1. ASSUME NEW d \in Callers, CallStep(d), d # c
        PROVE  call'[c] = call[c]
    BY <1>1 DEF HttpTypeOK, CallStep, Send, JoinFails, FEAnswers, FERedirects, BEAnswers,
                NetworkFailure, Wake, Return
  <1>2. ASSUME NEW d \in Callers, StartCall(d) \/ DropCall(d)
        PROVE  d # c /\ call'[c] = call[c]
    BY <1>2 DEF HttpTypeOK, StartCall, DropCall, InFlight, NoCall
  <1> QED  BY <1>1, <1>2 DEF HttpNext, httpVars

\* Whatever FEs and BEs answer and other callers do to the cursor, a call
\* takes less than 4 * MaxAttempts steps after its first, and then returns.
THEOREM CallsComeToAnEnd == HttpSpec => CallsWindDown
  <1>1. ASSUME HttpTypeOK, AttemptInv, HttpTypeOK', AttemptInv', [HttpNext]_httpVars
        PROVE  \A c \in Callers :
                   InFlight(c) /\ InFlight(c)' /\ call'[c] # call[c]
                       => StepsLeft(c)' \in 0 .. (StepsLeft(c) - 1)
    <2> SUFFICES ASSUME NEW c \in Callers, InFlight(c), InFlight(c)', call'[c] # call[c]
                 PROVE  StepsLeft(c)' \in 0 .. (StepsLeft(c) - 1)
      OBVIOUS
    <2>1. StepsLeft(c)' < StepsLeft(c)
      BY <1>1, OwnStepOnly, StepTaken
    <2>2. StepsLeft(c) \in Nat
      BY <1>1, StepsLeftNat
    <2>3. StepsLeft(c)' \in Nat
      <3>1. call'[c].attempt \in 1 .. MaxAttempts /\ MaxAttempts \in Nat
        BY <1>1, MaxAttemptsNat DEF AttemptInv, AttemptInvOf
      <3>2. 4 * (MaxAttempts - call'[c].attempt) \in Nat
        BY <3>1
      <3> QED  BY <3>2 DEF StepsLeft, MaxAttempts
    <2> QED  BY <2>1, <2>2, <2>3
  <1> QED  BY <1>1, HttpInvariant, PTL DEF HttpSpec, CallsWindDown
=============================================================================
