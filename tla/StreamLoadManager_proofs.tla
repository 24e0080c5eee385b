----------------------- MODULE StreamLoadManager_proofs -----------------------
(***************************************************************************)
(* Proofs about StreamLoadManager, for any number of callers, FEs, labels, *)
(* chunks and invocations: an Ok can be believed for ever, the manager     *)
(* implements LoadContract, and retries store a chunk no more often than   *)
(* its invocations have attempts.                                          *)
(***************************************************************************)
EXTENDS StreamLoadManager, StarRocksHttpClient_proofs, StarRocksServer_proofs,
        FiniteSetTheorems

-----------------------------------------------------------------------------
(* The manager's steps are steps of the HTTP layer, or leave it alone. *)

\* What the HTTP layer does in a step of the manager.
LEMMA StepIsHttpStep == [Next]_vars => [HttpNext]_httpVars
  BY DEF Next, vars, HttpNext, CallStep, Invoke, RefuseLabel, Transmit, Execute,
         Redirect, Answer, UrlError, Fail, RetryLater, Drop, ExecuteLate,
         PassDeadline

\* Every behaviour of the manager is one of StarRocksHttpClient, so that what
\* is proved there (WorkIsBounded) holds of every operation.
THEOREM ManagerRefinesHttp == Spec => HttpSpec
  <1>1. Init => HttpInit
    BY DEF Init
  <1> QED  BY <1>1, StepIsHttpStep, PTL DEF Spec, HttpSpec

\* What a step of the HTTP layer does to the call that makes it.
LEMMA CallProgress ==
    ASSUME HttpTypeOK, NEW c \in Callers
    PROVE  /\ StartCall(c) =>
                /\ ~InFlight(c)
                /\ InFlight(c)' <=> EnteredCall.pc # "done"
           /\ Send(c) \/ FERedirects(c) \/ Wake(c) => InFlight(c) /\ InFlight(c)'
           /\ JoinFails(c) \/ DropCall(c) => InFlight(c) /\ ~InFlight(c)'
           /\ \A s \in Statuses : FEAnswers(c, s) \/ BEAnswers(c, s) =>
                InFlight(c) /\ ~InFlight(c)'
           /\ NetworkFailure(c) => InFlight(c) /\ (InFlight(c)' <=> Retries(c))
  <1> USE DEF HttpTypeOK, InFlight
  <1>1. StartCall(c) => ~InFlight(c) /\ (InFlight(c)' <=> EnteredCall.pc # "done")
    BY DEF StartCall, EnteredCall, NoCall
  <1>2. Send(c) \/ FERedirects(c) \/ Wake(c) => InFlight(c) /\ InFlight(c)'
    <2>1. Send(c) => InFlight(c) /\ InFlight(c)'
      BY DEF Send
    <2>2. FERedirects(c) => InFlight(c) /\ InFlight(c)'
      BY DEF FERedirects
    <2>3. Wake(c) => InFlight(c) /\ InFlight(c)'
      BY DEF Wake
    <2> QED  BY <2>1, <2>2, <2>3
  <1>3. JoinFails(c) \/ DropCall(c) => InFlight(c) /\ ~InFlight(c)'
    <2>1. JoinFails(c) => InFlight(c) /\ ~InFlight(c)'
      BY DEF JoinFails, Return
    <2>2. DropCall(c) => InFlight(c) /\ ~InFlight(c)'
      BY DEF DropCall, NoCall, Waiting
    <2> QED  BY <2>1, <2>2
  <1>4. \A s \in Statuses : FEAnswers(c, s) \/ BEAnswers(c, s) =>
            InFlight(c) /\ ~InFlight(c)'
    <2>1. ASSUME NEW s \in Statuses, FEAnswers(c, s)
          PROVE  InFlight(c) /\ ~InFlight(c)'
      BY <2>1 DEF FEAnswers, Return
    <2>2. ASSUME NEW s \in Statuses, BEAnswers(c, s)
          PROVE  InFlight(c) /\ ~InFlight(c)'
      BY <2>2 DEF BEAnswers, Return
    <2> QED  BY <2>1, <2>2
  <1>5. ASSUME NetworkFailure(c)
        PROVE  InFlight(c) /\ (InFlight(c)' <=> Retries(c))
    <2>1. InFlight(c)
      BY <1>5 DEF NetworkFailure, Waiting
    <2>2. CASE Retries(c)
      BY <1>5, <2>1, <2>2 DEF NetworkFailure
    <2>3. CASE ~Retries(c)
      <3>1. Return(c, "network")
        BY <1>5, <2>3 DEF NetworkFailure
      <3> QED  BY <2>1, <2>3, <3>1 DEF Return
    <2> QED  BY <2>1, <2>2, <2>3
  <1> QED  BY <1>1, <1>2, <1>3, <1>4, <1>5

\* A step of one call leaves the other calls alone.
LEMMA OthersWait ==
    ASSUME HttpTypeOK, NEW c \in Callers, NEW d \in Callers, d # c,
           \/ StartCall(c) \/ Send(c) \/ JoinFails(c) \/ FERedirects(c)
           \/ NetworkFailure(c) \/ Wake(c) \/ DropCall(c)
           \/ \E s \in Statuses : FEAnswers(c, s) \/ BEAnswers(c, s)
    PROVE  InFlight(d)' <=> InFlight(d)
  <1>1. call'[d] = call[d]
    BY DEF HttpTypeOK, StartCall, Send, JoinFails, FERedirects, NetworkFailure,
           Wake, DropCall, FEAnswers, BEAnswers, Return
  <1> QED  BY <1>1 DEF InFlight

-----------------------------------------------------------------------------
(* What the manager asks of the server. *)

\* What the manager sends is a request the server knows.
LEMMA RequestsAreOperations == Requests \subseteq Operations
  <1> SUFFICES ASSUME NEW l \in Labels, NEW d \in Chunks
               PROVE  {send_single_batch(l, d), load_transaction_data(l, d),
                       begin_transaction(l), prepare_transaction(l),
                       commit_transaction(l), rollback_transaction(l),
                       get_load_status(l), cancel_load(l)} \subseteq Operations
    BY DEF Requests
  <1>1. {send_single_batch(l, d), load_transaction_data(l, d)} \subseteq Operations
    BY DEF Operations, send_single_batch, load_transaction_data
  <1>2. {begin_transaction(l), prepare_transaction(l), commit_transaction(l),
         rollback_transaction(l), get_load_status(l), cancel_load(l)}
            \subseteq Operations
    BY DEF Operations, Kinds, begin_transaction, prepare_transaction,
           commit_transaction, rollback_transaction, get_load_status, cancel_load
  <1> QED  BY <1>1, <1>2

\* A reply that the manager accepts is only given once the effect is there.
LEMMA ServeAchieves ==
    ASSUME ServerTypeOK, NEW o \in Operations, NEW r \in Accepted(o), Serve(o, r)
    PROVE  Achieved(o)'
  <1> USE OperationFields DEF ServerTypeOK, Records, LabelStates, Achieved, Accepted
  <1>1. CASE Refuse(r)
    BY <1>1 DEF Refuse
  <1>2. CASE ServeV1(o, r)
    <2>1. Store(o.label, o.chunk)[o.chunk] > 0
      BY <1>2, StoreGrows DEF ServeV1
    <2> QED  BY <1>2, <2>1 DEF ServeV1
  <1>3. CASE ServeBegin(o, r)
    BY <1>3 DEF ServeBegin
  <1>4. CASE ServeLoad(o, r)
    <2>1. Store(o.label, o.chunk)[o.chunk] > 0
      BY <1>4, StoreGrows DEF ServeLoad
    <2> QED  BY <1>4, <2>1 DEF ServeLoad
  <1>5. CASE ServePrepare(o, r)
    BY <1>5 DEF ServePrepare, Become
  <1>6. CASE ServeCommit(o, r)
    BY <1>6 DEF ServeCommit, Become
  <1>7. CASE ServeAbort(o, r)
    BY <1>7 DEF ServeAbort, Become
  <1>8. CASE ServeStatus(o, r)
    BY <1>8 DEF ServeStatus
  <1> QED  BY <1>1, <1>2, <1>3, <1>4, <1>5, <1>6, <1>7, <1>8 DEF Serve

-----------------------------------------------------------------------------
(* The types. *)

\* Nothing was asked, nothing is stored.
LEMMA ManagerInitInv == Init => ManagerTypeOK /\ ManagerInv
  <1> SUFFICES ASSUME Init
               PROVE  ManagerTypeOK /\ ManagerInv
    OBVIOUS
  <1>1. ServerTypeOK
    BY ServerInitOK DEF Init
  <1>2. ManagerTypeOK
    BY <1>1 DEF Init, ManagerTypeOK, Outcomes
  <1>3. ASSUME NEW c \in Callers
        PROVE  CallerInvOf(c)
    <2>1. ~InFlight(c) /\ op[c] = NoOp /\ outcome[c] = "none" /\ reply[c] = "none"
      BY DEF Init, HttpInit, InFlight, NoCall
    <2>2. "none" \notin Accepted(NoOp)
      BY DEF Accepted, NoOp
    <2> QED  BY <2>1, <2>2 DEF CallerInvOf
  <1>4. ASSUME NEW o \in Requests
        PROVE  ~(late[o] > 0)
    BY DEF Init
  <1> QED  BY <1>2, <1>3, <1>4 DEF ManagerInv

\* Every step keeps the types.
LEMMA ManagerTypeStep ==
    ASSUME ManagerTypeOK, ManagerInv, [Next]_vars
    PROVE  ManagerTypeOK'
  <1> USE DEF ManagerTypeOK, Outcomes
  <1>1. ASSUME NEW c \in Callers, NEW o \in Requests, Invoke(c, o)
        PROVE  ManagerTypeOK'
    <2>1. ServerTypeOK'
      BY <1>1 DEF Invoke, ServerTypeOK
    <2> QED  BY <1>1, <2>1 DEF Invoke
  <1>2. ASSUME NEW c \in Callers, NEW o \in Requests, RefuseLabel(c, o)
        PROVE  ManagerTypeOK'
    <2>1. ServerTypeOK'
      BY <1>2 DEF RefuseLabel, ServerTypeOK
    <2> QED  BY <1>2, <2>1 DEF RefuseLabel
  <1>3. ASSUME NEW c \in Callers, Transmit(c)
        PROVE  ManagerTypeOK'
    BY <1>3 DEF Transmit, ServerTypeOK
  <1>4. ASSUME NEW c \in Callers, Execute(c)
        PROVE  ManagerTypeOK'
    <2>1. op[c] \in Operations
      BY <1>4, RequestsAreOperations
      DEF Execute, Outstanding, Waiting, InFlight, ManagerInv, CallerInvOf
    <2>2. PICK r \in Replies : Serve(op[c], r) /\ reply' = [reply EXCEPT ![c] = r]
      BY <1>4 DEF Execute
    <2>3. ServerTypeOK'
      BY <2>1, <2>2, ServeAdvances
    <2> QED  BY <1>4, <2>2, <2>3 DEF Execute
  <1>5. ASSUME NEW c \in Callers, Redirect(c) \/ RetryLater(c)
        PROVE  ManagerTypeOK'
    BY <1>5 DEF Redirect, RetryLater, ServerTypeOK
  <1>6. ASSUME NEW c \in Callers, Answer(c)
        PROVE  ManagerTypeOK'
    <2>1. PICK s \in Statuses : \E r \in OutcomesOf(c, s) :
              /\ outcome' = [outcome EXCEPT ![c] = r]
              /\ UNCHANGED <<server, op, reply, late, invoked>>
      BY <1>6 DEF Answer
    <2>2. OutcomesOf(c, s) \subseteq {"ok", "err", "dropped"}
      BY DEF OutcomesOf
    <2> QED  BY <2>1, <2>2 DEF ServerTypeOK
  <1>7. ASSUME NEW c \in Callers, UrlError(c)
        PROVE  ManagerTypeOK'
    BY <1>7 DEF UrlError, ServerTypeOK
  <1>8. ASSUME NEW c \in Callers, Abandon(c), InFlight(c)
        PROVE  late' \in [Requests -> Nat]
    <2>1. op[c] \in Requests
      BY <1>8 DEF ManagerInv, CallerInvOf
    <2> QED  BY <1>8, <2>1 DEF Abandon
  <1>9. ASSUME NEW c \in Callers, Fail(c) \/ Drop(c)
        PROVE  ManagerTypeOK'
    <2>1. InFlight(c)
      BY <1>9 DEF Fail, Drop, NetworkFailure, DropCall, Waiting, InFlight
    <2>2. late' \in [Requests -> Nat]
      BY <1>8, <1>9, <2>1 DEF Fail, Drop
    <2> QED  BY <1>9, <2>2 DEF Fail, Drop, ServerTypeOK
  <1>10. ASSUME NEW o \in Requests, ExecuteLate(o)
         PROVE  ManagerTypeOK'
    <2>1. ServerTypeOK'
      BY <1>10, RequestsAreOperations, ServeAdvances DEF ExecuteLate
    <2>2. late' \in [Requests -> Nat]
      BY <1>10 DEF ExecuteLate
    <2> QED  BY <1>10, <2>1, <2>2 DEF ExecuteLate
  <1>11. ASSUME NEW l \in Labels, PassDeadline(l)
         PROVE  ManagerTypeOK'
    <2>1. ServerTypeOK'
      BY <1>11, ExpireAdvances DEF PassDeadline
    <2> QED  BY <1>11, <2>1 DEF PassDeadline
  <1>12. CASE UNCHANGED vars
    BY <1>12 DEF vars, ServerTypeOK
  <1> QED  BY <1>1, <1>2, <1>3, <1>4, <1>5, <1>6, <1>7, <1>9, <1>10, <1>11,
              <1>12 DEF Next

-----------------------------------------------------------------------------
(* The invariant. *)

\* Nothing is taken back: labels advance, requests stay counted.
Onward ==
    /\ \A k \in Labels : Advances(server[k], server'[k])
    /\ \A o \in Requests : invoked[o] <= invoked'[o]

\* Every step of the manager goes onward.
LEMMA StepIsOnward ==
    ASSUME ManagerTypeOK, ManagerInv, [Next]_vars
    PROVE  Onward
  <1> USE DEF Onward, ManagerTypeOK
  <1>1. UNCHANGED server => \A k \in Labels : Advances(server[k], server'[k])
    BY DEF Advances, ServerTypeOK, Records
  <1>2. ASSUME UNCHANGED <<server, invoked>>
        PROVE  Onward
    BY <1>1, <1>2
  <1>3. ASSUME NEW c \in Callers, NEW o \in Requests, Invoke(c, o)
        PROVE  Onward
    BY <1>1, <1>3 DEF Invoke
  <1>4. ASSUME NEW o \in Operations, NEW r, Serve(o, r), UNCHANGED invoked
        PROVE  Onward
    BY <1>4, ServeAdvances
  <1>5. ASSUME NEW c \in Callers, Execute(c)
        PROVE  Onward
    <2>1. op[c] \in Operations
      BY <1>5, RequestsAreOperations
      DEF Execute, Outstanding, Waiting, InFlight, ManagerInv, CallerInvOf
    <2> QED  BY <1>4, <1>5, <2>1 DEF Execute
  <1>6. ASSUME NEW o \in Requests, ExecuteLate(o)
        PROVE  Onward
    BY <1>4, <1>6, RequestsAreOperations DEF ExecuteLate
  <1>7. ASSUME NEW l \in Labels, PassDeadline(l)
        PROVE  Onward
    BY <1>7, ExpireAdvances DEF PassDeadline
  <1> QED  BY <1>2, <1>3, <1>5, <1>6, <1>7
           DEF Next, RefuseLabel, Transmit, Redirect, Answer, UrlError, Fail,
               RetryLater, Drop, vars

\* What a caller's operation has achieved stays achieved.
LEMMA OpAchievedStays ==
    ASSUME ManagerTypeOK, ManagerTypeOK', Onward, NEW d \in Callers,
           op'[d] = op[d], Achieved(op[d])
    PROVE  Achieved(op[d])'
  <1>1. op[d] \in Operations \cup {NoOp}
    BY RequestsAreOperations DEF ManagerTypeOK
  <1>2. ASSUME NEW o \in Operations \cup {NoOp}, Achieved(o)
        PROVE  Achieved(o)'
    BY <1>2, AchievedStays DEF ManagerTypeOK, Onward, Achieved, NoOp
  <1>3. Achieved(op[d])' <=> \E o \in {op[d]} : Achieved(o)'
    BY DEF Achieved
  <1> QED  BY <1>1, <1>2, <1>3

\* A caller whose own variables do not change is as well off as before.
LEMMA CallerFrame ==
    ASSUME ManagerTypeOK, ManagerTypeOK', Onward,
           NEW d \in Callers, CallerInvOf(d),
           op'[d] = op[d], reply'[d] = reply[d], outcome'[d] = outcome[d],
           InFlight(d)' <=> InFlight(d)
    PROVE  CallerInvOf(d)'
  <1>1. InFlight(d)' => op'[d] \in Requests /\ invoked'[op'[d]] > 0
    BY DEF CallerInvOf, Onward, ManagerTypeOK
  <1>2. reply'[d] \in Accepted(op'[d]) => Achieved(op[d])'
    BY OpAchievedStays DEF CallerInvOf
  <1>3. outcome'[d] = "ok" => Achieved(op[d])'
    BY OpAchievedStays DEF CallerInvOf
  <1> QED  BY <1>1, <1>2, <1>3 DEF CallerInvOf

\* A caller whose operation goes on, or ends without an Ok.
LEMMA CallerGoesOn ==
    ASSUME ManagerTypeOK, ManagerTypeOK', Onward,
           NEW d \in Callers, CallerInvOf(d), InFlight(d),
           op'[d] = op[d], reply'[d] \in {reply[d], "none"},
           \/ InFlight(d)' /\ outcome'[d] = outcome[d]
           \/ ~InFlight(d)' /\ outcome'[d] \in {"err", "dropped"}
    PROVE  CallerInvOf(d)'
  <1>1. InFlight(d)' =>
            op'[d] \in Requests /\ invoked'[op'[d]] > 0 /\ outcome'[d] = "none"
    BY DEF CallerInvOf, Onward, ManagerTypeOK
  <1>2. reply'[d] \in Accepted(op'[d]) => Achieved(op[d])'
    <2>1. "none" \notin Accepted(op[d])
      BY DEF Accepted, Replies
    <2> QED  BY <2>1, OpAchievedStays DEF CallerInvOf
  <1>3. outcome'[d] # "ok"
    BY DEF CallerInvOf
  <1> QED  BY <1>1, <1>2, <1>3 DEF CallerInvOf

\* The step of a caller keeps what is known of it.
LEMMA OwnStep ==
    ASSUME HttpTypeOK, HttpTypeOK', ManagerTypeOK, ManagerTypeOK', Onward,
           NEW d \in Callers, CallerInvOf(d),
           \/ \E o \in Requests : Invoke(d, o) \/ RefuseLabel(d, o)
           \/ Transmit(d) \/ Execute(d) \/ Redirect(d) \/ Answer(d)
           \/ UrlError(d) \/ Fail(d) \/ RetryLater(d) \/ Drop(d)
    PROVE  CallerInvOf(d)'
  <1>1. ASSUME NEW o \in Requests, Invoke(d, o)
        PROVE  CallerInvOf(d)'
    <2>1. InFlight(d)' <=> EnteredCall.pc # "done"
      BY <1>1, CallProgress DEF Invoke
    <2>2. op'[d] = o /\ reply'[d] = "none" /\ invoked'[o] > 0
      BY <1>1 DEF Invoke, ManagerTypeOK
    <2>3. outcome'[d] = IF EnteredCall.pc = "done" THEN "err" ELSE "none"
      BY <1>1 DEF Invoke, ManagerTypeOK
    <2>4. "none" \notin Accepted(o)
      BY DEF Accepted, Replies
    <2> QED  BY <2>1, <2>2, <2>3, <2>4 DEF CallerInvOf
  <1>2. ASSUME NEW o \in Requests, RefuseLabel(d, o)
        PROVE  CallerInvOf(d)'
    <2>1. ~InFlight(d)'
      BY <1>2 DEF RefuseLabel, InFlight, httpVars
    <2>2. op'[d] = o /\ reply'[d] = "none" /\ outcome'[d] = "err"
      BY <1>2 DEF RefuseLabel, ManagerTypeOK
    <2>3. "none" \notin Accepted(o)
      BY DEF Accepted, Replies
    <2> QED  BY <2>1, <2>2, <2>3 DEF CallerInvOf
  <1>3. ASSUME Transmit(d) \/ Redirect(d) \/ RetryLater(d)
        PROVE  CallerInvOf(d)'
    <2>1. InFlight(d) /\ InFlight(d)'
      BY <1>3, CallProgress DEF Transmit, Redirect, RetryLater
    <2>2. /\ op'[d] = op[d] /\ outcome'[d] = outcome[d]
          /\ reply'[d] \in {reply[d], "none"}
      BY <1>3 DEF Transmit, Redirect, RetryLater, ManagerTypeOK
    <2> QED  BY <2>1, <2>2, CallerGoesOn
  <1>4. CASE Execute(d)
    <2>1. InFlight(d) /\ InFlight(d)'
      BY <1>4 DEF Execute, Outstanding, Waiting, InFlight, httpVars
    <2>2. op'[d] = op[d] /\ op[d] \in Operations /\ outcome'[d] = outcome[d]
      BY <1>4, <2>1, RequestsAreOperations DEF Execute, CallerInvOf
    <2>3. PICK r \in Replies : Serve(op[d], r) /\ reply' = [reply EXCEPT ![d] = r]
      BY <1>4 DEF Execute
    <2>4. reply'[d] = r
      BY <2>3 DEF ManagerTypeOK
    <2>5. r \in Accepted(op[d]) => Achieved(op[d])'
      <3>1. ASSUME NEW o \in Operations, o = op[d], r \in Accepted(o)
            PROVE  Achieved(o)'
        BY <2>3, <3>1, ServeAchieves DEF ManagerTypeOK
      <3>2. Achieved(op[d])' <=> \E o \in {op[d]} : Achieved(o)'
        BY <2>2 DEF Achieved
      <3> QED  BY <2>2, <3>1, <3>2
    <2>6. invoked'[op'[d]] > 0 /\ op'[d] \in Requests /\ outcome'[d] = "none"
      BY <1>4, <2>1, <2>2 DEF Execute, CallerInvOf
    <2> QED  BY <2>1, <2>2, <2>4, <2>5, <2>6 DEF CallerInvOf
  <1>5. CASE Answer(d)
    <2>1. PICK s \in Statuses :
              /\ FEAnswers(d, s) \/ BEAnswers(d, s)
              /\ \E r \in OutcomesOf(d, s) : outcome' = [outcome EXCEPT ![d] = r]
              /\ UNCHANGED <<server, op, reply, late, invoked>>
      BY <1>5 DEF Answer
    <2>2. InFlight(d) /\ ~InFlight(d)'
      BY <2>1, CallProgress
    <2>3. \/ outcome'[d] \in {"err", "dropped"}
          \/ outcome'[d] = "ok" /\ reply[d] \in Accepted(op[d])
      BY <2>1 DEF OutcomesOf, ManagerTypeOK
    <2>4. CASE outcome'[d] \in {"err", "dropped"}
      BY <2>1, <2>2, <2>4, CallerGoesOn
    <2>5. CASE outcome'[d] = "ok" /\ reply[d] \in Accepted(op[d])
      <3>1. Achieved(op[d])'
        BY <2>1, <2>5, OpAchievedStays DEF CallerInvOf
      <3> QED  BY <2>1, <2>2, <2>5, <3>1 DEF CallerInvOf
    <2> QED  BY <2>3, <2>4, <2>5
  <1>6. ASSUME UrlError(d) \/ Drop(d)
        PROVE  CallerInvOf(d)'
    <2>1. InFlight(d) /\ ~InFlight(d)'
      BY <1>6, CallProgress DEF UrlError, Drop
    <2>2. /\ op'[d] = op[d] /\ reply'[d] = reply[d]
          /\ outcome'[d] \in {"err", "dropped"}
      BY <1>6 DEF UrlError, Drop, ManagerTypeOK
    <2> QED  BY <2>1, <2>2, CallerGoesOn
  <1>7. CASE Fail(d)
    <2>1. InFlight(d) /\ (InFlight(d)' <=> Retries(d))
      BY <1>7, CallProgress DEF Fail
    <2>2. /\ op'[d] = op[d] /\ reply'[d] = reply[d]
          /\ outcome'[d] = IF Retries(d) THEN "none" ELSE "err"
      BY <1>7 DEF Fail, ManagerTypeOK
    <2>3. outcome[d] = "none"
      BY <2>1 DEF CallerInvOf
    <2> QED  BY <2>1, <2>2, <2>3, CallerGoesOn
  <1> QED  BY <1>1, <1>2, <1>3, <1>4, <1>5, <1>6, <1>7

\* Every step keeps the invariant.
LEMMA ManagerStep ==
    ASSUME HttpTypeOK, HttpTypeOK', ManagerTypeOK, ManagerTypeOK', ManagerInv,
           [Next]_vars
    PROVE  ManagerInv'
  <1> USE DEF ManagerTypeOK
  <1>0. Onward
    BY StepIsOnward
  <1>1. ASSUME NEW d \in Callers
        PROVE  CallerInvOf(d)'
    <2>0. CallerInvOf(d)
      BY DEF ManagerInv
    <2>1. ASSUME NEW c \in Callers, c # d,
                 \/ \E o \in Requests : Invoke(c, o)
                 \/ Transmit(c) \/ Redirect(c) \/ Answer(c)
                 \/ UrlError(c) \/ Fail(c) \/ RetryLater(c) \/ Drop(c)
          PROVE  CallerInvOf(d)'
      <3>1. InFlight(d)' <=> InFlight(d)
        BY <2>1, OthersWait DEF Invoke, Transmit, Redirect, Answer, UrlError, Fail,
           RetryLater, Drop
      <3>2. op'[d] = op[d] /\ reply'[d] = reply[d] /\ outcome'[d] = outcome[d]
        BY <2>1 DEF Invoke, Transmit, Redirect, Answer, UrlError, Fail,
           RetryLater, Drop
      <3> QED  BY <1>0, <2>0, <3>1, <3>2, CallerFrame
    <2>2. ASSUME NEW c \in Callers, c # d,
                 Execute(c) \/ \E o \in Requests : RefuseLabel(c, o)
          PROVE  CallerInvOf(d)'
      <3>1. InFlight(d)' <=> InFlight(d)
        BY <2>2 DEF Execute, RefuseLabel, httpVars, InFlight
      <3>2. op'[d] = op[d] /\ reply'[d] = reply[d] /\ outcome'[d] = outcome[d]
        BY <2>2 DEF Execute, RefuseLabel
      <3> QED  BY <1>0, <2>0, <3>1, <3>2, CallerFrame
    <2>3. ASSUME \/ \E o \in Requests : ExecuteLate(o)
                 \/ \E l \in Labels : PassDeadline(l)
                 \/ UNCHANGED vars
          PROVE  CallerInvOf(d)'
      <3>1. InFlight(d)' <=> InFlight(d)
        BY <2>3 DEF ExecuteLate, PassDeadline, vars, httpVars, InFlight
      <3>2. op'[d] = op[d] /\ reply'[d] = reply[d] /\ outcome'[d] = outcome[d]
        BY <2>3 DEF ExecuteLate, PassDeadline, vars
      <3> QED  BY <1>0, <2>0, <3>1, <3>2, CallerFrame
    <2> QED  BY <1>0, <2>0, <2>1, <2>2, <2>3, OwnStep DEF Next
  <1>2. ASSUME NEW o \in Requests, late'[o] > 0
        PROVE  invoked'[o] > 0
    <2>1. late[o] > 0 => invoked'[o] > 0
      BY <1>0 DEF Onward, ManagerInv
    <2>2. ASSUME NEW c \in Callers, Abandon(c), InFlight(c)
          PROVE  invoked'[o] > 0
      <3>1. op[c] \in Requests /\ invoked[op[c]] > 0
        BY <2>2 DEF ManagerInv, CallerInvOf
      <3>2. late' = late \/ late' = [late EXCEPT ![op[c]] = @ + 1]
        BY <2>2 DEF Abandon
      <3> QED  BY <1>0, <1>2, <2>1, <3>1, <3>2 DEF Onward
    <2>3. ASSUME NEW c \in Callers, Fail(c) \/ Drop(c)
          PROVE  invoked'[o] > 0
      <3>1. InFlight(c) /\ Abandon(c)
        BY <2>3 DEF Fail, Drop, NetworkFailure, DropCall, Waiting, InFlight
      <3> QED  BY <2>2, <3>1
    <2>4. ASSUME NEW p \in Requests, ExecuteLate(p)
          PROVE  invoked'[o] > 0
      BY <1>2, <2>1, <2>4 DEF ExecuteLate
    <2> QED  BY <1>2, <2>1, <2>3, <2>4
             DEF Next, Invoke, RefuseLabel, Transmit, Execute, Redirect, Answer,
                 UrlError, RetryLater, PassDeadline, vars
  <1> QED  BY <1>1, <1>2 DEF ManagerInv

-----------------------------------------------------------------------------
(* The theorems. *)

\* Every reachable state satisfies the inductive invariant.
THEOREM ManagerInvariant == Spec => [](HttpTypeOK /\ ManagerTypeOK /\ ManagerInv)
  <1>1. Spec => []HttpTypeOK
    BY ManagerRefinesHttp, HttpTypeCorrect, PTL
  <1>2. /\ HttpTypeOK /\ HttpTypeOK' /\ ManagerTypeOK /\ ManagerInv /\ [Next]_vars
        => ManagerTypeOK' /\ ManagerInv'
    BY ManagerTypeStep, ManagerStep
  <1> QED  BY <1>1, <1>2, ManagerInitInv, PTL DEF Spec

\* The types of the manager and of the server's record are right.
THEOREM ManagerTypeCorrect == Spec => []ManagerTypeOK
  BY ManagerInvariant, PTL

\* An operation that returned Ok has its effect on the server, from then on.
THEOREM OkCanBeBelieved == Spec => []OkMeansAchieved
  <1>1. ManagerInv => OkMeansAchieved
    BY DEF ManagerInv, CallerInvOf, OkMeansAchieved
  <1> QED  BY <1>1, ManagerInvariant, PTL

-----------------------------------------------------------------------------
(* What an Ok is worth later, when its caller has long gone on.             *)

\* What a step leaves of an effect: all of it.
LEMMA EffectsStay ==
    ASSUME ManagerTypeOK, ManagerInv, [Next]_vars, NEW o \in Operations, Achieved(o)
    PROVE  Achieved(o)'
  <1>1. ManagerTypeOK' /\ Onward
    BY ManagerTypeStep, StepIsOnward
  <1> QED  BY <1>1, AchievedStays DEF ManagerTypeOK, Onward

\* Some caller's latest operation is o, and it was told Ok.
ToldOk(o) == \E c \in Callers : op[c] = o /\ outcome[c] = "ok"

\* An Ok is true for ever, after its caller has gone on to other operations,
\* whatever late copies and other callers do.
THEOREM OkStaysTrue ==
    ASSUME NEW o \in Operations
    PROVE  Spec => [](ToldOk(o) => []Achieved(o))
  <1>1. ManagerInv => (ToldOk(o) => Achieved(o))
    BY DEF ManagerInv, CallerInvOf, ToldOk
  <1>2. ManagerTypeOK /\ ManagerInv /\ [Next]_vars /\ Achieved(o) => Achieved(o)'
    BY EffectsStay
  <1> QED  BY <1>1, <1>2, ManagerInvariant, PTL DEF Spec

\* Of a commit and a rollback of one label, made at any times by any callers,
\* at most one is ever told Ok.
THEOREM NeverCommittedAndRolledBack ==
    ASSUME NEW l \in Labels
    PROVE  Spec => /\ [](ToldOk(commit_transaction(l)) => []~ToldOk(rollback_transaction(l)))
                   /\ [](ToldOk(rollback_transaction(l)) => []~ToldOk(commit_transaction(l)))
  <1> DEFINE commit == commit_transaction(l)
             rollback == rollback_transaction(l)
  <1>1. commit \in Operations /\ rollback \in Operations
    BY DEF commit_transaction, rollback_transaction, Operations, Kinds
  <1>2. Achieved(commit) => ~Achieved(rollback)
    BY DEF Achieved, commit_transaction, rollback_transaction
  <1>3. ManagerInv => /\ ToldOk(commit) => Achieved(commit)
                      /\ ToldOk(rollback) => Achieved(rollback)
    BY DEF ManagerInv, CallerInvOf, ToldOk
  <1>4. ManagerTypeOK /\ ManagerInv /\ [Next]_vars
        => /\ Achieved(commit) => Achieved(commit)'
           /\ Achieved(rollback) => Achieved(rollback)'
    BY <1>1, EffectsStay
  <1> HIDE DEF commit, rollback
  <1>5. Spec => /\ [](ToldOk(commit) => []~ToldOk(rollback))
                /\ [](ToldOk(rollback) => []~ToldOk(commit))
    BY <1>2, <1>3, <1>4, ManagerInvariant, PTL DEF Spec
  <1> QED  BY <1>5 DEF commit, rollback

-----------------------------------------------------------------------------
(* The safety half of EveryTransactionEnds.                                 *)

\* Only a begin opens one, and it asks for a deadline.
LEMMA ServeKeepsDeadline ==
    ASSUME ServerTypeOK, OpenHasDeadline, NEW o \in Requests, NEW r, Serve(o, r)
    PROVE  OpenHasDeadline'
  <1> USE DEF ServerTypeOK, Records, LabelStates, OpenHasDeadline, Live
  <1>1. o.label \in Labels /\ (o.kind = "begin" => o.deadline)
    BY DEF Requests, send_single_batch, load_transaction_data, begin_transaction,
           prepare_transaction, commit_transaction, rollback_transaction,
           get_load_status, cancel_load
  <1>2. ASSUME NEW s \in {"prepared", "committed", "aborted"}, Become(o.label, s),
               Live(server[o.label])
        PROVE  OpenHasDeadline'
    BY <1>1, <1>2 DEF Become
  <1>3. CASE ServePrepare(o, r) \/ ServeCommit(o, r) \/ ServeAbort(o, r)
    BY <1>2, <1>3 DEF ServePrepare, ServeCommit, ServeAbort
  <1>4. CASE ServeBegin(o, r)
    BY <1>1, <1>4 DEF ServeBegin
  <1>5. CASE ServeV1(o, r)
    <2>1. /\ server'[o.label].state = "committed"
          /\ \A l \in Labels \ {o.label} : server'[l] = server[l]
      BY <1>1, <1>5 DEF ServeV1
    <2> QED  BY <2>1
  <1>6. CASE ServeLoad(o, r)
    <2>1. \A l \in Labels : /\ server'[l].state = server[l].state
                            /\ server'[l].deadline = server[l].deadline
      BY <1>1, <1>6 DEF ServeLoad
    <2> QED  BY <2>1
  <1>7. CASE UNCHANGED server
    BY <1>7
  <1> QED  BY <1>3, <1>4, <1>5, <1>6, <1>7 DEF Serve, Refuse, ServeStatus

\* No transaction is open without a deadline that will end it, not even one
\* whose begin was retried, answered with an error, or executed after its
\* caller had gone.
THEOREM OpenTransactionsHaveDeadlines == Spec => []OpenHasDeadline
  <1>1. Init => OpenHasDeadline
    BY DEF Init, ServerInit, OpenHasDeadline, Unused, Live
  <1>2. ASSUME ManagerTypeOK, ManagerInv, OpenHasDeadline, [Next]_vars
        PROVE  OpenHasDeadline'
    <2>0. ServerTypeOK
      BY <1>2 DEF ManagerTypeOK
    <2>1. CASE UNCHANGED server
      BY <1>2, <2>1 DEF OpenHasDeadline
    <2>2. ASSUME NEW c \in Callers, Execute(c)
          PROVE  OpenHasDeadline'
      <3>1. op[c] \in Requests
        BY <1>2, <2>2 DEF Execute, Outstanding, Waiting, InFlight, ManagerInv, CallerInvOf
      <3> QED  BY <1>2, <2>0, <2>2, <3>1, ServeKeepsDeadline DEF Execute
    <2>3. ASSUME NEW o \in Requests, ExecuteLate(o)
          PROVE  OpenHasDeadline'
      BY <1>2, <2>0, <2>3, ServeKeepsDeadline DEF ExecuteLate
    <2>4. ASSUME NEW l \in Labels, PassDeadline(l)
          PROVE  OpenHasDeadline'
      <3>1. Become(l, "aborted") /\ server \in [Labels -> Records]
        BY <2>0, <2>4 DEF PassDeadline, Expire, ServerTypeOK
      <3>2. /\ server'[l].state = "aborted"
            /\ \A k \in Labels \ {l} : server'[k] = server[k]
        BY <3>1 DEF Become, Records
      <3> QED  BY <1>2, <3>2 DEF OpenHasDeadline, Live
    <2> QED  BY <1>2, <2>1, <2>2, <2>3, <2>4
             DEF Next, Invoke, RefuseLabel, Transmit, Redirect, Answer, UrlError, Fail,
                 RetryLater, Drop, vars
  <1> QED  BY <1>1, <1>2, ManagerInvariant, PTL DEF Spec

-----------------------------------------------------------------------------
(* The manager implements LoadContract. *)

\* Requests that were made, in the terms of the contract.
Asked == {o \in Requests : invoked[o] > 0}

\* A request that nobody makes anew changes nothing for the contract.
LEMMA AskedFrame == ASSUME UNCHANGED invoked PROVE Asked' = Asked
  BY DEF Asked

\* The initial state is one of the contract.
LEMMA ContractInit == Init => Contract!ContractInit
  BY DEF Init, ServerInit, Contract!ContractInit, Contract!ServerInit, Unused,
         Contract!Unused, NoOp, Contract!NoOp

\* Serving a request means the same in both.
LEMMA ContractServes ==
    ASSUME NEW o \in Operations, NEW r \in Replies, Serve(o, r)
    PROVE  Contract!Serve(o, r)
  BY DEF Serve, Refuse, ServeV1, ServeBegin, ServeLoad, ServePrepare,
         ServeCommit, ServeAbort, ServeStatus, Become, Store, Live,
         Contract!Serve, Contract!Refuse, Contract!ServeV1, Contract!ServeBegin,
         Contract!ServeLoad, Contract!ServePrepare, Contract!ServeCommit,
         Contract!ServeAbort, Contract!ServeStatus, Contract!Become,
         Contract!Store, Contract!Live

\* A caller is told r, when its call comes to an end.
LEMMA ContractTells ==
    ASSUME NEW c \in Callers, ManagerInv, InFlight(c),
           NEW r \in {"ok", "err", "dropped"}, r = "ok" => Achieved(op[c]),
           outcome' = [outcome EXCEPT ![c] = r],
           UNCHANGED <<server, op, invoked>>
    PROVE  Contract!Tell(c, r)
  <1>1. op[c] \in Requests /\ outcome[c] = "none"
    BY DEF ManagerInv, CallerInvOf
  <1>2. op[c] # NoOp
    BY <1>1, RequestsAreOperations, OperationFields DEF Kinds, NoOp
  <1>3. r = "ok" => Contract!Achieved(op[c])
    BY DEF Achieved, Contract!Achieved
  <1>4. Asked' = Asked
    BY AskedFrame
  <1> QED  BY <1>1, <1>2, <1>3, <1>4 DEF Contract!Tell, Contract!NoOp, NoOp, Asked

\* Every step of the manager is a step of the contract, or not seen by it.
LEMMA ContractStep ==
    ASSUME HttpTypeOK, ManagerTypeOK, ManagerInv, [Next]_vars
    PROVE  [Contract!ContractNext]_(Contract!contractVars)
  <1> USE DEF Contract!contractVars
  <1> DEFINE Goal == [Contract!ContractNext]_(Contract!contractVars)
  <1>0. Contract!Operations = Operations /\ Contract!Replies = Replies
    BY DEF Contract!Operations, Operations, Contract!Replies, Replies, Contract!Kinds,
           Kinds, Contract!NoChunk, NoChunk
  <1>1. ASSUME UNCHANGED <<server, op, outcome, invoked>>
        PROVE  Goal
    BY <1>1, AskedFrame DEF Asked
  <1>2. ASSUME NEW c \in Callers, NEW o \in Requests, Invoke(c, o)
        PROVE  Goal
    <2>1. op[c] = NoOp \/ outcome[c] # "none"
      BY <1>2, CallProgress DEF Invoke, ManagerInv, CallerInvOf
    <2>2. Asked' = Asked \cup {o}
      BY <1>2 DEF Invoke, Asked, ManagerTypeOK
    <2>3. \E r \in {"none", "err"} : outcome' = [outcome EXCEPT ![c] = r]
      BY <1>2 DEF Invoke
    <2>4. op' = [op EXCEPT ![c] = o] /\ UNCHANGED server
      BY <1>2 DEF Invoke
    <2>5. Contract!Ask(c, o)
      BY <2>1, <2>2, <2>3, <2>4 DEF Contract!Ask, Asked, NoOp, Contract!NoOp
    <2> QED  BY <1>0, <2>5, RequestsAreOperations DEF Contract!ContractNext
  <1>3. ASSUME NEW c \in Callers, NEW o \in Requests, RefuseLabel(c, o)
        PROVE  Goal
    <2>1. op[c] = NoOp \/ outcome[c] # "none"
      BY <1>3 DEF RefuseLabel, ManagerInv, CallerInvOf
    <2>2. Asked' = Asked
      BY <1>3, AskedFrame DEF RefuseLabel
    <2>3. /\ op' = [op EXCEPT ![c] = o] /\ UNCHANGED server
          /\ outcome' = [outcome EXCEPT ![c] = "err"]
      BY <1>3 DEF RefuseLabel
    <2>4. Contract!Ask(c, o)
      BY <2>1, <2>2, <2>3 DEF Contract!Ask, Asked, NoOp, Contract!NoOp
    <2> QED  BY <1>0, <2>4, RequestsAreOperations DEF Contract!ContractNext
  <1>4. ASSUME NEW o \in Asked, NEW r \in Replies, Serve(o, r),
               UNCHANGED <<op, outcome, invoked>>
        PROVE  Goal
    <2>1. o \in Operations
      BY RequestsAreOperations DEF Asked
    <2>2. Contract!Serve(o, r)
      BY <1>4, <2>1, ContractServes
    <2>3. Contract!TakeEffect(o)
      BY <1>0, <1>4, <2>2, AskedFrame DEF Contract!TakeEffect, Asked
    <2> QED  BY <1>0, <2>1, <2>3 DEF Contract!ContractNext
  <1>5. ASSUME NEW c \in Callers, Execute(c)
        PROVE  Goal
    <2>1. op[c] \in Asked
      BY <1>5 DEF Execute, Outstanding, Waiting, InFlight, ManagerInv, CallerInvOf, Asked
    <2> QED  BY <1>4, <1>5, <2>1 DEF Execute
  <1>6. ASSUME NEW o \in Requests, ExecuteLate(o)
        PROVE  Goal
    <2>1. o \in Asked
      BY <1>6 DEF ExecuteLate, ManagerInv, Asked
    <2> QED  BY <1>4, <1>6, <2>1 DEF ExecuteLate
  <1>7. ASSUME NEW c \in Callers, InFlight(c),
               NEW r \in {"ok", "err", "dropped"}, r = "ok" => Achieved(op[c]),
               outcome' = [outcome EXCEPT ![c] = r],
               UNCHANGED <<server, op, invoked>>
        PROVE  Goal
    BY <1>7, ContractTells DEF Contract!ContractNext
  <1>8. ASSUME NEW c \in Callers, Answer(c)
        PROVE  Goal
    <2>1. PICK s \in Statuses :
              /\ FEAnswers(c, s) \/ BEAnswers(c, s)
              /\ \E r \in OutcomesOf(c, s) : outcome' = [outcome EXCEPT ![c] = r]
              /\ UNCHANGED <<server, op, reply, late, invoked>>
      BY <1>8 DEF Answer
    <2>2. InFlight(c)
      BY <2>1, CallProgress
    <2>3. PICK r \in OutcomesOf(c, s) : outcome' = [outcome EXCEPT ![c] = r]
      BY <2>1
    <2>4. /\ r \in {"ok", "err", "dropped"}
          /\ r = "ok" => Achieved(op[c])
      BY <2>3 DEF OutcomesOf, ManagerInv, CallerInvOf
    <2> QED  BY <1>7, <2>1, <2>2, <2>3, <2>4
  <1>9. ASSUME NEW c \in Callers, UrlError(c) \/ Drop(c)
        PROVE  Goal
    <2>1. InFlight(c)
      BY <1>9, CallProgress DEF UrlError, Drop
    <2>2. /\ \E r \in {"err", "dropped"} : outcome' = [outcome EXCEPT ![c] = r]
          /\ UNCHANGED <<server, op, invoked>>
      BY <1>9 DEF UrlError, Drop
    <2> QED  BY <1>7, <2>1, <2>2
  <1>10. ASSUME NEW c \in Callers, Fail(c)
         PROVE  Goal
    <2>1. InFlight(c) /\ outcome[c] = "none"
      BY <1>10, CallProgress DEF Fail, ManagerInv, CallerInvOf
    <2>2. UNCHANGED <<server, op, invoked>>
      BY <1>10 DEF Fail
    <2>3. CASE Retries(c)
      <3>1. outcome' = outcome
        BY <1>10, <2>1, <2>3 DEF Fail, ManagerTypeOK
      <3> QED  BY <1>1, <2>2, <3>1
    <2>4. CASE ~Retries(c)
      <3>1. outcome' = [outcome EXCEPT ![c] = "err"]
        BY <1>10, <2>4 DEF Fail
      <3> QED  BY <1>7, <2>1, <2>2, <3>1
    <2> QED  BY <2>3, <2>4
  <1>11. ASSUME NEW l \in Labels, PassDeadline(l)
         PROVE  Goal
    <2>1. Contract!Expire(l)
      BY <1>11 DEF PassDeadline, Expire, Live, Become, Contract!Expire, Contract!Live,
                   Contract!Become
    <2>2. UNCHANGED <<op, outcome>> /\ Asked' = Asked
      BY <1>11, AskedFrame DEF PassDeadline
    <2> QED  BY <2>1, <2>2 DEF Contract!ContractNext, Asked
  <1> QED  BY <1>1, <1>2, <1>3, <1>5, <1>6, <1>8, <1>9, <1>10, <1>11
           DEF Next, Transmit, Redirect, RetryLater, vars

\* The manager implements the contract: retries, redirects and failover are
\* not seen, Ok is said of what was achieved, and only what was asked happens.
THEOREM ManagerImplementsContract == Spec => KeepsContract
  <1>1. HttpTypeOK /\ ManagerTypeOK /\ ManagerInv /\ [Next]_vars
        => [Contract!ContractNext]_(Contract!contractVars)
    BY ContractStep
  <1> QED  BY <1>1, ContractInit, ManagerInvariant, PTL
           DEF Spec, KeepsContract, Contract!ContractSpec
-----------------------------------------------------------------------------
(* Retries multiply a load within limits.                                  *)
(*                                                                         *)
(* Whatever can still be stored is paid for by an invocation: a send that  *)
(* a call may still make or has outstanding is one element of ToSend, a    *)
(* copy under way is one of late, and rows are what came of the others.    *)

\* The requests that carry chunk d of label l.
LoadsOf(l, d) == {send_single_batch(l, d), load_transaction_data(l, d)} \cap Requests

\* The attempts of a call whose send may still be executed in time.
Due(c) ==
    IF ~InFlight(c) THEN {}
    ELSE IF call[c].pc = "attempt" \/ Outstanding(c)
    THEN call[c].attempt .. MaxAttempts
    ELSE (call[c].attempt + 1) .. MaxAttempts

ToSend(l, d) ==
    {t \in Callers \X (1 .. MaxAttempts) :
        op[t[1]] \in LoadsOf(l, d) /\ t[2] \in Due(t[1])}

\* What f counts of the requests that carry chunk d of label l.
Tally(f, l, d) ==
    (IF send_single_batch(l, d) \in Requests THEN f[send_single_batch(l, d)] ELSE 0)
    + (IF load_transaction_data(l, d) \in Requests
       THEN f[load_transaction_data(l, d)] ELSE 0)

PaidFor(l, d) ==
    /\ IsFiniteSet(ToSend(l, d))
    /\ server[l].rows[d] + Tally(late, l, d) + Cardinality(ToSend(l, d))
           <= MaxAttempts * Tally(invoked, l, d)

StoresPaidFor == \A l \in Labels, d \in Chunks : PaidFor(l, d)

\* A request that carries a chunk is one of the two that the manager makes.
LEMMA LoadIsNamed ==
    ASSUME NEW o \in Requests, o.kind \in {"v1", "load"}
    PROVE  o \in LoadsOf(o.label, o.chunk)
  <1>1. o \in [kind : {"v1", "load"}, label : Labels, chunk : Chunks,
               deadline : {FALSE}]
    BY RequestsAreOperations DEF Operations, Kinds
  <1> QED  BY <1>1 DEF LoadsOf, send_single_batch, load_transaction_data

\* Of one chunk, a request stores one copy at most, and only if it carries it.
LEMMA ServeStores ==
    ASSUME ServerTypeOK, NEW o \in Requests, NEW r, Serve(o, r),
           NEW l \in Labels, NEW d \in Chunks
    PROVE  \/ server'[l].rows[d] = server[l].rows[d]
           \/ server'[l].rows[d] = server[l].rows[d] + 1 /\ o \in LoadsOf(l, d)
  <1> DEFINE rec == server[o.label]
             Rows == Store(o.label, o.chunk)
             Sets(new) == server' = [server EXCEPT ![o.label] = new]
             Carries == o.kind \in {"v1", "load"}
  <1>1. ServeV1(o, r) =>
            Carries /\ Sets([rec EXCEPT !.state = "committed", !.direct = TRUE,
                                       !.rows = Rows])
    BY DEF ServeV1
  <1>2. ServeLoad(o, r) =>
            \/ UNCHANGED server
            \/ Carries /\ Sets([rec EXCEPT !.rows = Rows])
    BY DEF ServeLoad
  <1>3. ServeBegin(o, r) => Sets([rec EXCEPT !.state = "open", !.deadline = o.deadline])
    BY DEF ServeBegin
  <1>4. ServePrepare(o, r) \/ ServeCommit(o, r) \/ ServeAbort(o, r)
        => \E s : Sets([rec EXCEPT !.state = s])
    BY DEF ServePrepare, ServeCommit, ServeAbort, Become
  <1>5. Refuse(r) \/ ServeStatus(o, r) => UNCHANGED server
    BY DEF Refuse, ServeStatus
  <1>6. /\ server \in [Labels -> [state : LabelStates, rows : [Chunks -> Nat],
                                  direct : BOOLEAN, deadline : BOOLEAN]]
        /\ o.label \in Labels
    BY RequestsAreOperations, OperationFields DEF ServerTypeOK, Records
  <1> HIDE DEF Rows
  <1>7. \/ server'[l].rows = server[l].rows
        \/ Carries /\ l = o.label /\ server'[l].rows = Rows
    <2>1. CASE ServeV1(o, r)
      <3>1. Carries /\ Sets([rec EXCEPT !.state = "committed", !.direct = TRUE,
                                       !.rows = Rows])
        BY <1>1, <2>1
      <3> QED  BY <1>6, <3>1
    <2>2. CASE ServeLoad(o, r)
      <3>1. CASE UNCHANGED server
        BY <3>1
      <3>2. CASE Carries /\ Sets([rec EXCEPT !.rows = Rows])
        BY <1>6, <3>2
      <3> QED  BY <1>2, <2>2, <3>1, <3>2
    <2>3. CASE ServeBegin(o, r)
      <3>1. Sets([rec EXCEPT !.state = "open", !.deadline = o.deadline])
        BY <1>3, <2>3
      <3> QED  BY <1>6, <3>1
    <2>4. CASE ServePrepare(o, r) \/ ServeCommit(o, r) \/ ServeAbort(o, r)
      <3>1. PICK s : Sets([rec EXCEPT !.state = s])
        BY <1>4, <2>4
      <3> QED  BY <1>6, <3>1
    <2>5. CASE Refuse(r) \/ ServeStatus(o, r)
      BY <1>5, <2>5
    <2> QED  BY <2>1, <2>2, <2>3, <2>4, <2>5 DEF Serve
  <1>8. CASE l = o.label /\ Carries /\ server'[l].rows = Rows
    <2>1. server[l].rows \in [Chunks -> Nat]
      BY <1>6
    <2>2. server'[l].rows[d] =
              IF d = o.chunk THEN server[l].rows[d] + 1 ELSE server[l].rows[d]
      BY <1>8, <2>1 DEF Rows, Store
    <2>3. d = o.chunk => o \in LoadsOf(l, d)
      BY <1>8, LoadIsNamed
    <2> QED  BY <2>2, <2>3
  <1> QED  BY <1>7, <1>8

\* The counts of a chunk, and the limit they give, are numbers.
LEMMA TallyNat ==
    ASSUME NEW f \in [Requests -> Nat], NEW l \in Labels, NEW d \in Chunks
    PROVE  Tally(f, l, d) \in Nat
  BY DEF Tally

\* Counting a request once more or once less is seen in the tally of the chunk
\* it carries, and in no other.
LEMMA TallyChange ==
    ASSUME NEW f \in [Requests -> Nat], NEW g \in [Requests -> Nat],
           NEW o \in Requests, \A p \in Requests : p # o => g[p] = f[p],
           NEW l \in Labels, NEW d \in Chunks
    PROVE  /\ o \in LoadsOf(l, d) => Tally(g, l, d) + f[o] = Tally(f, l, d) + g[o]
           /\ o \notin LoadsOf(l, d) => Tally(g, l, d) = Tally(f, l, d)
  <1> DEFINE v == send_single_batch(l, d)
             w == load_transaction_data(l, d)
             Count(h, p) == IF p \in Requests THEN h[p] ELSE 0
  <1>1. v # w
    BY DEF send_single_batch, load_transaction_data
  <1>2. LoadsOf(l, d) = {v, w} \cap Requests
    BY DEF LoadsOf
  <1>3. /\ Tally(f, l, d) = Count(f, v) + Count(f, w)
        /\ Tally(g, l, d) = Count(g, v) + Count(g, w)
    BY DEF Tally
  <1> HIDE DEF v, w
  <1>4. \A p : /\ p # o => Count(g, p) = Count(f, p)
              /\ Count(f, p) \in Nat /\ Count(g, p) \in Nat
    OBVIOUS
  <1>5. Count(f, o) = f[o] /\ Count(g, o) = g[o]
    OBVIOUS
  <1> HIDE DEF Count
  <1>6. CASE o = v
    BY <1>1, <1>2, <1>3, <1>4, <1>5, <1>6
  <1>7. CASE o = w
    BY <1>1, <1>2, <1>3, <1>4, <1>5, <1>7
  <1>8. CASE o \notin {v, w}
    BY <1>2, <1>3, <1>4, <1>8
  <1> QED  BY <1>6, <1>7, <1>8

\* What a call may still send depends on its own progress and reply only.
LEMMA DueFrame ==
    ASSUME NEW e \in Callers, call'[e] = call[e], reply'[e] = reply[e]
    PROVE  Due(e)' = Due(e)
  BY DEF Due, InFlight, Outstanding, Waiting

\* No step of a call gives it attempts back, and the attempt whose request is
\* executed, lost or left behind is gone.
LEMMA DueShrinks ==
    ASSUME HttpTypeOK, AttemptInv, ManagerTypeOK, NEW c \in Callers,
           \/ Transmit(c) \/ Execute(c) \/ Redirect(c) \/ Answer(c)
           \/ UrlError(c) \/ Fail(c) \/ RetryLater(c) \/ Drop(c)
    PROVE  /\ Due(c)' \subseteq Due(c)
           /\ Outstanding(c) /\ (Execute(c) \/ Fail(c) \/ Drop(c)) =>
                /\ call[c].attempt \in Due(c)
                /\ call[c].attempt \in 1 .. MaxAttempts
                /\ call[c].attempt \notin Due(c)'
  <1> USE MaxAttemptsNat DEF HttpTypeOK
  <1> HIDE DEF MaxAttempts
  <1>0. /\ call[c].attempt \in Nat
        /\ InFlight(c) => call[c].attempt \in 1 .. MaxAttempts
    BY DEF AttemptInv, AttemptInvOf
  <1>1. ~InFlight(c)' => Due(c)' = {}
    BY DEF Due
  <1>2. Outstanding(c) => /\ InFlight(c)
                          /\ Due(c) = call[c].attempt .. MaxAttempts
                          /\ call[c].attempt \in Due(c)
                          /\ call[c].attempt \in 1 .. MaxAttempts
    BY <1>0 DEF Due, Outstanding, Waiting, InFlight
  <1>3. ASSUME Transmit(c)
        PROVE  Due(c)' \subseteq Due(c) /\ ~Outstanding(c)
    <2>1. /\ call[c].pc = "attempt" /\ call'[c].pc = "fe"
          /\ call'[c].attempt = call[c].attempt
      BY <1>3 DEF Transmit, Send
    <2> QED  BY <1>0, <2>1 DEF Due, InFlight, Outstanding, Waiting
  <1>4. ASSUME Execute(c)
        PROVE  Due(c)' \subseteq Due(c) \ {call[c].attempt}
    <2>1. Outstanding(c) /\ call' = call
      BY <1>4 DEF Execute, httpVars
    <2>2. reply'[c] # "none"
      BY <1>4 DEF Execute, ManagerTypeOK, Replies
    <2>3. Due(c)' = (call[c].attempt + 1) .. MaxAttempts
      BY <2>1, <2>2 DEF Due, InFlight, Outstanding, Waiting
    <2> QED  BY <1>0, <1>2, <2>1, <2>3
  <1>5. ASSUME Redirect(c)
        PROVE  Due(c)' \subseteq Due(c)
    <2>1. /\ call[c].pc = "fe" /\ call'[c].pc = "be" /\ reply' = reply
          /\ call'[c].attempt = call[c].attempt
      BY <1>5 DEF Redirect, FERedirects
    <2> QED  BY <2>1 DEF Due, InFlight, Outstanding, Waiting
  <1>6. ASSUME Answer(c) \/ UrlError(c) \/ Drop(c)
        PROVE  Due(c)' = {}
    BY <1>1, <1>6, CallProgress DEF Answer, UrlError, Drop
  <1>7. ASSUME Fail(c)
        PROVE  Due(c)' \subseteq Due(c) \ {call[c].attempt}
    <2>1. CASE ~Retries(c)
      BY <1>1, <1>7, <2>1, CallProgress DEF Fail
    <2>2. CASE Retries(c)
      <3>1. /\ Waiting(c) /\ call'[c].pc = "sleep"
            /\ call'[c].attempt = call[c].attempt
        BY <1>7, <2>2 DEF Fail, NetworkFailure
      <3>2. Due(c)' = (call[c].attempt + 1) .. MaxAttempts
        BY <3>1 DEF Due, InFlight, Outstanding, Waiting
      <3>3. (call[c].attempt + 1) .. MaxAttempts \subseteq Due(c)
        BY <1>0, <3>1 DEF Due, Waiting, InFlight
      <3> QED  BY <1>0, <3>2, <3>3
    <2> QED  BY <2>1, <2>2
  <1>8. ASSUME RetryLater(c)
        PROVE  Due(c)' \subseteq Due(c)
    <2>1. /\ call[c].pc = "sleep" /\ call'[c].pc = "attempt"
          /\ call'[c].attempt = call[c].attempt + 1
      BY <1>8 DEF RetryLater, Wake
    <2> QED  BY <2>1 DEF Due, InFlight, Outstanding, Waiting
  <1>9. Due(c)' \subseteq Due(c)
    BY <1>3, <1>4, <1>5, <1>6, <1>7, <1>8
  <1>10. Execute(c) \/ Fail(c) \/ Drop(c) => call[c].attempt \notin Due(c)'
    BY <1>4, <1>6, <1>7
  <1> QED  BY <1>2, <1>9, <1>10

\* The elements of ToSend follow.
LEMMA ToSendShrinks ==
    ASSUME \A e \in Callers :
               Due(e)' = {} \/ (op'[e] = op[e] /\ Due(e)' \subseteq Due(e)),
           NEW l \in Labels, NEW d \in Chunks
    PROVE  /\ ToSend(l, d)' \subseteq ToSend(l, d)
           /\ \A e \in Callers, k \in 1 .. MaxAttempts :
                 /\ op[e] \in LoadsOf(l, d) /\ k \in Due(e)
                 => <<e, k>> \in ToSend(l, d)
           /\ \A e \in Callers, k \in 1 .. MaxAttempts :
                 k \notin Due(e)' => <<e, k>> \notin ToSend(l, d)'
  <1> DEFINE Loads == LoadsOf(l, d)
             T == {t \in Callers \X (1 .. MaxAttempts) :
                      op[t[1]] \in Loads /\ t[2] \in Due(t[1])}
             TP == {t \in Callers \X (1 .. MaxAttempts) :
                      op'[t[1]] \in Loads /\ t[2] \in Due(t[1])'}
  <1>1. ToSend(l, d) = T /\ ToSend(l, d)' = TP
    BY DEF ToSend, LoadsOf
  <1> HIDE DEF Loads, MaxAttempts
  <1>2. TP \subseteq T
    OBVIOUS
  <1> QED  BY <1>1, <1>2 DEF Loads

\* What was stored of a chunk and what is under way to be stored.
Booked(l, d) == server[l].rows[d] + Tally(late, l, d)

\* The counts of PaidFor are numbers.
LEMMA BookedNat ==
    ASSUME ManagerTypeOK, NEW l \in Labels, NEW d \in Chunks
    PROVE  /\ server[l].rows[d] \in Nat /\ Booked(l, d) \in Nat
           /\ Tally(late, l, d) \in Nat /\ Tally(invoked, l, d) \in Nat
  <1>1. server[l].rows[d] \in Nat
    BY DEF ManagerTypeOK, ServerTypeOK, Records
  <1>2. Tally(late, l, d) \in Nat /\ Tally(invoked, l, d) \in Nat
    BY TallyNat DEF ManagerTypeOK
  <1> QED  BY <1>1, <1>2 DEF Booked

\* A step that books nothing, or one copy against a send it takes away.
LEMMA PaidStep ==
    ASSUME ManagerTypeOK, ManagerTypeOK', NEW l \in Labels, NEW d \in Chunks,
           PaidFor(l, d), UNCHANGED invoked, ToSend(l, d)' \subseteq ToSend(l, d),
           \/ Booked(l, d)' <= Booked(l, d)
           \/ /\ Booked(l, d)' <= Booked(l, d) + 1
              /\ \E t \in ToSend(l, d) : t \notin ToSend(l, d)'
    PROVE  PaidFor(l, d)'
  <1> DEFINE T == ToSend(l, d)
             TP == ToSend(l, d)'
             Limit == MaxAttempts * Tally(invoked, l, d)
  <1>1. IsFiniteSet(T) /\ Booked(l, d) + Cardinality(T) <= Limit
    BY DEF PaidFor, Booked
  <1>2. PaidFor(l, d)' <=> /\ IsFiniteSet(TP)
                           /\ Booked(l, d)' + Cardinality(TP) <= Limit
    BY DEF PaidFor, Booked, Tally
  <1>3. Booked(l, d) \in Nat /\ Booked(l, d)' \in Nat /\ Limit \in Nat
    <2>1. Booked(l, d)' \in Nat
      <3>1. Booked(l, d)' = server'[l].rows[d] + Tally(late', l, d)
        BY DEF Booked, Tally
      <3>2. server'[l].rows[d] \in Nat
        BY DEF ManagerTypeOK, ServerTypeOK, Records
      <3>3. Tally(late', l, d) \in Nat
        BY TallyNat DEF ManagerTypeOK
      <3> QED  BY <3>1, <3>2, <3>3
    <2> QED  BY <2>1, BookedNat, MaxAttemptsNat
  <1>4. Cardinality(T) \in Nat
    BY <1>1, FS_CardinalityType
  <1> HIDE DEF T, TP, Limit
  <1>5. IsFiniteSet(TP) /\ Cardinality(TP) \in Nat /\ Cardinality(TP) <= Cardinality(T)
    BY <1>1, FS_Subset, FS_CardinalityType DEF T, TP
  <1>6. CASE Booked(l, d)' <= Booked(l, d)
    BY <1>1, <1>2, <1>3, <1>4, <1>5, <1>6
  <1>7. ASSUME Booked(l, d)' <= Booked(l, d) + 1,
               NEW t \in T, t \notin TP
        PROVE  PaidFor(l, d)'
    <2>1. TP # T
      BY <1>7
    <2>2. Cardinality(TP) # Cardinality(T)
      BY <1>1, <2>1, FS_Subset DEF T, TP
    <2> QED  BY <1>1, <1>2, <1>3, <1>4, <1>5, <1>7, <2>2
  <1> QED  BY <1>6, <1>7 DEF T, TP

\* An invocation pays for all the attempts of its call.
LEMMA PaidInvoke ==
    ASSUME HttpTypeOK, ManagerTypeOK, ManagerTypeOK',
           NEW c \in Callers, NEW o \in Requests, Invoke(c, o),
           NEW l \in Labels, NEW d \in Chunks, PaidFor(l, d)
    PROVE  PaidFor(l, d)'
  <1> DEFINE T == ToSend(l, d)
             TP == ToSend(l, d)'
             Own == {c} \X (1 .. MaxAttempts)
             Loads == LoadsOf(l, d)
  <1> HIDE DEF MaxAttempts
  <1>1. /\ server' = server /\ late' = late
        /\ invoked' = [invoked EXCEPT ![o] = invoked[o] + 1]
        /\ op'[c] = o /\ Due(c) = {}
        /\ \A e \in Callers : e # c => op'[e] = op[e] /\ Due(e)' = Due(e)
    <2>1. ~InFlight(c)
      BY CallProgress DEF Invoke
    <2>2. ASSUME NEW e \in Callers, e # c
          PROVE  op'[e] = op[e] /\ Due(e)' = Due(e)
      <3>1. call'[e] = call[e] /\ reply'[e] = reply[e] /\ op'[e] = op[e]
        BY <2>2 DEF Invoke, StartCall, HttpTypeOK
      <3> QED  BY <3>1, DueFrame
    <2> QED  BY <2>1, <2>2 DEF Invoke, ManagerTypeOK, Due
  <1>2. /\ T = {t \in Callers \X (1 .. MaxAttempts) :
                   op[t[1]] \in Loads /\ t[2] \in Due(t[1])}
        /\ TP = {t \in Callers \X (1 .. MaxAttempts) :
                   op'[t[1]] \in Loads /\ t[2] \in Due(t[1])'}
    BY DEF ToSend, LoadsOf
  <1>3. Booked(l, d)' = Booked(l, d)
    BY <1>1 DEF Booked, Tally
  <1>4. Tally(invoked', l, d) =
            IF o \in Loads THEN Tally(invoked, l, d) + 1 ELSE Tally(invoked, l, d)
    <2>1. invoked \in [Requests -> Nat] /\ invoked' \in [Requests -> Nat]
      BY DEF ManagerTypeOK
    <2>2. \A p \in Requests : p # o => invoked'[p] = invoked[p]
      BY <1>1, <2>1
    <2>3. /\ o \in Loads =>
                 Tally(invoked', l, d) + invoked[o] = Tally(invoked, l, d) + invoked'[o]
          /\ o \notin Loads => Tally(invoked', l, d) = Tally(invoked, l, d)
      BY <2>1, <2>2, TallyChange
    <2>4. /\ invoked[o] \in Nat /\ invoked'[o] = invoked[o] + 1
          /\ Tally(invoked, l, d) \in Nat /\ Tally(invoked', l, d) \in Nat
      BY <1>1, <2>1, TallyNat
    <2> QED  BY <2>3, <2>4
  <1>5. /\ Booked(l, d) \in Nat /\ Tally(invoked, l, d) \in Nat /\ MaxAttempts \in Nat
    BY BookedNat, MaxAttemptsNat
  <1>6. /\ IsFiniteSet(T) /\ Cardinality(T) \in Nat
        /\ Booked(l, d) + Cardinality(T) <= MaxAttempts * Tally(invoked, l, d)
    BY FS_CardinalityType DEF PaidFor, Booked
  <1>7. PaidFor(l, d)' <=>
            /\ IsFiniteSet(TP)
            /\ Booked(l, d)' + Cardinality(TP) <= MaxAttempts * Tally(invoked', l, d)
    BY DEF PaidFor, Booked, Tally
  <1>8. CASE o \notin Loads
    <2>1. TP \subseteq T
      BY <1>1, <1>2, <1>8
    <2> HIDE DEF T, TP
    <2>2. IsFiniteSet(TP) /\ Cardinality(TP) \in Nat
          /\ Cardinality(TP) <= Cardinality(T)
      BY <1>6, <2>1, FS_Subset, FS_CardinalityType
    <2>3. MaxAttempts * Tally(invoked, l, d) \in Nat
      BY <1>5
    <2> QED  BY <1>3, <1>4, <1>5, <1>6, <1>7, <1>8, <2>2, <2>3
  <1>9. CASE o \in Loads
    <2>1. TP \subseteq T \cup Own
      BY <1>1, <1>2
    <2>2. IsFiniteSet(Own) /\ Cardinality(Own) = MaxAttempts
      <3>1. IsFiniteSet({c}) /\ Cardinality({c}) = 1
        BY FS_Singleton
      <3>2. IsFiniteSet(1 .. MaxAttempts) /\ Cardinality(1 .. MaxAttempts) = MaxAttempts
        <4>1. Cardinality(1 .. MaxAttempts) =
                  IF 1 > MaxAttempts THEN 0 ELSE MaxAttempts - 1 + 1
          BY <1>5, FS_Interval
        <4>2. IsFiniteSet(1 .. MaxAttempts)
          BY <1>5, FS_Interval
        <4> QED  BY <1>5, <4>1, <4>2
      <3>3. IsFiniteSet(Own)
            /\ Cardinality(Own) = Cardinality({c}) * Cardinality(1 .. MaxAttempts)
        BY <3>1, <3>2, FS_Product
      <3> QED  BY <1>5, <3>1, <3>2, <3>3
    <2> HIDE DEF T, TP, Own
    <2>3. /\ IsFiniteSet(T \cup Own) /\ Cardinality(T \cup Own) \in Nat
          /\ Cardinality(T \cup Own) <= Cardinality(T) + MaxAttempts
      <3>1. /\ IsFiniteSet(T \cup Own)
            /\ Cardinality(T \cup Own) =
                   Cardinality(T) + Cardinality(Own) - Cardinality(T \cap Own)
        BY <1>6, <2>2, FS_Union
      <3>2. Cardinality(T \cap Own) \in Nat /\ Cardinality(T \cup Own) \in Nat
        BY <1>6, <3>1, FS_Intersection, FS_CardinalityType
      <3> QED  BY <1>5, <1>6, <2>2, <3>1, <3>2
    <2>4. IsFiniteSet(TP) /\ Cardinality(TP) \in Nat
          /\ Cardinality(TP) <= Cardinality(T \cup Own)
      BY <2>1, <2>3, FS_Subset, FS_CardinalityType
    <2>5. MaxAttempts * (Tally(invoked, l, d) + 1) =
              MaxAttempts * Tally(invoked, l, d) + MaxAttempts
          /\ MaxAttempts * Tally(invoked, l, d) \in Nat
      BY <1>5
    <2> QED  BY <1>3, <1>4, <1>5, <1>6, <1>7, <1>9, <2>3, <2>4, <2>5
  <1> QED  BY <1>8, <1>9

\* What a step leaves the calls to send.
LEMMA ToSendStep ==
    ASSUME HttpTypeOK, AttemptInv, ManagerTypeOK, [Next]_vars,
           ~\E c \in Callers, o \in Requests : Invoke(c, o),
           NEW e \in Callers
    PROVE  Due(e)' = {} \/ (op'[e] = op[e] /\ Due(e)' \subseteq Due(e))
  <1>1. ASSUME NEW c \in Callers,
               \/ Transmit(c) \/ Execute(c) \/ Redirect(c) \/ Answer(c)
               \/ UrlError(c) \/ Fail(c) \/ RetryLater(c) \/ Drop(c)
        PROVE  op' = op /\ Due(e)' \subseteq Due(e)
    <2>1. op' = op
      BY <1>1 DEF Transmit, Execute, Redirect, Answer, UrlError, Fail, RetryLater, Drop
    <2>2. CASE e = c
      BY <1>1, <2>1, <2>2, DueShrinks
    <2>3. CASE e # c
      <3>1. reply'[e] = reply[e]
        BY <1>1, <2>3 DEF Transmit, Execute, Redirect, Answer, UrlError, Fail,
                          RetryLater, Drop, ManagerTypeOK
      <3>2. call'[e] = call[e]
        BY <1>1, <2>3 DEF Transmit, Execute, Redirect, Answer, UrlError, Fail,
                          RetryLater, Drop, Send, FERedirects, FEAnswers, BEAnswers,
                          JoinFails, NetworkFailure, Wake, DropCall, Return, httpVars,
                          HttpTypeOK
      <3> QED  BY <2>1, <3>1, <3>2, DueFrame
    <2> QED  BY <2>2, <2>3
  <1>2. ASSUME NEW c \in Callers, NEW o \in Requests, RefuseLabel(c, o)
        PROVE  Due(e)' = {} \/ (op'[e] = op[e] /\ Due(e)' \subseteq Due(e))
    <2>1. CASE e = c
      BY <1>2, <2>1 DEF RefuseLabel, httpVars, InFlight, Due
    <2>2. CASE e # c
      <3>1. call'[e] = call[e] /\ reply'[e] = reply[e] /\ op'[e] = op[e]
        BY <1>2, <2>2 DEF RefuseLabel, httpVars, ManagerTypeOK
      <3> QED  BY <3>1, DueFrame
    <2> QED  BY <2>1, <2>2
  <1>3. ASSUME UNCHANGED <<httpVars, op, reply>>
        PROVE  op'[e] = op[e] /\ Due(e)' \subseteq Due(e)
    BY <1>3, DueFrame DEF httpVars
  <1> QED  BY <1>1, <1>2, <1>3 DEF Next, ExecuteLate, PassDeadline, vars

\* What happens to the copies of a chunk, stored and under way.
LEMMA BookedStep ==
    ASSUME ManagerTypeOK, ManagerTypeOK', ManagerInv, [Next]_vars,
           ~\E c \in Callers, o \in Requests : Invoke(c, o),
           NEW l \in Labels, NEW d \in Chunks
    PROVE  \/ Booked(l, d)' <= Booked(l, d)
           \/ /\ Booked(l, d)' <= Booked(l, d) + 1
              /\ \E c \in Callers : /\ op[c] \in LoadsOf(l, d)
                                    /\ Outstanding(c)
                                    /\ Execute(c) \/ Fail(c) \/ Drop(c)
  <1> DEFINE rows == server[l].rows[d]
             Late == Tally(late, l, d)
  <1>0. /\ rows \in Nat /\ Late \in Nat
        /\ Booked(l, d) = rows + Late /\ Booked(l, d)' = rows' + Tally(late', l, d)
        /\ late \in [Requests -> Nat] /\ late' \in [Requests -> Nat]
        /\ server \in [Labels -> Records]
    <2>1. rows \in Nat /\ Late \in Nat
      BY BookedNat
    <2>2. Booked(l, d) = rows + Late /\ Booked(l, d)' = rows' + Tally(late', l, d)
      BY DEF Booked, Tally
    <2> QED  BY <2>1, <2>2 DEF ManagerTypeOK, ServerTypeOK
  <1>1. ASSUME UNCHANGED <<server, late>>
        PROVE  Booked(l, d)' <= Booked(l, d)
    BY <1>0, <1>1
  <1>2. ASSUME NEW c \in Callers, Execute(c)
        PROVE  \/ Booked(l, d)' <= Booked(l, d)
               \/ Booked(l, d)' <= Booked(l, d) + 1 /\ op[c] \in LoadsOf(l, d)
    <2>1. op[c] \in Requests
      BY <1>2 DEF Execute, Outstanding, Waiting, InFlight, ManagerInv, CallerInvOf
    <2>2. rows' = rows \/ (rows' = rows + 1 /\ op[c] \in LoadsOf(l, d))
      <3>1. PICK r \in Replies : Serve(op[c], r)
        BY <1>2 DEF Execute
      <3>2. ASSUME NEW o \in Requests, o = op[c]
            PROVE  rows' = rows \/ (rows' = rows + 1 /\ o \in LoadsOf(l, d))
        BY <3>1, <3>2, ServeStores DEF ManagerTypeOK
      <3> QED  BY <2>1, <3>2
    <2>3. late' = late
      BY <1>2 DEF Execute
    <2> HIDE DEF rows, Late
    <2> QED  BY <1>0, <2>2, <2>3 DEF Late
  <1>3. ASSUME NEW c \in Callers, Fail(c) \/ Drop(c)
        PROVE  \/ Booked(l, d)' <= Booked(l, d)
               \/ /\ Booked(l, d)' <= Booked(l, d) + 1
                  /\ op[c] \in LoadsOf(l, d) /\ Outstanding(c)
    <2>1. op[c] \in Requests
      BY <1>3 DEF Fail, Drop, NetworkFailure, DropCall, Waiting, InFlight,
                  ManagerInv, CallerInvOf
    <2>2. CASE late' = late
      BY <1>1, <1>3, <2>2 DEF Fail, Drop
    <2>3. CASE Outstanding(c) /\ late' = [late EXCEPT ![op[c]] = @ + 1]
      <3>1. \A p \in Requests : p # op[c] => late'[p] = late[p]
        BY <1>0, <2>3
      <3>2. late'[op[c]] = late[op[c]] + 1 /\ late[op[c]] \in Nat
        BY <1>0, <2>1, <2>3
      <3>3. rows' = rows
        BY <1>3 DEF Fail, Drop
      <3>4. ASSUME NEW o \in Requests, o = op[c]
            PROVE  /\ o \in LoadsOf(l, d) =>
                          Tally(late', l, d) + late[o] = Late + late'[o]
                   /\ o \notin LoadsOf(l, d) => Tally(late', l, d) = Late
        BY <1>0, <3>1, <3>4, TallyChange
      <3>5. Tally(late', l, d) \in Nat
        BY <1>0, TallyNat
      <3>6. /\ op[c] \in LoadsOf(l, d) =>
                   Tally(late', l, d) + late[op[c]] = Late + late'[op[c]]
            /\ op[c] \notin LoadsOf(l, d) => Tally(late', l, d) = Late
        BY <2>1, <3>4
      <3> HIDE DEF rows, Late
      <3>7. CASE op[c] \in LoadsOf(l, d)
        BY <1>0, <2>3, <3>2, <3>3, <3>5, <3>6, <3>7
      <3>8. CASE op[c] \notin LoadsOf(l, d)
        BY <1>0, <3>3, <3>5, <3>6, <3>8
      <3> QED  BY <3>7, <3>8
    <2> QED  BY <1>3, <2>2, <2>3 DEF Fail, Drop, Abandon
  <1>4. ASSUME NEW o \in Requests, ExecuteLate(o)
        PROVE  Booked(l, d)' <= Booked(l, d)
    <2>1. rows' = rows \/ (rows' = rows + 1 /\ o \in LoadsOf(l, d))
      BY <1>4, ServeStores DEF ExecuteLate, ManagerTypeOK
    <2>2. /\ late[o] \in Nat /\ late[o] > 0 /\ late'[o] = late[o] - 1
          /\ \A p \in Requests : p # o => late'[p] = late[p]
      BY <1>0, <1>4 DEF ExecuteLate
    <2>3. /\ o \in LoadsOf(l, d) => Tally(late', l, d) + late[o] = Late + late'[o]
          /\ o \notin LoadsOf(l, d) => Tally(late', l, d) = Late
      BY <1>0, <2>2, TallyChange
    <2>4. Tally(late', l, d) \in Nat
      BY <1>0, TallyNat
    <2> HIDE DEF rows, Late
    <2> QED  BY <1>0, <2>1, <2>2, <2>3, <2>4
  <1>5. ASSUME NEW k \in Labels, PassDeadline(k)
        PROVE  Booked(l, d)' <= Booked(l, d)
    <2>1. rows' = rows
      BY <1>0, <1>5 DEF PassDeadline, Expire, Become, Records
    <2>2. late' = late
      BY <1>5 DEF PassDeadline
    <2> QED  BY <1>0, <2>1, <2>2
  <1> QED  BY <1>1, <1>2, <1>3, <1>4, <1>5
           DEF Next, RefuseLabel, Transmit, Execute, Redirect, Answer, UrlError,
               RetryLater, vars

\* Every step keeps the books.
LEMMA PaidForStep ==
    ASSUME HttpTypeOK, AttemptInv, ManagerTypeOK, ManagerTypeOK', ManagerInv,
           StoresPaidFor, [Next]_vars
    PROVE  StoresPaidFor'
  <1> SUFFICES ASSUME NEW l \in Labels, NEW d \in Chunks
               PROVE  PaidFor(l, d)'
    BY DEF StoresPaidFor
  <1>1. PaidFor(l, d)
    BY DEF StoresPaidFor
  <1>2. ASSUME NEW c \in Callers, NEW o \in Requests, Invoke(c, o)
        PROVE  PaidFor(l, d)'
    BY <1>1, <1>2, PaidInvoke
  <1>3. ASSUME ~\E c \in Callers, o \in Requests : Invoke(c, o)
        PROVE  PaidFor(l, d)'
    <2>1. UNCHANGED invoked
      BY <1>3 DEF Next, RefuseLabel, Transmit, Execute, Redirect, Answer, UrlError,
                  Fail, RetryLater, Drop, ExecuteLate, PassDeadline, vars
    <2>2. \A e \in Callers : Due(e)' = {} \/ (op'[e] = op[e] /\ Due(e)' \subseteq Due(e))
      BY <1>3, ToSendStep
    <2>3. ToSend(l, d)' \subseteq ToSend(l, d)
      BY <2>2, ToSendShrinks
    <2>4. CASE Booked(l, d)' <= Booked(l, d)
      BY <1>1, <2>1, <2>3, <2>4, PaidStep
    <2>5. ASSUME Booked(l, d)' <= Booked(l, d) + 1,
                 NEW c \in Callers, op[c] \in LoadsOf(l, d), Outstanding(c),
                 Execute(c) \/ Fail(c) \/ Drop(c)
          PROVE  PaidFor(l, d)'
      <3> DEFINE k == call[c].attempt
      <3>1. k \in Due(c) /\ k \in 1 .. MaxAttempts /\ k \notin Due(c)'
        BY <2>5, DueShrinks
      <3> HIDE DEF k
      <3>2. <<c, k>> \in ToSend(l, d) /\ <<c, k>> \notin ToSend(l, d)'
        BY <2>2, <2>5, <3>1, ToSendShrinks
      <3> QED  BY <1>1, <2>1, <2>3, <2>5, <3>2, PaidStep
    <2> QED  BY <1>3, <2>4, <2>5, BookedStep
  <1> QED  BY <1>2, <1>3

\* Nothing was asked for, nothing is to be sent.
LEMMA PaidForInit == Init => StoresPaidFor
  <1> SUFFICES ASSUME Init, NEW l \in Labels, NEW d \in Chunks
               PROVE  PaidFor(l, d)
    BY DEF StoresPaidFor
  <1>1. ToSend(l, d) = {}
    BY DEF Init, HttpInit, NoCall, ToSend, Due, InFlight
  <1>2. Cardinality(ToSend(l, d)) = 0 /\ IsFiniteSet(ToSend(l, d))
    BY <1>1, FS_EmptySet
  <1>3. server[l].rows[d] = 0
    BY DEF Init, ServerInit, Unused
  <1>4. Tally(late, l, d) = 0 /\ Tally(invoked, l, d) = 0
    BY DEF Init, Tally
  <1> QED  BY <1>2, <1>3, <1>4, MaxAttemptsNat DEF PaidFor

\* No chunk is stored more often than its loads were made, times the attempts
\* of a call: not by any number of callers, retries, redirects and late copies.
THEOREM RetriesMultiplyWithinLimits == Spec => []StoredPerAttempt
  <1>1. Spec => []AttemptInv
    BY ManagerRefinesHttp, HttpInvariant, PTL
  <1>2. /\ HttpTypeOK /\ AttemptInv /\ ManagerTypeOK /\ ManagerTypeOK' /\ ManagerInv
        /\ StoresPaidFor /\ [Next]_vars
        => StoresPaidFor'
    BY PaidForStep
  <1>3. ManagerTypeOK /\ StoresPaidFor => StoredPerAttempt
    <2> SUFFICES ASSUME ManagerTypeOK, StoresPaidFor, NEW l \in Labels, NEW d \in Chunks
                 PROVE  server[l].rows[d] <= MaxAttempts * Tally(invoked, l, d)
      BY DEF StoredPerAttempt, Tally
    <2>1. /\ IsFiniteSet(ToSend(l, d))
          /\ server[l].rows[d] + Tally(late, l, d) + Cardinality(ToSend(l, d))
                 <= MaxAttempts * Tally(invoked, l, d)
      BY DEF StoresPaidFor, PaidFor
    <2>2. Cardinality(ToSend(l, d)) \in Nat
      BY <2>1, FS_CardinalityType
    <2>3. MaxAttempts * Tally(invoked, l, d) \in Nat
      BY BookedNat, MaxAttemptsNat
    <2> QED  BY <2>1, <2>2, <2>3, BookedNat
  <1> QED  BY <1>1, <1>2, <1>3, PaidForInit, ManagerInvariant, PTL DEF Spec
=============================================================================
