----------------------- MODULE TransactionTracker_proofs -----------------------
(***************************************************************************)
(* Proofs about TransactionTracker, for any number of users, labels and    *)
(* chunks: the map of states is truthful, and does not contradict itself   *)
(* at any later time.                                                      *)
(***************************************************************************)
EXTENDS TransactionTracker, StarRocksServer_proofs

-----------------------------------------------------------------------------
(* What the steps do to the SDK. *)

\* A request of the tracker is one the contract knows.
LEMMA TransactionsAreOperations ==
    ASSUME NEW l \in Labels,
           NEW kind \in {"begin", "prepare", "commit", "rollback"}
    PROVE  Transaction(kind, l) \in TrackerOperations
  BY DEF Transaction, TrackerOperations, Operations, Kinds

\* So is a load.
LEMMA LoadsAreOperations ==
    ASSUME NEW l \in Labels, NEW d \in Chunks
    PROVE  [kind |-> "load", label |-> l, chunk |-> d, deadline |-> FALSE]
               \in TrackerOperations
  BY DEF TrackerOperations, Operations

Asks == \E c \in Users, o \in TrackerOperations : Ask(c, o)

Told == \E c \in Users, r \in {"ok", "err", "dropped"} : Tell(c, r)

TakesEffect == \E o \in asked : TakeEffect(o)

Expires == \E l \in Labels : Expire(l) /\ UNCHANGED <<asked, op, outcome>>

\* A step asks the SDK, is told by it, is the cluster's, or leaves both alone.
LEMMA StepSeenBySDK ==
    ASSUME TrackerTypeOK, [TrackerNext]_trackerVars
    PROVE  Asks \/ Told \/ TakesEffect \/ Expires \/ UNCHANGED contractVars
  <1>1. ASSUME NEW c \in Users, NEW l \in Labels,
               \/ begin_transaction(c, l) \/ prepare_transaction(c, l)
               \/ commit_transaction(c, l) \/ rollback_transaction(c, l)
        PROVE  Asks \/ UNCHANGED contractVars
    <2>1. CASE begin_transaction(c, l)
      BY <2>1, TransactionsAreOperations DEF Asks, begin_transaction, Request
    <2>2. CASE prepare_transaction(c, l)
      BY <2>2, TransactionsAreOperations DEF Asks, prepare_transaction, Request
    <2>3. CASE commit_transaction(c, l)
      BY <2>3, TransactionsAreOperations DEF Asks, commit_transaction, Request
    <2>4. CASE rollback_transaction(c, l)
      BY <2>4, TransactionsAreOperations DEF Asks, rollback_transaction, Request
    <2> QED  BY <1>1, <2>1, <2>2, <2>3, <2>4
  <1>2. ASSUME NEW c \in Users, NEW l \in Labels, NEW d \in Chunks, load_data(c, l, d)
        PROVE  Asks
    BY <1>2, LoadsAreOperations DEF Asks, load_data, Request
  <1>3. ASSUME NEW c \in Users, TaskGoesOn(c)
        PROVE  Asks \/ UNCHANGED contractVars
    <2>1. task[c].labels \subseteq Labels
      BY DEF TrackerTypeOK
    <2> QED  BY <1>3, <2>1, TransactionsAreOperations
             DEF Asks, TaskGoesOn, AutoPrepare, AutoCommit, RecoverNext, Request
  <1>4. ASSUME NEW c \in Users, Answered(c) \/ Abandon(c)
        PROVE  Told
    BY <1>4 DEF Told, Answered, Complete, Abandon
  <1>5. ASSUME ClusterActs
        PROVE  TakesEffect \/ Expires
    BY <1>5 DEF TakesEffect, Expires, ClusterActs
  <1>6. ASSUME NEW c \in Users, NEW stuck, recover_stuck_transactions(c, stuck)
        PROVE  UNCHANGED contractVars
    BY <1>6 DEF recover_stuck_transactions
  <1>7. ASSUME NEW old, cleanup_completed_transactions(old)
        PROVE  UNCHANGED contractVars
    BY <1>7 DEF cleanup_completed_transactions
  <1>8. CASE UNCHANGED trackerVars
    BY <1>8 DEF trackerVars
  <1> QED  BY <1>1, <1>2, <1>3, <1>4, <1>5, <1>6, <1>7, <1>8 DEF TrackerNext

\* The SDK's variables keep their types, and labels only advance.
LEMMA StepIsOnward ==
    ASSUME TrackerTypeOK, [TrackerNext]_trackerVars
    PROVE  /\ ServerTypeOK' /\ \A k \in Labels : Advances(server[k], server'[k])
           /\ asked' \subseteq TrackerOperations
           /\ op' \in [Users -> TrackerOperations \cup {NoOp}]
           /\ outcome' \in [Users -> Outcomes]
  <1> DEFINE Onward == ServerTypeOK' /\ \A k \in Labels : Advances(server[k], server'[k])
             AskedOK(a, o, r) == /\ a \subseteq TrackerOperations
                                 /\ o \in [Users -> TrackerOperations \cup {NoOp}]
                                 /\ r \in [Users -> Outcomes]
  <1>1. ServerTypeOK /\ AskedOK(asked, op, outcome)
    BY DEF TrackerTypeOK
  <1>2. ASSUME UNCHANGED server
        PROVE  Onward
    BY <1>1, <1>2 DEF Advances, ServerTypeOK, Records
  <1>3. CASE Asks
    BY <1>1, <1>2, <1>3 DEF Asks, Ask, Outcomes
  <1>4. CASE Told
    BY <1>1, <1>2, <1>4 DEF Told, Tell, Outcomes
  <1>5. CASE TakesEffect
    <2>1. Onward
      BY <1>1, <1>5, ServeAdvances DEF TakesEffect, TakeEffect, TrackerOperations
    <2> QED  BY <1>1, <1>5, <2>1 DEF TakesEffect, TakeEffect
  <1>6. CASE Expires
    <2>1. Onward
      BY <1>1, <1>6, ExpireAdvances DEF Expires
    <2> QED  BY <1>1, <1>6, <2>1 DEF Expires
  <1>7. CASE UNCHANGED contractVars
    BY <1>1, <1>2, <1>7 DEF contractVars
  <1> QED  BY <1>3, <1>4, <1>5, <1>6, <1>7, StepSeenBySDK

-----------------------------------------------------------------------------
(* The invariant. *)

\* Nothing is tracked at first.
LEMMA TrackerInitInv == TrackerInit => TrackerTypeOK /\ MapIsTruthful
  <1> SUFFICES ASSUME TrackerInit
               PROVE  TrackerTypeOK /\ MapIsTruthful
    OBVIOUS
  <1>1. TrackerTypeOK
    BY ServerInitOK
    DEF TrackerInit, ContractInit, TrackerTypeOK, Outcomes, Idle, PCs, Pausing
  <1>2. MapIsTruthful
    BY DEF TrackerInit, MapIsTruthful, Truthful
  <1> QED  BY <1>1, <1>2

\* Every step keeps the types.
LEMMA TrackerTypeStep ==
    ASSUME TrackerTypeOK, [TrackerNext]_trackerVars
    PROVE  TrackerTypeOK'
  <1> DEFINE TasksOK(t) ==
        /\ t \in [Users -> [pc : PCs, labels : SUBSET Labels]]
        /\ \A c \in Users : /\ t[c].pc \in {"idle", "call"} => t[c].labels = {}
                           /\ t[c].pc \in Pausing => t[c].labels # {}
             MapOK(st, noted) == /\ st \in [Labels -> States \cup {"absent"}]
                                 /\ noted \in [Labels -> BOOLEAN]
  <1>1. TasksOK(task) /\ MapOK(state, error_details)
    BY DEF TrackerTypeOK
  <1>2. ASSUME NEW c \in Users, NEW pc \in PCs, NEW labels \in SUBSET Labels,
               pc \in {"idle", "call"} => labels = {},
               pc \in Pausing => labels # {},
               Goto(c, pc, labels)
        PROVE  TasksOK(task')
    BY <1>1, <1>2 DEF Goto
  <1>3. ASSUME NEW c \in Users, NEW l \in Labels, begin_transaction(c, l)
        PROVE  TasksOK(task') /\ MapOK(state', error_details')
    <2>1. Goto(c, "call", {}) /\ UNCHANGED error_details
      BY <1>3 DEF begin_transaction
    <2>2. state' = [state EXCEPT ![l] = "NotStarted"]
      BY <1>3 DEF begin_transaction
    <2>3. TasksOK(task')
      BY <1>2, <2>1 DEF PCs, Pausing
    <2> QED  BY <1>1, <2>1, <2>2, <2>3 DEF States
  <1>4. ASSUME NEW c \in Users, NEW l \in Labels,
               \/ prepare_transaction(c, l) \/ rollback_transaction(c, l)
               \/ \E d \in Chunks : load_data(c, l, d)
        PROVE  TasksOK(task') /\ MapOK(state', error_details')
    <2>1. Goto(c, "call", {}) /\ UNCHANGED <<state, error_details>>
      BY <1>4 DEF prepare_transaction, rollback_transaction, load_data
    <2> QED  BY <1>1, <1>2, <2>1 DEF PCs, Pausing
  <1>5. ASSUME NEW c \in Users, NEW l \in Labels, commit_transaction(c, l)
        PROVE  TasksOK(task') /\ MapOK(state', error_details')
    <2>1. /\ Goto(c, "autoPrepare", {l}) \/ Goto(c, "call", {})
          /\ UNCHANGED <<state, error_details>>
      BY <1>5 DEF commit_transaction
    <2>2. CASE Goto(c, "autoPrepare", {l})
      BY <1>1, <1>2, <2>1, <2>2 DEF PCs, Pausing
    <2>3. CASE Goto(c, "call", {})
      BY <1>1, <1>2, <2>1, <2>3 DEF PCs, Pausing
    <2> QED  BY <2>1, <2>2, <2>3
  <1>6. ASSUME NEW c \in Users, AutoPrepare(c)
        PROVE  TasksOK(task') /\ MapOK(state', error_details')
    <2>1. PICK l \in task[c].labels : Goto(c, "preparing", {l}) \/ Goto(c, "idle", {})
      BY <1>6 DEF AutoPrepare
    <2>2. l \in Labels
      BY <1>1
    <2>3. MapOK(state', error_details')
      BY <1>1, <1>6 DEF AutoPrepare
    <2>4. CASE Goto(c, "preparing", {l})
      BY <1>2, <2>2, <2>3, <2>4 DEF PCs, Pausing
    <2>5. CASE Goto(c, "idle", {})
      BY <1>2, <2>3, <2>5 DEF PCs, Pausing
    <2> QED  BY <2>1, <2>4, <2>5
  <1>7. ASSUME NEW c \in Users, AutoCommit(c)
        PROVE  TasksOK(task') /\ MapOK(state', error_details')
    <2>1. Goto(c, "call", {}) /\ UNCHANGED <<state, error_details>>
      BY <1>7 DEF AutoCommit
    <2> QED  BY <1>1, <1>2, <2>1 DEF PCs, Pausing
  <1>8. ASSUME NEW c \in Users, RecoverNext(c)
        PROVE  TasksOK(task') /\ MapOK(state', error_details')
    <2>1. PICK l \in task[c].labels : Goto(c, "recovering", task[c].labels \ {l})
      BY <1>8 DEF RecoverNext
    <2>2. task[c].labels \ {l} \subseteq Labels
      BY <1>1
    <2>3. UNCHANGED <<state, error_details>>
      BY <1>8 DEF RecoverNext
    <2> QED  BY <1>1, <1>2, <2>1, <2>2, <2>3 DEF PCs, Pausing
  <1>9. ASSUME NEW c \in Users, NEW stuck \in SUBSET StuckLabels,
               recover_stuck_transactions(c, stuck)
        PROVE  TasksOK(task') /\ MapOK(state', error_details')
    <2>1. stuck \subseteq Labels
      BY DEF StuckLabels
    <2>2. /\ stuck # {}
          /\ Goto(c, "recover", stuck)
          /\ UNCHANGED <<state, error_details>>
      BY <1>9 DEF recover_stuck_transactions
    <2> QED  BY <1>1, <1>2, <2>1, <2>2 DEF PCs, Pausing
  <1>10. ASSUME NEW old \in SUBSET CompletedLabels,
                cleanup_completed_transactions(old)
         PROVE  TasksOK(task') /\ MapOK(state', error_details')
    BY <1>1, <1>10 DEF cleanup_completed_transactions
  <1>11. ASSUME NEW c \in Users, NEW r \in {"ok", "err"}, Complete(c, r)
         PROVE  TasksOK(task') /\ MapOK(state', error_details')
    <2>1. Record(op[c].label, StateAfter(op[c].kind, r), r) /\ Continue(c, r)
      BY <1>11 DEF Complete
    <2>2. MapOK(state', error_details')
      <3>1. StateAfter(op[c].kind, r) \in States
        BY DEF StateAfter, StateIfOk, States
      <3> QED  BY <1>1, <2>1, <3>1 DEF Record
    <2>3. TasksOK(task')
      <3>1. task[c].labels \subseteq Labels
        BY <1>1
      <3>2. task[c].pc = "preparing" => task[c].labels # {}
        BY <1>1 DEF Pausing
      <3>3. CASE task[c].pc = "preparing" /\ r = "ok"
        <4>1. Goto(c, "autoCommit", task[c].labels)
          BY <2>1, <3>3 DEF Continue
        <4> QED  BY <1>2, <3>1, <3>2, <3>3, <4>1 DEF PCs, Pausing
      <3>4. CASE task[c].pc = "recovering" /\ task[c].labels # {}
        <4>1. Goto(c, "recover", task[c].labels)
          BY <2>1, <3>4 DEF Continue
        <4> QED  BY <1>2, <3>1, <3>4, <4>1 DEF PCs, Pausing
      <3>5. CASE /\ ~(task[c].pc = "preparing" /\ r = "ok")
                 /\ ~(task[c].pc = "recovering" /\ task[c].labels # {})
        <4>1. Goto(c, "idle", {})
          BY <2>1, <3>5 DEF Continue
        <4> QED  BY <1>2, <4>1 DEF PCs, Pausing
      <3> QED  BY <3>3, <3>4, <3>5
    <2> QED  BY <2>2, <2>3
  <1>12. ASSUME NEW c \in Users, Abandon(c)
         PROVE  TasksOK(task') /\ MapOK(state', error_details')
    <2>1. Goto(c, "idle", {}) /\ UNCHANGED <<state, error_details>>
      BY <1>12 DEF Abandon
    <2> QED  BY <1>1, <1>2, <2>1 DEF PCs, Pausing
  <1>13. ASSUME UNCHANGED <<state, error_details, task>>
         PROVE  TasksOK(task') /\ MapOK(state', error_details')
    BY <1>1, <1>13
  <1>14. TasksOK(task') /\ MapOK(state', error_details')
    <2> HIDE DEF TasksOK, MapOK
    <2>1. CASE \E c \in Users : TaskGoesOn(c) \/ Answered(c) \/ Abandon(c)
      BY <2>1, <1>6, <1>7, <1>8, <1>11, <1>12 DEF TaskGoesOn, Answered
    <2>2. CASE ClusterActs \/ UNCHANGED trackerVars
      BY <2>2, <1>13 DEF ClusterActs, trackerVars
    <2> QED  BY <2>1, <2>2, <1>3, <1>4, <1>5, <1>9, <1>10 DEF TrackerNext
  <1>15. /\ task' \in [Users -> [pc : PCs, labels : SUBSET Labels]]
         /\ \A c \in Users : /\ task'[c].pc \in {"idle", "call"} => task'[c].labels = {}
                            /\ task'[c].pc \in Pausing => task'[c].labels # {}
         /\ state' \in [Labels -> States \cup {"absent"}]
         /\ error_details' \in [Labels -> BOOLEAN]
    BY <1>14
  <1> HIDE DEF TasksOK, MapOK
  <1> QED  BY <1>15, StepIsOnward DEF TrackerTypeOK, Pausing

\* What the map says of a label stays true while the label advances.
LEMMA TruthStays ==
    ASSUME TrackerTypeOK, TrackerTypeOK', NEW l \in Labels, Truthful(l),
           Advances(server[l], server'[l]),
           state'[l] = state[l], error_details'[l] = error_details[l]
    PROVE  Truthful(l)'
  <1>1. server[l] \in Records /\ server'[l] \in Records
    BY DEF TrackerTypeOK, ServerTypeOK
  <1> QED  BY <1>1 DEF Truthful, Advances, Records, TrackerTypeOK

\* What is written down of an answer is true.
LEMMA AnswerIsTrue ==
    ASSUME TrackerTypeOK, MapIsTruthful, NEW c \in Users, NEW r \in {"ok", "err"},
           Complete(c, r), NEW l \in Labels
    PROVE  Truthful(l)'
  <1>1. /\ op[c] \in TrackerOperations
        /\ r = "ok" => Achieved(op[c])
        /\ UNCHANGED server
    BY DEF Complete, Tell, TrackerTypeOK
  <1>2. op[c].kind \in Kinds /\ op[c].label \in Labels
        /\ (op[c].kind \in {"v1", "load"} => op[c].chunk \in Chunks)
    BY <1>1, OperationFields DEF TrackerOperations
  <1>3. CASE l # op[c].label \/ state[l] = "absent"
    <2>1. state'[l] = state[l] /\ error_details'[l] = error_details[l]
      BY <1>3, <1>2 DEF Complete, Record, TrackerTypeOK
    <2> QED  BY <1>1, <2>1 DEF MapIsTruthful, Truthful
  <1>4. CASE l = op[c].label /\ state[l] # "absent"
    <2>1. /\ state'[l] = StateAfter(op[c].kind, r)
          /\ error_details'[l] = (error_details[l] \/ r = "err")
      BY <1>4, <1>2 DEF Complete, Record, TrackerTypeOK
    <2>2. CASE r = "err"
      <3>1. state'[l] \in {"RolledBack", "Failed"}
        BY <2>1, <2>2 DEF StateAfter, StateIfOk
      <3>2. error_details'[l] = TRUE
        BY <2>1, <2>2
      <3> QED  BY <3>1, <3>2 DEF Truthful
    <2>3. CASE r = "ok"
      <3>1. op[c].kind \in {"begin", "load", "prepare", "commit", "rollback"}
        BY <1>1 DEF TrackerOperations
      <3> QED  BY <1>1, <1>2, <1>4, <2>1, <2>3, <3>1
               DEF StateAfter, StateIfOk, Truthful, Achieved
    <2> QED  BY <2>2, <2>3
  <1> QED  BY <1>3, <1>4

\* Every step keeps the map truthful.
LEMMA TrackerStep ==
    ASSUME TrackerTypeOK, MapIsTruthful, [TrackerNext]_trackerVars
    PROVE  TrackerTypeOK' /\ MapIsTruthful'
  <1>1. TrackerTypeOK'
    BY TrackerTypeStep
  <1>2. \A l \in Labels : Truthful(l) /\ Advances(server[l], server'[l])
    BY StepIsOnward DEF MapIsTruthful
  <1>3. ASSUME NEW l \in Labels,
               state'[l] = state[l], error_details'[l] = error_details[l]
        PROVE  Truthful(l)'
    BY <1>1, <1>2, <1>3, TruthStays
  <1>4. ASSUME UNCHANGED <<state, error_details>>
        PROVE  MapIsTruthful'
    BY <1>3, <1>4 DEF MapIsTruthful
  <1>5. ASSUME NEW c \in Users, NEW l \in Labels, begin_transaction(c, l)
        PROVE  MapIsTruthful'
    <2>1. /\ state' = [state EXCEPT ![l] = "NotStarted"]
          /\ UNCHANGED error_details
      BY <1>5 DEF begin_transaction
    <2>2. state'[l] = "NotStarted"
      BY <2>1 DEF TrackerTypeOK
    <2>3. Truthful(l)'
      BY <2>2 DEF Truthful
    <2>4. ASSUME NEW k \in Labels, k # l
          PROVE  Truthful(k)'
      BY <1>3, <2>1, <2>4 DEF TrackerTypeOK
    <2> QED  BY <2>3, <2>4 DEF MapIsTruthful
  <1>6. ASSUME NEW c \in Users, NEW l \in Labels,
               \/ prepare_transaction(c, l) \/ commit_transaction(c, l)
               \/ rollback_transaction(c, l)
               \/ \E d \in Chunks : load_data(c, l, d)
        PROVE  MapIsTruthful'
    BY <1>4, <1>6
    DEF prepare_transaction, commit_transaction, rollback_transaction, load_data
  <1>7. ASSUME NEW c \in Users, TaskGoesOn(c)
        PROVE  MapIsTruthful'
    BY <1>4, <1>7 DEF TaskGoesOn, AutoPrepare, AutoCommit, RecoverNext
  <1>8. ASSUME NEW c \in Users, Answered(c)
        PROVE  MapIsTruthful'
    BY <1>8, AnswerIsTrue DEF Answered, MapIsTruthful
  <1>9. ASSUME NEW c \in Users, Abandon(c)
        PROVE  MapIsTruthful'
    BY <1>4, <1>9 DEF Abandon
  <1>10. ASSUME NEW c \in Users, NEW stuck, recover_stuck_transactions(c, stuck)
         PROVE  MapIsTruthful'
    BY <1>4, <1>10 DEF recover_stuck_transactions
  <1>11. ASSUME NEW old \in SUBSET CompletedLabels,
                cleanup_completed_transactions(old)
         PROVE  MapIsTruthful'
    <2>1. ASSUME NEW l \in Labels, l \notin old
          PROVE  Truthful(l)'
      BY <1>3, <1>11, <2>1 DEF cleanup_completed_transactions, TrackerTypeOK
    <2>2. ASSUME NEW l \in Labels, l \in old
          PROVE  Truthful(l)'
      <3>1. state'[l] = "absent"
        BY <1>11, <2>2 DEF cleanup_completed_transactions
      <3> QED  BY <3>1 DEF Truthful
    <2> QED  BY <2>1, <2>2 DEF MapIsTruthful
  <1>12. ASSUME ClusterActs \/ UNCHANGED trackerVars
         PROVE  MapIsTruthful'
    BY <1>4, <1>12 DEF ClusterActs, trackerVars
  <1>13. MapIsTruthful'
    BY <1>5, <1>6, <1>7, <1>8, <1>9, <1>10, <1>11, <1>12 DEF TrackerNext
  <1> QED  BY <1>1, <1>13

\* The types are right, and the map is truthful, in every reachable state: a
\* task that writes down a late answer, after whatever other tasks, recovery
\* and cleanup did meanwhile, never claims what the cluster has not done.
THEOREM TrackerInvariant == TrackerSpec => [](TrackerTypeOK /\ MapIsTruthful)
  <1>1. TrackerTypeOK /\ MapIsTruthful /\ [TrackerNext]_trackerVars
            => (TrackerTypeOK /\ MapIsTruthful)'
    BY TrackerStep
  <1> QED  BY <1>1, TrackerInitInv, PTL DEF TrackerSpec

\* The types of the tracker.
THEOREM TrackerTypeCorrect == TrackerSpec => []TrackerTypeOK
  BY TrackerInvariant, PTL

\* In particular the map never claims progress the cluster has not made.
THEOREM MapCanBeTrusted == TrackerSpec => []MapIsTruthful
  BY TrackerInvariant, PTL

\* The map said Committed, or RolledBack without an error noted.
MapCommitted(l) == state[l] = "Committed"
MapRolledBack(l) == state[l] = "RolledBack" /\ ~error_details[l]

\* The map does not contradict itself, at any later time: what it once called
\* committed is committed for ever, and never called rolled back without an
\* error, whatever recovery, cleanup and a new begin of the label make of the
\* entry; and the other way round.
THEOREM MapNeverContradicts ==
    ASSUME NEW l \in Labels
    PROVE  TrackerSpec =>
              /\ [](MapCommitted(l) => [](server[l].state = "committed" /\ ~MapRolledBack(l)))
              /\ [](MapRolledBack(l) => [](server[l].state = "aborted" /\ ~MapCommitted(l)))
  <1> DEFINE Committed == server[l].state = "committed"
             Aborted == server[l].state = "aborted"
  <1>1. MapIsTruthful => /\ MapCommitted(l) => Committed
                         /\ MapRolledBack(l) => Aborted
    BY DEF MapIsTruthful, Truthful, MapCommitted, MapRolledBack
  <1>2. ~(Committed /\ Aborted)
    OBVIOUS
  <1>3. TrackerTypeOK /\ [TrackerNext]_trackerVars
            => (Committed => Committed') /\ (Aborted => Aborted')
    BY StepIsOnward DEF Advances
  <1> HIDE DEF Committed, Aborted
  <1>4. TrackerSpec =>
            /\ [](MapCommitted(l) => [](Committed /\ ~MapRolledBack(l)))
            /\ [](MapRolledBack(l) => [](Aborted /\ ~MapCommitted(l)))
    BY <1>1, <1>2, <1>3, TrackerInvariant, PTL DEF TrackerSpec
  <1> QED  BY <1>4 DEF Committed, Aborted
=============================================================================
