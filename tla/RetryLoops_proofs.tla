-------------------------- MODULE RetryLoops_proofs --------------------------
(***************************************************************************)
(* Proofs about the three loops that retry a load, ExponentialBackoff,     *)
(* ErrorRecovery and HighAvailability, for any number of loops, attempts,  *)
(* labels and nodes, and whatever delays and texts.                        *)
(*                                                                         *)
(* Each of them does only what RetriedSpec allows.  What is stored for a   *)
(* loop is proved of RetriedSpec, once for the three.                      *)
(***************************************************************************)
EXTENDS ExponentialBackoff, ErrorRecovery, HighAvailability, StarRocksServer_proofs,
        FiniteSetTheorems, WellFoundedInduction

\* What a loop asks the SDK for.
BatchLoads == {o \in Operations : o.kind = "v1" /\ o.chunk = Batch}

LoopTypeOK ==
    /\ ServerTypeOK
    /\ asked \subseteq BatchLoads
    /\ op \in [Users -> BatchLoads \cup {NoOp}]
    /\ outcome \in [Users -> Outcomes]
    /\ loop \in [Retriers -> Loops]

\* The cluster has a batch once or not at all under each label.
StoredOnce ==
    \A l \in Labels : \/ server[l].state = "unused" /\ server[l].rows[Batch] = 0
                      \/ server[l].state = "committed" /\ server[l].rows[Batch] = 1

\* A loop uses a new label per attempt at most, and waits for one of them.
LabelsUsed(c) ==
    /\ IsFiniteSet(loop[c].labels) /\ Cardinality(loop[c].labels) <= loop[c].attempts
    /\ loop[c].keeps => Cardinality(loop[c].labels) <= 1
    /\ loop[c].pc = "calling" => op[c] \in BatchLoads /\ op[c].label \in loop[c].labels
    /\ loop[c].pc = "ok" => \E l \in loop[c].labels : server[l].rows[Batch] = 1

LoopInv == LoopTypeOK /\ StoredOnce /\ \A c \in Retriers : LabelsUsed(c)

-----------------------------------------------------------------------------
(* What the steps of a loop do. *)

LEMMA BatchIsChunk == Batch \in Chunks
  BY RetriersAssumption DEF Batch

LEMMA LoopInvInit == RetriedInit => LoopInv
  <1> SUFFICES ASSUME RetriedInit
               PROVE  LoopInv
    OBVIOUS
  <1>1. ServerTypeOK
    BY ServerInitOK DEF RetriedInit, ContractInit
  <1>2. loop \in [Retriers -> Loops]
    BY DEF RetriedInit, Loops, LoopPCs
  <1>3. LoopTypeOK
    BY <1>1, <1>2 DEF RetriedInit, ContractInit, LoopTypeOK, Outcomes
  <1>4. StoredOnce
    BY BatchIsChunk DEF RetriedInit, ContractInit, ServerInit, Unused, StoredOnce
  <1>5. ASSUME NEW c \in Retriers
        PROVE  LabelsUsed(c)
    BY FS_EmptySet DEF RetriedInit, LabelsUsed
  <1> QED  BY <1>3, <1>4, <1>5 DEF LoopInv

\* What a call changes of a loop.
LEMMA CallFields ==
    ASSUME NEW r \in Loops, NEW l \in Labels, NEW n \in Nat
    PROVE  /\ CallWith(r, l, n) \in Loops
           /\ CallWith(r, l, n).pc = "calling" /\ CallWith(r, l, n).keeps = r.keeps
           /\ CallWith(r, l, n).labels = r.labels \cup {l} /\ CallWith(r, l, n).attempts = n
  <1> USE DEF Loops, CallWith
  <1>1. CallWith(r, l, n) \in Loops
    BY DEF LoopPCs
  <1>2. CallWith(r, l, n).pc = "calling" /\ CallWith(r, l, n).keeps = r.keeps
    OBVIOUS
  <1>3. CallWith(r, l, n).labels = r.labels \cup {l}
    OBVIOUS
  <1>4. CallWith(r, l, n).attempts = n
    OBVIOUS
  <1> QED  BY <1>1, <1>2, <1>3, <1>4

\* One more attempt, with the one label or a new one.
LEMMA TryKeeps ==
    ASSUME LoopInv, NEW c \in Retriers, TryLoad(c)
    PROVE  LoopInv'
  <1>0. PICK l \in LabelsFor(c) :
           /\ Ask(c, [kind |-> "v1", label |-> l, chunk |-> Batch, deadline |-> FALSE])
           /\ loop' = [loop EXCEPT ![c] = CallWith(@, l, @.attempts + 1)]
    <2> DEFINE l == CHOOSE l \in LabelsFor(c) : TRUE
    <2>1. l \in LabelsFor(c)
      BY DEF TryLoad
    <2>2. /\ Ask(c, [kind |-> "v1", label |-> l, chunk |-> Batch, deadline |-> FALSE])
          /\ loop' = [loop EXCEPT ![c] = CallWith(@, l, @.attempts + 1)]
      BY Zenon DEF TryLoad
    <2> QED  BY <2>1, <2>2, Zenon
  <1> DEFINE o == [kind |-> "v1", label |-> l, chunk |-> Batch, deadline |-> FALSE]
             new == CallWith(loop[c], l, loop[c].attempts + 1)
  <1>1. loop[c] \in Loops /\ LabelsUsed(c) /\ c \in Users
    BY RetriersAssumption DEF LoopInv, LoopTypeOK
  <1>2. l \in Labels
    BY <1>0, <1>1 DEF LabelsFor, Loops
  <1>3. o \in BatchLoads /\ o.label = l
    BY <1>2, BatchIsChunk DEF BatchLoads, Operations
  <1>4. Ask(c, o) /\ loop' = [loop EXCEPT ![c] = new]
    BY <1>0
  <1>5. /\ new \in Loops /\ new.pc = "calling" /\ new.keeps = loop[c].keeps
        /\ new.labels = loop[c].labels \cup {l} /\ new.attempts = loop[c].attempts + 1
    <2>1. loop[c].attempts + 1 \in Nat
      BY <1>1 DEF Loops
    <2> QED  BY <1>1, <1>2, <2>1, CallFields
  <1>6. /\ IsFiniteSet(loop[c].labels \cup {l})
        /\ Cardinality(loop[c].labels \cup {l}) <= loop[c].attempts + 1
    <2>1. Cardinality(loop[c].labels) \in Nat /\ loop[c].attempts \in Nat
      BY <1>1, FS_CardinalityType DEF LabelsUsed, Loops
    <2>2. IsFiniteSet(loop[c].labels) /\ Cardinality(loop[c].labels) <= loop[c].attempts
      BY <1>1 DEF LabelsUsed
    <2>3. /\ IsFiniteSet(loop[c].labels \cup {l})
          /\ Cardinality(loop[c].labels \cup {l}) =
                IF l \in loop[c].labels THEN Cardinality(loop[c].labels)
                                        ELSE Cardinality(loop[c].labels) + 1
      BY <2>2, FS_AddElement, Zenon
    <2> QED  BY <2>1, <2>2, <2>3
  <1>7. loop[c].keeps => Cardinality(loop[c].labels \cup {l}) <= 1
    <2>1. CASE loop[c].labels # {} /\ loop[c].keeps
      <3>1. loop[c].labels \cup {l} = loop[c].labels
        BY <2>1 DEF LabelsFor
      <3> QED  BY <1>1, <3>1 DEF LabelsUsed
    <2>2. CASE loop[c].labels = {}
      <3>1. loop[c].labels \cup {l} = {l}
        BY <2>2
      <3>2. Cardinality({l}) = 1
        BY FS_Singleton
      <3> QED  BY <3>1, <3>2
    <2> QED  BY <2>1, <2>2
  <1> HIDE DEF o, new
  <1>8. /\ UNCHANGED server
        /\ asked' \subseteq asked \cup {o} /\ op' = [op EXCEPT ![c] = o]
        /\ \E r \in {"none", "err"} : outcome' = [outcome EXCEPT ![c] = r]
    BY <1>4 DEF Ask
  <1>9. LoopTypeOK'
    BY <1>1, <1>3, <1>4, <1>5, <1>8 DEF LoopInv, LoopTypeOK, ServerTypeOK, Records, Outcomes
  <1>10. StoredOnce'
    BY <1>8 DEF LoopInv, StoredOnce
  <1>11. ASSUME NEW u \in Retriers
         PROVE  LabelsUsed(u)'
    <2>1. CASE u = c
      <3>1. loop'[u] = new /\ op'[u] = o
        BY <1>1, <1>4, <1>8, <2>1 DEF LoopInv, LoopTypeOK
      <3> QED  BY <1>3, <1>5, <1>6, <1>7, <3>1 DEF LabelsUsed
    <2>2. CASE u # c
      <3>1. loop'[u] = loop[u] /\ op'[u] = op[u]
        BY <1>4, <1>8, <2>2, RetriersAssumption DEF LoopInv, LoopTypeOK
      <3> QED  BY <1>8, <3>1 DEF LoopInv, LabelsUsed
    <2> QED  BY <2>1, <2>2
  <1> QED  BY <1>9, <1>10, <1>11 DEF LoopInv

\* An answer.  With Ok, the batch is stored under the label that was waited for.
LEMMA AnswerKeeps ==
    ASSUME LoopInv, NEW c \in Retriers, NEW r \in {"ok", "err"}, Tell(c, r),
           NEW to \in {"ok", "asleep", "failed", "panicked"}, to = "ok" => r = "ok",
           LoopTo(c, "calling", to)
    PROVE  LoopInv'
  <1> DEFINE new == [loop[c] EXCEPT !.pc = to]
  <1>1. loop[c] \in Loops /\ LabelsUsed(c) /\ c \in Users /\ loop[c].pc = "calling"
    BY RetriersAssumption DEF LoopInv, LoopTypeOK, LoopTo
  <1>2. /\ UNCHANGED <<server, asked, op>>
        /\ r = "ok" => Achieved(op[c])
        /\ outcome' = [outcome EXCEPT ![c] = r]
    BY DEF Tell
  <1>3. /\ new \in Loops /\ new.pc = to /\ new.keeps = loop[c].keeps
        /\ new.labels = loop[c].labels /\ new.attempts = loop[c].attempts
    BY <1>1 DEF Loops, LoopPCs
  <1>4. loop' = [loop EXCEPT ![c] = new]
    BY DEF LoopTo
  <1>5. to = "ok" => \E l \in loop[c].labels : server[l].rows[Batch] = 1
    <2>1. op[c] \in BatchLoads /\ op[c].label \in loop[c].labels
      BY <1>1 DEF LabelsUsed
    <2>2. op[c].kind = "v1" /\ op[c].chunk = Batch /\ op[c].label \in Labels
      BY <2>1, OperationFields DEF BatchLoads
    <2>3. Achieved(op[c]) => server[op[c].label].state = "committed"
      BY <2>2 DEF Achieved
    <2>4. server[op[c].label].state = "committed" => server[op[c].label].rows[Batch] = 1
      BY <2>2 DEF LoopInv, StoredOnce
    <2> QED  BY <1>2, <2>1, <2>3, <2>4
  <1> HIDE DEF new
  <1>6. LoopTypeOK'
    BY <1>2, <1>3, <1>4 DEF LoopInv, LoopTypeOK, ServerTypeOK, Records, Outcomes
  <1>7. StoredOnce'
    BY <1>2 DEF LoopInv, StoredOnce
  <1>8. ASSUME NEW u \in Retriers
        PROVE  LabelsUsed(u)'
    <2>1. CASE u = c
      <3>1. loop'[u] = new
        BY <1>4, <2>1 DEF LoopInv, LoopTypeOK
      <3> QED  BY <1>1, <1>2, <1>3, <1>5, <3>1 DEF LabelsUsed
    <2>2. CASE u # c
      <3>1. loop'[u] = loop[u]
        BY <1>4, <2>2 DEF LoopInv, LoopTypeOK
      <3> QED  BY <1>2, <3>1 DEF LoopInv, LabelsUsed
    <2> QED  BY <2>1, <2>2
  <1> QED  BY <1>6, <1>7, <1>8 DEF LoopInv

\* Any other step of a loop.
LEMMA MoveKeeps ==
    ASSUME LoopInv, NEW c \in Retriers, UNCHANGED contractVars,
           NEW from, NEW to \in {"trying", "panicked", "failed"}, LoopTo(c, from, to)
    PROVE  LoopInv'
  <1> DEFINE new == [loop[c] EXCEPT !.pc = to]
  <1>1. loop[c] \in Loops /\ LabelsUsed(c)
    BY DEF LoopInv, LoopTypeOK
  <1>2. /\ new \in Loops /\ new.pc = to /\ new.keeps = loop[c].keeps
        /\ new.labels = loop[c].labels /\ new.attempts = loop[c].attempts
    BY <1>1 DEF Loops, LoopPCs
  <1>3. loop' = [loop EXCEPT ![c] = new]
    BY DEF LoopTo
  <1> HIDE DEF new
  <1>4. LoopTypeOK' /\ StoredOnce'
    BY <1>2, <1>3 DEF LoopInv, LoopTypeOK, ServerTypeOK, Records, StoredOnce, contractVars
  <1>5. ASSUME NEW u \in Retriers
        PROVE  LabelsUsed(u)'
    <2>1. CASE u = c
      <3>1. loop'[u] = new
        BY <1>3, <2>1 DEF LoopInv, LoopTypeOK
      <3> QED  BY <1>1, <1>2, <3>1 DEF LabelsUsed, contractVars
    <2>2. CASE u # c
      <3>1. loop'[u] = loop[u]
        BY <1>3, <2>2 DEF LoopInv, LoopTypeOK
      <3> QED  BY <3>1 DEF LoopInv, LabelsUsed, contractVars
    <2> QED  BY <2>1, <2>2
  <1> QED  BY <1>4, <1>5 DEF LoopInv

\* The cluster executes a load, perhaps one whose loop has long given up: it
\* does so once for each label.
LEMMA ClusterKeeps ==
    ASSUME LoopInv, ClusterLoads
    PROVE  LoopInv'
  <1>1. PICK o \in asked : TakeEffect(o)
    BY DEF ClusterLoads
  <1>2. o \in Operations /\ o.kind = "v1" /\ o.chunk = Batch /\ o.label \in Labels
    BY OperationFields DEF LoopInv, LoopTypeOK, BatchLoads
  <1>3. PICK reply : Serve(o, reply)
    BY <1>1 DEF TakeEffect
  <1>4. UNCHANGED <<asked, op, outcome, loop>>
    BY <1>1 DEF TakeEffect, ClusterLoads
  <1>5. ServerTypeOK'
    BY <1>2, <1>3, ServeAdvances DEF LoopInv, LoopTypeOK
  <1>6. UNCHANGED server \/ ServeV1(o, reply)
    BY <1>2, <1>3 DEF Serve, Refuse, ServeBegin, ServeLoad, ServePrepare, ServeCommit,
                      ServeAbort, ServeStatus
  <1>7. ASSUME ServeV1(o, reply)
        PROVE  /\ server[o.label].state = "unused"
               /\ server' = [server EXCEPT ![o.label] =
                      [@ EXCEPT !.state = "committed", !.direct = TRUE,
                                !.rows = Store(o.label, o.chunk)]]
    BY <1>7 DEF ServeV1
  <1>8. ASSUME NEW l \in Labels
        PROVE  \/ server'[l] = server[l]
               \/ /\ server[l].state = "unused" /\ server'[l].state = "committed"
                  /\ server'[l].rows[Batch] = server[l].rows[Batch] + 1
    <2> DEFINE rows == Store(o.label, o.chunk)
    <2>1. rows[Batch] = server[o.label].rows[Batch] + 1
      BY <1>2, BatchIsChunk DEF Store, LoopInv, LoopTypeOK, ServerTypeOK, Records
    <2>2. CASE ServeV1(o, reply)
      <3>1. /\ server[o.label].state = "unused"
            /\ server' = [server EXCEPT ![o.label] =
                   [@ EXCEPT !.state = "committed", !.direct = TRUE, !.rows = rows]]
        BY <1>7, <2>2
      <3> HIDE DEF rows
      <3> QED  BY <1>2, <2>1, <3>1 DEF LoopInv, LoopTypeOK, ServerTypeOK, Records
    <2> QED  BY <1>6, <2>2
  <1>9. StoredOnce'
    BY <1>8 DEF LoopInv, StoredOnce
  <1>10. ASSUME NEW c \in Retriers
         PROVE  LabelsUsed(c)'
    <2>1. loop[c].labels \subseteq Labels
      BY DEF LoopInv, LoopTypeOK, Loops
    <2>2. \A l \in Labels : server[l].rows[Batch] = 1 => server'[l].rows[Batch] = 1
      BY <1>8 DEF LoopInv, StoredOnce
    <2> QED  BY <1>4, <2>1, <2>2 DEF LoopInv, LabelsUsed
  <1>11. LoopTypeOK'
    BY <1>4, <1>5 DEF LoopInv, LoopTypeOK
  <1> QED  BY <1>9, <1>10, <1>11 DEF LoopInv

LEMMA LoopInvStep ==
    ASSUME LoopInv, [RetriedNext]_retriedVars
    PROVE  LoopInv'
  <1>1. CASE UNCHANGED retriedVars
    BY <1>1 DEF LoopInv, LoopTypeOK, ServerTypeOK, Records, StoredOnce, LabelsUsed,
                retriedVars, contractVars
  <1>2. CASE ClusterLoads
    BY <1>2, ClusterKeeps
  <1>3. ASSUME NEW c \in Retriers, RetriedStep(c)
        PROVE  LoopInv'
    <2>1. CASE TryLoad(c)
      BY <2>1, TryKeeps
    <2>2. CASE LoadOk(c)
      BY <2>2, AnswerKeeps DEF LoadOk
    <2>3. ASSUME NEW next \in {"asleep", "failed", "panicked"}, LoadErr(c, next)
          PROVE  LoopInv'
      BY <2>3, AnswerKeeps DEF LoadErr
    <2>4. ASSUME NEW first \in {"trying", "panicked"}, StartLoop(c, first)
          PROVE  LoopInv'
      BY <2>4, MoveKeeps DEF StartLoop
    <2>5. CASE WakeUp(c)
      BY <2>5, MoveKeeps DEF WakeUp
    <2>6. CASE LoopTo(c, "trying", "failed") /\ UNCHANGED contractVars
      BY <2>6, MoveKeeps
    <2> QED  BY <1>3, <2>1, <2>2, <2>3, <2>4, <2>5, <2>6 DEF RetriedStep
  <1> QED  BY <1>1, <1>2, <1>3 DEF RetriedNext

\* A loop uses one label per attempt, or one for all, and the cluster has the
\* batch at most once under each.
THEOREM LoopInvariant == RetriedSpec => []LoopInv
  BY LoopInvInit, LoopInvStep, PTL DEF RetriedSpec

\* Retries do not multiply what is stored, and an Ok is true.
LEMMA LoopInvSafe ==
    ASSUME LoopInv
    PROVE  /\ RetriesDoNotMultiply /\ LoopOkIsStored
           /\ \A c \in Retriers : Copies(c) \in 0..loop[c].attempts
  <1> SUFFICES ASSUME NEW c \in Retriers
               PROVE  /\ Copies(c) <= IF loop[c].keeps THEN 1 ELSE loop[c].attempts
                      /\ Copies(c) \in 0..loop[c].attempts
                      /\ loop[c].pc = "ok" => Copies(c) > 0
    BY DEF RetriesDoNotMultiply, LoopOkIsStored
  <1> DEFINE ls == loop[c].labels
             place == [x \in Stored(c) |-> x[1]]
  <1>1. /\ loop[c] \in Loops /\ LabelsUsed(c)
        /\ \A l \in ls : server[l].rows[Batch] \in {0, 1}
    BY DEF LoopInv, LoopTypeOK, StoredOnce, Loops
  <1>2. ASSUME NEW x \in Stored(c)
        PROVE  x[1] \in ls /\ x = <<x[1], 1>>
    BY <1>1 DEF Stored
  <1>3. place \in Injection(Stored(c), ls)
    BY <1>2 DEF Injection, IsInjective
  <1>4. /\ IsFiniteSet(ls) /\ Cardinality(ls) <= loop[c].attempts
        /\ loop[c].keeps => Cardinality(ls) <= 1
    BY <1>1 DEF LabelsUsed
  <1>5. IsFiniteSet(Stored(c)) /\ Cardinality(Stored(c)) <= Cardinality(ls)
    BY <1>3, <1>4, FS_Injection
  <1>6. /\ Cardinality(ls) \in Nat /\ Cardinality(Stored(c)) \in Nat
        /\ loop[c].attempts \in Nat
    BY <1>1, <1>4, <1>5, FS_CardinalityType DEF Loops
  <1>7. ASSUME loop[c].pc = "ok"
        PROVE  Cardinality(Stored(c)) # 0
    <2>1. PICK l \in ls : server[l].rows[Batch] = 1
      BY <1>1, <1>7 DEF LabelsUsed
    <2>2. <<l, 1>> \in Stored(c)
      BY <2>1 DEF Stored
    <2> QED  BY <1>5, <2>2, FS_EmptySet
  <1>8. Copies(c) = Cardinality(Stored(c))
    BY DEF Copies
  <1> HIDE DEF ls
  <1>9. CASE loop[c].keeps
    BY <1>4, <1>5, <1>6, <1>7, <1>8, <1>9
  <1>10. CASE ~loop[c].keeps
    BY <1>4, <1>5, <1>6, <1>7, <1>8, <1>10
  <1> QED  BY <1>9, <1>10

-----------------------------------------------------------------------------
(* The three loops are such loops, and users of the contract.              *)

LEMMA BackoffIsRetried ==
    /\ BackoffInit => RetriedInit
    /\ [BackoffNext]_backoffVars => [RetriedNext]_retriedVars
  <1>1. ASSUME NEW c \in Retriers, StartBackoff(c) \/ BackoffStep(c)
        PROVE  RetriedStep(c)
    BY <1>1 DEF StartBackoff, BackoffStep, TryBackoff, BackoffOk, BackoffSleeps, BackoffFails,
                BackoffWakes, RetriedStep
  <1> QED  BY <1>1 DEF BackoffInit, BackoffNext, RetriedNext, backoffVars

LEMMA RecoveryIsRetried ==
    /\ RecoveryInit => RetriedInit
    /\ [RecoveryNext]_recoveryVars => [RetriedNext]_retriedVars
  <1>1. ASSUME NEW c \in Retriers, StartRecovery(c) \/ RecoveryStep(c)
        PROVE  RetriedStep(c)
    BY <1>1 DEF StartRecovery, RecoveryStep, TryRecovery, RecoveryOk, RecoveryWakes,
                HandleError, RetriedStep
  <1> QED  BY <1>1 DEF RecoveryInit, RecoveryNext, RetriedNext, recoveryVars

LEMMA HAIsRetried ==
    /\ HAInit => RetriedInit
    /\ [HANext]_haVars => [RetriedNext]_retriedVars
  <1>1. ASSUME NEW c \in Retriers, StartHA(c) \/ HAStep(c)
        PROVE  RetriedStep(c)
    BY <1>1 DEF StartHA, HAStep, TryHealthy, NoHealthyNodes, HAOk, HAErr, HAWakes, RetriedStep
  <1>2. ASSUME BeginRound \/ Check
        PROVE  UNCHANGED retriedVars
    BY <1>2 DEF BeginRound, Check, check_node_health
  <1> QED  BY <1>1, <1>2 DEF HAInit, HANext, RetriedNext, haVars

\* The three examples make loops of one kind: they start, attempt, sleep and
\* end as RetriedSpec says, whatever they do besides.
THEOREM ThreeRetryLoops == BackoffSpec \/ RecoverySpec \/ HASpec => RetriedSpec
  BY BackoffIsRetried, RecoveryIsRetried, HAIsRetried, PTL
     DEF BackoffSpec, RecoverySpec, HASpec, RetriedSpec

\* Lost answers and late requests included, a batch is stored at most once for
\* a loop that keeps its label, and once per attempt for one that does not.
THEOREM RetriesStoreOnce ==
    BackoffSpec \/ RecoverySpec \/ HASpec => []RetriesDoNotMultiply
  <1>1. LoopInv => RetriesDoNotMultiply
    BY LoopInvSafe
  <1> QED  BY <1>1, LoopInvariant, ThreeRetryLoops, PTL

\* exponential_backoff, execute_with_recovery and send_with_failover return Ok
\* only for a batch that is stored.
THEOREM RetriedOkIsStored ==
    BackoffSpec \/ RecoverySpec \/ HASpec => []LoopOkIsStored
  <1>1. LoopInv => LoopOkIsStored
    BY LoopInvSafe
  <1> QED  BY <1>1, LoopInvariant, ThreeRetryLoops, PTL

-----------------------------------------------------------------------------
(* How often a loop tries.                                                 *)

\* A loop goes on only if it may try once more.
AttemptsWithin(max) ==
    \A c \in Retriers :
        /\ loop[c].attempts <= max
        /\ loop[c].pc = "idle" => loop[c].attempts = 0
        /\ loop[c].pc \in {"trying", "asleep"} => loop[c].attempts < max

CopiesWithin(max) == \A c \in Retriers : Copies(c) <= max

LEMMA AttemptsInit ==
    ASSUME RetriedInit, NEW max \in Nat
    PROVE  AttemptsWithin(max)
  BY DEF RetriedInit, AttemptsWithin

\* Between two calls, and when one is answered.
LEMMA AttemptsMove ==
    ASSUME LoopInv, NEW max \in Nat, AttemptsWithin(max), NEW c \in Retriers,
           NEW from, NEW to, LoopTo(c, from, to), to # "idle",
           to \in {"trying", "asleep"} => loop[c].attempts < max
    PROVE  AttemptsWithin(max)'
  <1>1. loop \in [Retriers -> Loops]
    BY DEF LoopInv, LoopTypeOK
  <1>2. /\ loop'[c].pc = to /\ loop'[c].attempts = loop[c].attempts
        /\ \A u \in Retriers \ {c} : loop'[u] = loop[u]
    BY <1>1 DEF LoopTo, Loops
  <1> QED  BY <1>2 DEF AttemptsWithin

\* A call is one attempt more.
LEMMA AttemptsTry ==
    ASSUME LoopInv, NEW max \in Nat, AttemptsWithin(max), NEW c \in Retriers, TryLoad(c)
    PROVE  AttemptsWithin(max)'
  <1>1. loop \in [Retriers -> Loops]
    BY DEF LoopInv, LoopTypeOK
  <1>2. PICK l : loop' = [loop EXCEPT ![c] = CallWith(@, l, @.attempts + 1)]
    BY Zenon DEF TryLoad
  <1>3. /\ loop'[c].pc = "calling" /\ loop'[c].attempts = loop[c].attempts + 1
        /\ \A u \in Retriers \ {c} : loop'[u] = loop[u]
    BY <1>1, <1>2 DEF CallWith, Loops
  <1>4. loop[c].attempts \in Nat /\ loop[c].attempts < max
    BY <1>1 DEF TryLoad, AttemptsWithin, Loops
  <1> QED  BY <1>3, <1>4 DEF AttemptsWithin

LEMMA BackoffAttempts ==
    ASSUME LoopInv, AttemptsWithin(max_attempts), [BackoffNext]_backoffVars
    PROVE  AttemptsWithin(max_attempts)'
  <1> USE BackoffAssumption
  <1>1. ASSUME UNCHANGED loop
        PROVE  AttemptsWithin(max_attempts)'
    BY <1>1 DEF AttemptsWithin
  <1>2. ASSUME NEW c \in Retriers, StartBackoff(c)
        PROVE  AttemptsWithin(max_attempts)'
    <2>1. loop[c].pc = "idle"
      BY <1>2 DEF StartBackoff, StartLoop, LoopTo
    <2>2. loop[c].attempts = 0
      BY <2>1 DEF AttemptsWithin
    <2> QED  BY <1>2, <2>2, AttemptsMove DEF StartBackoff, StartLoop
  <1>3. ASSUME NEW c \in Retriers, BackoffSleeps(c) \/ BackoffFails(c) \/ BackoffOk(c)
        PROVE  AttemptsWithin(max_attempts)'
    BY <1>3, AttemptsMove DEF BackoffSleeps, BackoffFails, BackoffOk, LoadErr, LoadOk
  <1>4. ASSUME NEW c \in Retriers, BackoffWakes(c)
        PROVE  AttemptsWithin(max_attempts)'
    <2>1. loop[c].attempts < max_attempts
      BY <1>4 DEF BackoffWakes, WakeUp, LoopTo, AttemptsWithin
    <2> QED  BY <1>4, <2>1, AttemptsMove DEF BackoffWakes, WakeUp
  <1>5. ASSUME NEW c \in Retriers, TryBackoff(c)
        PROVE  AttemptsWithin(max_attempts)'
    BY <1>5, AttemptsTry DEF TryBackoff
  <1>6. CASE ClusterLoads \/ UNCHANGED backoffVars
    BY <1>1, <1>6 DEF ClusterLoads, backoffVars, retriedVars
  <1> QED  BY <1>2, <1>3, <1>4, <1>5, <1>6 DEF BackoffNext, BackoffStep

LEMMA RecoveryAttempts ==
    ASSUME LoopInv, AttemptsWithin(max_retries + 1), [RecoveryNext]_recoveryVars
    PROVE  AttemptsWithin(max_retries + 1)'
  <1>0. max_retries + 1 \in Nat
    BY RecoveryAssumption
  <1>1. ASSUME UNCHANGED loop
        PROVE  AttemptsWithin(max_retries + 1)'
    BY <1>1 DEF AttemptsWithin
  <1>2. ASSUME NEW c \in Retriers, StartRecovery(c)
        PROVE  AttemptsWithin(max_retries + 1)'
    <2>1. loop[c].pc = "idle"
      BY <1>2 DEF StartRecovery, StartLoop, LoopTo
    <2>2. loop[c].attempts = 0
      BY <2>1 DEF AttemptsWithin
    <2> QED  BY <1>0, <1>2, <2>2, RecoveryAssumption, AttemptsMove DEF StartRecovery, StartLoop
  <1>3. ASSUME NEW c \in Retriers, NEW text \in Texts, HandleError(c, text)
        PROVE  AttemptsWithin(max_retries + 1)'
    <2>1. PICK next \in {"asleep", "failed"} :
              LoadErr(c, next) /\ (next = "asleep" => loop[c].attempts <= max_retries)
      BY <1>3, Zenon DEF HandleError
    <2>2. loop[c].attempts \in Nat
      BY DEF LoopInv, LoopTypeOK, Loops
    <2>3. next = "asleep" => loop[c].attempts < max_retries + 1
      BY <2>1, <2>2, RecoveryAssumption
    <2> QED  BY <1>0, <2>1, <2>3, AttemptsMove DEF LoadErr
  <1>4. ASSUME NEW c \in Retriers, RecoveryOk(c)
        PROVE  AttemptsWithin(max_retries + 1)'
    BY <1>0, <1>4, AttemptsMove DEF RecoveryOk, LoadOk
  <1>5. ASSUME NEW c \in Retriers, RecoveryWakes(c)
        PROVE  AttemptsWithin(max_retries + 1)'
    <2>1. loop[c].attempts < max_retries + 1
      BY <1>5 DEF RecoveryWakes, WakeUp, LoopTo, AttemptsWithin
    <2> QED  BY <1>0, <1>5, <2>1, AttemptsMove DEF RecoveryWakes, WakeUp
  <1>6. ASSUME NEW c \in Retriers, TryRecovery(c)
        PROVE  AttemptsWithin(max_retries + 1)'
    BY <1>0, <1>6, AttemptsTry DEF TryRecovery
  <1>7. CASE ClusterLoads \/ UNCHANGED recoveryVars
    BY <1>1, <1>7 DEF ClusterLoads, recoveryVars, retriedVars
  <1> QED  BY <1>2, <1>3, <1>4, <1>5, <1>6, <1>7 DEF RecoveryNext, RecoveryStep

LEMMA HAAttempts ==
    ASSUME LoopInv, AttemptsWithin(3), [HANext]_haVars
    PROVE  AttemptsWithin(3)'
  <1>1. ASSUME UNCHANGED loop
        PROVE  AttemptsWithin(3)'
    BY <1>1 DEF AttemptsWithin
  <1>2. ASSUME NEW c \in Retriers, StartHA(c)
        PROVE  AttemptsWithin(3)'
    <2>1. loop[c].pc = "idle"
      BY <1>2 DEF StartHA, StartLoop, LoopTo
    <2>2. loop[c].attempts = 0
      BY <2>1 DEF AttemptsWithin
    <2> QED  BY <1>2, <2>2, AttemptsMove DEF StartHA, StartLoop
  <1>3. ASSUME NEW c \in Retriers, HAErr(c)
        PROVE  AttemptsWithin(3)'
    <2>1. loop[c].attempts \in Nat
      BY DEF LoopInv, LoopTypeOK, Loops
    <2> QED  BY <1>3, <2>1, AttemptsMove DEF HAErr, LoadErr
  <1>4. ASSUME NEW c \in Retriers, HAOk(c) \/ NoHealthyNodes(c)
        PROVE  AttemptsWithin(3)'
    BY <1>4, AttemptsMove DEF HAOk, LoadOk, NoHealthyNodes
  <1>5. ASSUME NEW c \in Retriers, HAWakes(c)
        PROVE  AttemptsWithin(3)'
    <2>1. loop[c].attempts < 3
      BY <1>5 DEF HAWakes, WakeUp, LoopTo, AttemptsWithin
    <2> QED  BY <1>5, <2>1, AttemptsMove DEF HAWakes, WakeUp
  <1>6. ASSUME NEW c \in Retriers, TryHealthy(c)
        PROVE  AttemptsWithin(3)'
    BY <1>6, AttemptsTry DEF TryHealthy
  <1>7. CASE ClusterLoads \/ BeginRound \/ Check \/ UNCHANGED haVars
    BY <1>1, <1>7 DEF ClusterLoads, BeginRound, Check, check_node_health, haVars, retriedVars
  <1> QED  BY <1>2, <1>3, <1>4, <1>5, <1>6, <1>7 DEF HANext, HAStep

LEMMA CopiesFollowAttempts ==
    ASSUME LoopInv, NEW max \in Nat, AttemptsWithin(max)
    PROVE  CopiesWithin(max)
  <1> SUFFICES ASSUME NEW c \in Retriers PROVE Copies(c) <= max
    BY DEF CopiesWithin
  <1>1. loop[c].attempts \in Nat /\ loop[c].attempts <= max
    BY DEF LoopInv, LoopTypeOK, Loops, AttemptsWithin
  <1> QED  BY <1>1, LoopInvSafe

\* What the settings bound: however answers are lost and requests late, a
\* batch is stored no more often than max_attempts, max_retries and one, or
\* the three turns of send_with_failover, whatever labels the loop makes.
THEOREM CopiesWithinSettings ==
    /\ BackoffSpec => []CopiesWithin(max_attempts)
    /\ RecoverySpec => []CopiesWithin(max_retries + 1)
    /\ HASpec => []CopiesWithin(3)
  <1>0. max_attempts \in Nat /\ max_retries + 1 \in Nat /\ 3 \in Nat
    BY BackoffAssumption, RecoveryAssumption
  <1>1. BackoffSpec => []CopiesWithin(max_attempts)
    <2>1. BackoffInit => AttemptsWithin(max_attempts)
      BY <1>0, AttemptsInit DEF BackoffInit
    <2>2. LoopInv /\ AttemptsWithin(max_attempts) => CopiesWithin(max_attempts)
      BY <1>0, CopiesFollowAttempts
    <2>3. LoopInv /\ AttemptsWithin(max_attempts) /\ [BackoffNext]_backoffVars
            => AttemptsWithin(max_attempts)'
      BY BackoffAttempts
    <2> QED  BY <2>1, <2>2, <2>3, LoopInvariant, ThreeRetryLoops, PTL DEF BackoffSpec
  <1>2. RecoverySpec => []CopiesWithin(max_retries + 1)
    <2>1. RecoveryInit => AttemptsWithin(max_retries + 1)
      BY <1>0, AttemptsInit DEF RecoveryInit
    <2>2. LoopInv /\ AttemptsWithin(max_retries + 1) => CopiesWithin(max_retries + 1)
      BY <1>0, CopiesFollowAttempts
    <2>3. LoopInv /\ AttemptsWithin(max_retries + 1) /\ [RecoveryNext]_recoveryVars
            => AttemptsWithin(max_retries + 1)'
      BY RecoveryAttempts
    <2> QED  BY <2>1, <2>2, <2>3, LoopInvariant, ThreeRetryLoops, PTL DEF RecoverySpec
  <1>3. HASpec => []CopiesWithin(3)
    <2>1. HAInit => AttemptsWithin(3)
      BY <1>0, AttemptsInit DEF HAInit
    <2>2. LoopInv /\ AttemptsWithin(3) => CopiesWithin(3)
      BY <1>0, CopiesFollowAttempts
    <2>3. LoopInv /\ AttemptsWithin(3) /\ [HANext]_haVars => AttemptsWithin(3)'
      BY HAAttempts
    <2> QED  BY <2>1, <2>2, <2>3, LoopInvariant, ThreeRetryLoops, PTL DEF HASpec
  <1> QED  BY <1>1, <1>2, <1>3

-----------------------------------------------------------------------------
(* How long a loop goes on.                                                *)

\* Steps a loop may still make: three for each attempt that is left, and
\* those to the end of the present one.
LoopStepsLeft(c, max) ==
    3 * (max - loop[c].attempts)
        + CASE loop[c].pc = "calling" -> 2
            [] loop[c].pc = "asleep" -> 1
            [] OTHER -> 0

\* Each step of a loop that goes on takes one of them.
LoopStepTaken(max) ==
    \A c \in Retriers :
        Looping(c) /\ Looping(c)' /\ loop'[c] # loop[c]
            => LoopStepsLeft(c, max)' \in 0 .. (LoopStepsLeft(c, max) - 1)

LEMMA LoopStepsShrink ==
    ASSUME LoopInv, LoopInv', NEW max \in Nat, AttemptsWithin(max), AttemptsWithin(max)',
           [RetriedNext]_retriedVars
    PROVE  LoopStepTaken(max)
  <1> SUFFICES ASSUME NEW c \in Retriers, Looping(c), Looping(c)', loop'[c] # loop[c]
               PROVE  LoopStepsLeft(c, max)' \in 0 .. (LoopStepsLeft(c, max) - 1)
    BY DEF LoopStepTaken
  <1>1. /\ loop \in [Retriers -> Loops] /\ loop[c].attempts \in 0..max
        /\ loop'[c].attempts \in 0..max
    BY DEF LoopInv, LoopTypeOK, Loops, AttemptsWithin
  <1>2. PICK u \in Retriers : RetriedStep(u)
    BY DEF RetriedNext, ClusterLoads, retriedVars
  <1>3. ASSUME NEW from, NEW to, LoopTo(u, from, to)
        PROVE  /\ u = c /\ loop[c].pc = from /\ loop'[c].pc = to
               /\ loop'[c].attempts = loop[c].attempts
    BY <1>1, <1>3 DEF LoopTo, Loops
  <1>4. CASE TryLoad(u)
    <2>1. PICK l : loop' = [loop EXCEPT ![u] = CallWith(@, l, @.attempts + 1)]
      BY <1>4, Zenon DEF TryLoad
    <2>2. /\ u = c /\ loop[c].pc = "trying" /\ loop'[c].pc = "calling"
          /\ loop'[c].attempts = loop[c].attempts + 1
      BY <1>1, <1>4, <2>1 DEF TryLoad, CallWith, Loops
    <2> QED  BY <1>1, <2>2 DEF LoopStepsLeft
  <1>5. CASE \E next \in {"asleep", "failed", "panicked"} : LoadErr(u, next)
    <2>1. PICK next \in {"asleep", "failed", "panicked"} : LoopTo(u, "calling", next)
      BY <1>5 DEF LoadErr
    <2>2. /\ loop[c].pc = "calling" /\ loop'[c].pc = "asleep"
          /\ loop'[c].attempts = loop[c].attempts
      BY <1>3, <2>1 DEF Looping
    <2> QED  BY <1>1, <2>2 DEF LoopStepsLeft
  <1>6. CASE WakeUp(u)
    <2>1. /\ loop[c].pc = "asleep" /\ loop'[c].pc = "trying"
          /\ loop'[c].attempts = loop[c].attempts
      BY <1>3, <1>6 DEF WakeUp
    <2> QED  BY <1>1, <2>1 DEF LoopStepsLeft
  <1>7. CASE \/ \E first \in {"trying", "panicked"} : StartLoop(u, first)
             \/ LoadOk(u)
             \/ LoopTo(u, "trying", "failed") /\ UNCHANGED contractVars
    BY <1>3, <1>7 DEF StartLoop, LoadOk, Looping
  <1> QED  BY <1>2, <1>4, <1>5, <1>6, <1>7 DEF RetriedStep

\* The safety half of LoopEnds, for any settings: a loop that goes on makes at
\* most three steps for each attempt it is allowed.
THEOREM LoopsComeToAnEnd ==
    /\ BackoffSpec => [][LoopStepTaken(max_attempts)]_loop
    /\ RecoverySpec => [][LoopStepTaken(max_retries + 1)]_loop
    /\ HASpec => [][LoopStepTaken(3)]_loop
  <1>0. max_attempts \in Nat /\ max_retries + 1 \in Nat /\ 3 \in Nat
    BY BackoffAssumption, RecoveryAssumption
  <1>1. BackoffSpec => [][LoopStepTaken(max_attempts)]_loop
    <2>1. BackoffInit => AttemptsWithin(max_attempts)
      BY <1>0, AttemptsInit DEF BackoffInit
    <2>2. LoopInv /\ AttemptsWithin(max_attempts) /\ [BackoffNext]_backoffVars
            => AttemptsWithin(max_attempts)'
      BY BackoffAttempts
    <2>3. LoopInv /\ LoopInv' /\ AttemptsWithin(max_attempts) /\ AttemptsWithin(max_attempts)'
            /\ [RetriedNext]_retriedVars => LoopStepTaken(max_attempts)
      BY <1>0, LoopStepsShrink
    <2> QED  BY <2>1, <2>2, <2>3, LoopInvariant, ThreeRetryLoops, PTL
             DEF BackoffSpec, RetriedSpec
  <1>2. RecoverySpec => [][LoopStepTaken(max_retries + 1)]_loop
    <2>1. RecoveryInit => AttemptsWithin(max_retries + 1)
      BY <1>0, AttemptsInit DEF RecoveryInit
    <2>2. LoopInv /\ AttemptsWithin(max_retries + 1) /\ [RecoveryNext]_recoveryVars
            => AttemptsWithin(max_retries + 1)'
      BY RecoveryAttempts
    <2>3. LoopInv /\ LoopInv' /\ AttemptsWithin(max_retries + 1)
            /\ AttemptsWithin(max_retries + 1)'
            /\ [RetriedNext]_retriedVars => LoopStepTaken(max_retries + 1)
      BY <1>0, LoopStepsShrink
    <2> QED  BY <2>1, <2>2, <2>3, LoopInvariant, ThreeRetryLoops, PTL
             DEF RecoverySpec, RetriedSpec
  <1>3. HASpec => [][LoopStepTaken(3)]_loop
    <2>1. HAInit => AttemptsWithin(3)
      BY <1>0, AttemptsInit DEF HAInit
    <2>2. LoopInv /\ AttemptsWithin(3) /\ [HANext]_haVars => AttemptsWithin(3)'
      BY HAAttempts
    <2>3. LoopInv /\ LoopInv' /\ AttemptsWithin(3) /\ AttemptsWithin(3)'
            /\ [RetriedNext]_retriedVars => LoopStepTaken(3)
      BY <1>0, LoopStepsShrink
    <2> QED  BY <2>1, <2>2, <2>3, LoopInvariant, ThreeRetryLoops, PTL
             DEF HASpec, RetriedSpec
  <1> QED  BY <1>1, <1>2, <1>3

-----------------------------------------------------------------------------
(* The health of nodes.                                                    *)

Health == {"Healthy", "Degraded", "Unavailable"}

NodeRecords == [health : Health, failure_count : Nat, success_count : Nat,
                checks : Nat, answered : BOOLEAN]

\* What is known of a node: the failures are those since its last success, if
\* it ever had one, and its health is computed from its counts.
CountsAgree(r) ==
    /\ r.failure_count <= r.checks
    /\ r.answered => r.failure_count = 0 /\ r.success_count > 0
    /\ r.failure_count = r.checks => r.success_count = 0
    /\ r.checks > 0 => r.health = update_health(r.failure_count, r.success_count)

\* In a round the nodes before its turn were checked once more than the rest.
ChecksDue(n) == IF turn # 0 /\ n >= turn THEN rounds - 1 ELSE rounds

MonitorInv ==
    /\ node \in [1..Nodes -> NodeRecords]
    /\ turn \in 0..Nodes /\ rounds \in Nat
    /\ \A n \in 1..Nodes : CountsAgree(node[n]) /\ node[n].checks = ChecksDue(n)

\* One check gives a node of these types whose counts agree.
LEMMA CheckAgrees ==
    ASSUME MonitorInv, NEW n \in 1..Nodes, NEW ok \in BOOLEAN,
           NEW new, new = [health |-> update_health(CheckCounts(n, ok).failures,
                                                    CheckCounts(n, ok).successes),
                           failure_count |-> CheckCounts(n, ok).failures,
                           success_count |-> CheckCounts(n, ok).successes,
                           checks |-> node[n].checks + 1, answered |-> ok]
    PROVE  new \in NodeRecords /\ CountsAgree(new) /\ new.checks = node[n].checks + 1
  <1>1. node[n] \in NodeRecords /\ CountsAgree(node[n])
    BY DEF MonitorInv
  <1>2. CheckCounts(n, ok).failures \in Nat /\ CheckCounts(n, ok).successes \in Nat
    BY <1>1 DEF CheckCounts, NodeRecords
  <1>3. \A f, s : update_health(f, s) \in Health
    BY DEF update_health, Health
  <1>4. new \in NodeRecords /\ new.checks = node[n].checks + 1
    BY <1>2, <1>3, <1>1 DEF NodeRecords
  <1>5. new.failure_count <= new.checks
    BY <1>1 DEF CheckCounts, NodeRecords, CountsAgree
  <1>6. new.answered => new.failure_count = 0 /\ new.success_count > 0
    BY <1>1 DEF CheckCounts, NodeRecords
  <1>7. new.failure_count = new.checks => new.success_count = 0
    BY <1>1 DEF CheckCounts, NodeRecords, CountsAgree
  <1> QED  BY <1>4, <1>5, <1>6, <1>7 DEF CountsAgree

LEMMA MonitorStep ==
    ASSUME MonitorInv, [HANext]_haVars
    PROVE  MonitorInv'
  <1> USE HAAssumption
  <1>1. ASSUME UNCHANGED monitorVars
        PROVE  MonitorInv'
    BY <1>1 DEF MonitorInv, monitorVars, CountsAgree, ChecksDue
  <1>2. CASE BeginRound
    BY <1>2 DEF MonitorInv, BeginRound, CountsAgree, ChecksDue
  <1>3. ASSUME NEW ok \in BOOLEAN, check_node_health(ok)
        PROVE  MonitorInv'
    <2> DEFINE new == [health |-> update_health(CheckCounts(turn, ok).failures,
                                                CheckCounts(turn, ok).successes),
                       failure_count |-> CheckCounts(turn, ok).failures,
                       success_count |-> CheckCounts(turn, ok).successes,
                       checks |-> node[turn].checks + 1, answered |-> ok]
    <2>1. /\ turn \in 1..Nodes /\ rounds' = rounds
          /\ turn' = IF turn < Nodes THEN turn + 1 ELSE 0
          /\ node' = [node EXCEPT ![turn] = new]
      BY <1>3 DEF MonitorInv, check_node_health
    <2>2. new \in NodeRecords /\ CountsAgree(new) /\ new.checks = node[turn].checks + 1
      BY <2>1, CheckAgrees
    <2> HIDE DEF new
    <2>3. node' \in [1..Nodes -> NodeRecords] /\ turn' \in 0..Nodes /\ rounds' \in Nat
      BY <2>1, <2>2 DEF MonitorInv
    <2>4. ASSUME NEW n \in 1..Nodes
          PROVE  CountsAgree(node'[n]) /\ node'[n].checks = ChecksDue(n)'
      <3>1. CASE n = turn
        BY <2>1, <2>2, <3>1 DEF MonitorInv, ChecksDue
      <3>2. CASE n # turn
        BY <2>1, <3>2 DEF MonitorInv, ChecksDue
      <3> QED  BY <3>1, <3>2
    <2> QED  BY <2>3, <2>4 DEF MonitorInv, CountsAgree
  <1>4. ASSUME NEW c \in Retriers, StartHA(c) \/ HAStep(c)
        PROVE  UNCHANGED monitorVars
    BY <1>4 DEF StartHA, HAStep, TryHealthy, NoHealthyNodes, HAOk, HAErr, HAWakes
  <1>5. CASE UNCHANGED haVars
    BY <1>1, <1>5 DEF haVars, monitorVars
  <1> QED  BY <1>1, <1>2, <1>3, <1>4, <1>5 DEF HANext, Check

\* The counts of every node agree with its checks and its health, and the
\* checks with the rounds.
THEOREM MonitorInvariant == HASpec => []MonitorInv
  <1>1. HAInit => MonitorInv
    BY HAAssumption DEF HAInit, MonitorInit, NewNode, MonitorInv, NodeRecords, Health,
                        CountsAgree, ChecksDue
  <1> QED  BY <1>1, MonitorStep, PTL DEF HASpec

\* update_health: a node whose last check succeeded is Healthy, one that never
\* answered Unavailable.
THEOREM HealthIsTrue == HASpec => []HealthFollowsChecks
  <1>1. ASSUME MonitorInv
        PROVE  HealthFollowsChecks
    <2>1. ASSUME NEW n \in 1..Nodes
          PROVE  node[n] \in NodeRecords /\ CountsAgree(node[n])
      BY <1>1 DEF MonitorInv
    <2>2. ASSUME NEW n \in 1..Nodes, node[n].answered
          PROVE  node[n].health = "Healthy"
      BY <2>1, <2>2 DEF NodeRecords, CountsAgree, update_health, RateBelow
    <2>3. ASSUME NEW n \in 1..Nodes, node[n].failure_count = node[n].checks, node[n].checks > 0
          PROVE  node[n].health = "Unavailable"
      BY <2>1, <2>3 DEF NodeRecords, CountsAgree, update_health, RateBelow
    <2> QED  BY <2>2, <2>3 DEF HealthFollowsChecks
  <1> QED  BY <1>1, MonitorInvariant, PTL

\* A load looks at the nodes only between two rounds of the monitor.
THEOREM WholeRoundsSeen == HASpec => SeesWholeRounds
  <1> DEFINE Seen == \A c \in Retriers : loop[c].pc = "trying" /\ loop'[c].pc # "trying" =>
                         \A m, n \in 1..Nodes : node[m].checks = node[n].checks
  <1>1. ASSUME MonitorInv, [HANext]_haVars
        PROVE  [Seen]_haVars
    <2>1. ASSUME turn = 0
          PROVE  Seen
      BY <1>1, <2>1 DEF MonitorInv, ChecksDue
    <2>2. CASE BeginRound \/ Check \/ ClusterLoads
      BY <2>2 DEF BeginRound, Check, check_node_health, ClusterLoads, retriedVars
    <2>3. ASSUME NEW c \in Retriers, TryHealthy(c) \/ NoHealthyNodes(c)
          PROVE  Seen
      BY <2>1, <2>3 DEF TryHealthy, NoHealthyNodes, Readable
    <2>4. ASSUME NEW c \in Retriers, HAOk(c) \/ HAErr(c) \/ HAWakes(c) \/ StartHA(c)
          PROVE  Seen
      <3>1. \E from \in {"idle", "calling", "asleep"} : \E to : LoopTo(c, from, to)
        BY <2>4 DEF HAOk, HAErr, HAWakes, StartHA, StartLoop, LoadOk, LoadErr, WakeUp
      <3>2. loop[c].pc # "trying" /\ \A b \in Retriers \ {c} : loop'[b] = loop[b]
        BY <3>1 DEF LoopTo
      <3> QED  BY <3>2
    <2> QED  BY <1>1, <2>2, <2>3, <2>4 DEF HANext, HAStep
  <1> QED  BY <1>1, MonitorInvariant, PTL DEF HASpec, SeesWholeRounds

-----------------------------------------------------------------------------
(* Powers of two.  Induction is over a set of numbers, not over a formula. *)

LEMMA LessIsWellFounded ==
    \E R : IsWellFoundedOn(R, Nat) /\ \A m, n \in Nat : m < n => <<m, n>> \in R
  <1>1. \A m, n \in Nat : m < n => <<m, n>> \in OpToRel(<, Nat)
    BY DEF OpToRel
  <1> QED  BY <1>1, NatLessThanWellFounded, Zenon

LEMMA LeastNumber ==
    ASSUME NEW T, T \subseteq Nat, T # {}
    PROVE  \E n \in T : \A m \in T : n <= m
  <1>1. PICK R : IsWellFoundedOn(R, Nat) /\ \A m, n \in Nat : m < n => <<m, n>> \in R
    BY LessIsWellFounded
  <1>2. IsWellFoundedOn(R, Nat)
    BY <1>1
  <1>3. \A m, n \in Nat : m < n => <<m, n>> \in R
    BY <1>1
  <1>4. \E n \in T : \A m \in T : ~(<<m, n>> \in R)
    BY <1>2, WFMin, Zenon
  <1>5. PICK n \in T : \A m \in T : ~(<<m, n>> \in R)
    BY <1>4
  <1>6. ASSUME NEW m \in T
        PROVE  n <= m
    <2>1. n \in Nat /\ m \in Nat /\ ~(<<m, n>> \in R)
      BY <1>5
    <2> QED  BY <1>3, <2>1
  <1> QED  BY <1>6

LEMMA SetInduction ==
    ASSUME NEW S, 0 \in S, \A n \in Nat : n \in S => n + 1 \in S
    PROVE  Nat \subseteq S
  <1> SUFFICES ASSUME Nat \ S # {}
               PROVE  FALSE
    OBVIOUS
  <1>1. PICK n \in Nat \ S : \A m \in Nat \ S : n <= m
    BY LeastNumber
  <1>2. n # 0 /\ n - 1 \in Nat /\ n - 1 \notin Nat \ S
    BY <1>1
  <1> QED  BY <1>1, <1>2

\* The powers up to the n-th.
PowersTo(f, n) == f[0] = 1 /\ \A i \in 1..n : f[i] = 2 * f[i - 1]

\* TwoTo is what its definition says: there is such a function.
LEMMA TwoToDefined ==
    \A n \in Nat : TwoTo[n] = IF n = 0 THEN 1 ELSE 2 * TwoTo[n - 1]
  <1> DEFINE S == {n \in Nat : \E f \in [0..n -> Nat] : PowersTo(f, n)}
  <1>1. 0 \in S
    <2>1. PowersTo([i \in 0..0 |-> 1], 0)
      BY DEF PowersTo
    <2> QED  BY <2>1
  <1>2. ASSUME NEW n \in Nat, n \in S
        PROVE  n + 1 \in S
    <2>1. PICK f \in [0..n -> Nat] : PowersTo(f, n)
      BY <1>2
    <2> DEFINE g == [i \in 0..(n + 1) |-> IF i = n + 1 THEN 2 * f[n] ELSE f[i]]
    <2>2. g[0] = 1 /\ g \in [0..(n + 1) -> Nat]
      BY <2>1 DEF PowersTo
    <2>3. ASSUME NEW i \in 1..(n + 1)
          PROVE  g[i] = 2 * g[i - 1]
      <3>1. CASE i = n + 1
        BY <3>1
      <3>2. CASE i # n + 1
        BY <2>1, <3>2 DEF PowersTo
      <3> QED  BY <3>1, <3>2
    <2> HIDE DEF g
    <2>4. PowersTo(g, n + 1)
      BY <2>2, <2>3 DEF PowersTo
    <2> QED  BY <2>2, <2>4
  <1>3. Nat \subseteq S
    <2> HIDE DEF S
    <2> QED  BY <1>1, <1>2, SetInduction
  <1>4. \A n \in Nat : \E f \in [0..n -> Nat] : PowersTo(f, n)
    BY <1>3
  <1>5. ASSUME NEW m \in Nat, NEW n \in Nat, m <= n, NEW f, NEW g,
               PowersTo(f, m), PowersTo(g, n)
        PROVE  \A i \in 0..m : f[i] = g[i]
    <2> DEFINE E == {i \in Nat : i <= m => f[i] = g[i]}
    <2>1. 0 \in E
      BY <1>5 DEF PowersTo
    <2>2. \A i \in Nat : i \in E => i + 1 \in E
      BY <1>5 DEF PowersTo
    <2>3. Nat \subseteq E
      <3> HIDE DEF E
      <3> QED  BY <2>1, <2>2, SetInduction
    <2> QED  BY <2>3
  <1> DEFINE powers(n) == CHOOSE f : PowersTo(f, n)
             h == [n \in Nat |-> powers(n)[n]]
  <1>6. \A n \in Nat : PowersTo(powers(n), n)
    BY <1>4
  <1> HIDE DEF powers
  <1>7. ASSUME NEW n \in Nat
        PROVE  h[n] = IF n = 0 THEN 1 ELSE 2 * h[n - 1]
    <2>1. CASE n = 0
      BY <1>6, <2>1 DEF PowersTo
    <2>2. CASE n # 0
      <3>1. powers(n - 1)[n - 1] = powers(n)[n - 1]
        BY <1>5, <1>6, <2>2
      <3>2. powers(n)[n] = 2 * powers(n)[n - 1]
        BY <1>6, <2>2 DEF PowersTo
      <3> QED  BY <2>2, <3>1, <3>2
    <2> QED  BY <2>1, <2>2
  <1>8. \E f : f = [n \in Nat |-> IF n = 0 THEN 1 ELSE 2 * f[n - 1]]
    <2>1. h = [n \in Nat |-> h[n]]
      OBVIOUS
    <2> HIDE DEF h
    <2> QED  BY <1>7, <2>1
  <1>9. TwoTo = [n \in Nat |-> IF n = 0 THEN 1 ELSE 2 * TwoTo[n - 1]]
    BY <1>8, Zenon DEF TwoTo
  <1> QED  BY <1>9

LEMMA PowersOfTwo ==
    /\ TwoTo[0] = 1
    /\ \A n \in Nat : TwoTo[n] \in Nat /\ TwoTo[n] > 0 /\ TwoTo[n + 1] = 2 * TwoTo[n]
  <1> DEFINE E == {n \in Nat : TwoTo[n] \in Nat /\ TwoTo[n] > 0}
  <1>1. 0 \in E /\ \A n \in Nat : n \in E => n + 1 \in E
    BY TwoToDefined
  <1>2. Nat \subseteq E
    <2> HIDE DEF E
    <2> QED  BY <1>1, SetInduction
  <1> QED  BY <1>2, TwoToDefined

-----------------------------------------------------------------------------
(* The delays of exponential_backoff.                                      *)

\* Where the jitter cannot wrap, it adds no more than jitter_ms to the delay.
LEMMA JitterBounded ==
    ASSUME NEW attempt \in Nat, NEW random \in 0..(2 * JitterMs(BaseDelay(attempt))),
           random >= JitterMs(BaseDelay(attempt))
    PROVE  /\ BaseDelay(attempt) + Jitter(BaseDelay(attempt), random) \in Nat
           /\ BaseDelay(attempt) + Jitter(BaseDelay(attempt), random)
                  <= max_delay_ms + JitterMs(max_delay_ms)
  <1> USE BackoffAssumption
  <1> DEFINE delay == BaseDelay(attempt)
  <1>1. MaxU \in Nat /\ MaxU > 0
    BY PowersOfTwo DEF MaxU
  <1>2. Doubled(attempt) \in Nat
    BY PowersOfTwo DEF Doubled
  <1>3. Doubled(attempt) % MaxU \in Nat
    BY <1>1, <1>2
  <1>4. delay \in Nat /\ delay <= max_delay_ms
    BY <1>3 DEF BaseDelay, Least
  <1> HIDE DEF delay
  <1>5. JitterMs(delay) \in Nat /\ JitterMs(delay) <= JitterMs(max_delay_ms)
        /\ JitterMs(max_delay_ms) \in Nat
    BY <1>4 DEF JitterMs
  <1> DEFINE over == random - JitterMs(delay)
  <1>6. Jitter(delay, random) = over % MaxU
    BY DEF Jitter
  <1>7. over \in Nat /\ over <= JitterMs(delay)
    BY <1>5 DEF delay
  <1> HIDE DEF over
  <1>8. over % MaxU \in Nat /\ over % MaxU <= over
    BY <1>1, <1>7
  <1>9. Jitter(delay, random) \in Nat /\ Jitter(delay, random) <= JitterMs(delay)
    BY <1>5, <1>6, <1>7, <1>8
  <1>10. /\ delay + Jitter(delay, random) \in Nat
         /\ delay + Jitter(delay, random) <= max_delay_ms + JitterMs(max_delay_ms)
    BY <1>4, <1>5, <1>9
  <1> QED  BY <1>10 DEF delay

DelayInv ==
    /\ total_delay \in [Retriers -> Nat]
    /\ DelayCapped

LEMMA DelayStep ==
    ASSUME OverflowChecks \/ jitter_percent = 0, LoopInv, DelayInv, [BackoffNext]_backoffVars
    PROVE  DelayInv'
  <1> USE BackoffAssumption
  <1>1. ASSUME UNCHANGED total_delay
        PROVE  DelayInv'
    BY <1>1 DEF DelayInv, DelayCapped
  <1>2. ASSUME NEW c \in Retriers, BackoffSleeps(c)
        PROVE  DelayInv'
    <2> DEFINE attempt == loop[c].attempts - 1
               delay == BaseDelay(attempt)
    <2>1. attempt \in Nat
      <3>1. loop[c] \in Loops /\ LabelsUsed(c) /\ loop[c].pc = "calling"
        BY <1>2 DEF LoopInv, LoopTypeOK, BackoffSleeps
      <3>2. IsFiniteSet(loop[c].labels) /\ loop[c].labels # {}
            /\ Cardinality(loop[c].labels) <= loop[c].attempts
        BY <3>1 DEF LabelsUsed
      <3>3. Cardinality(loop[c].labels) \in Nat /\ Cardinality(loop[c].labels) # 0
        BY <3>2, FS_CardinalityType, FS_EmptySet
      <3> QED  BY <3>1, <3>2, <3>3 DEF Loops
    <2>2. PICK random \in 0..(2 * JitterMs(delay)) :
             IF OverflowChecks /\ Overflows(attempt, random)
               THEN UNCHANGED total_delay
               ELSE total_delay' = [total_delay EXCEPT ![c] = delay + Jitter(delay, random)]
      BY <1>2 DEF BackoffSleeps
    <2>3. CASE OverflowChecks /\ Overflows(attempt, random)
      BY <1>1, <2>2, <2>3
    <2>4. CASE ~(OverflowChecks /\ Overflows(attempt, random))
      <3>1. JitterMs(delay) \in Int /\ random >= JitterMs(delay)
        <4>1. delay \in Int
          BY <2>1, PowersOfTwo DEF BaseDelay, Least, Doubled, MaxU
        <4> HIDE DEF delay
        <4>2. JitterMs(delay) \in Int /\ (jitter_percent = 0 => JitterMs(delay) = 0)
          BY <4>1 DEF JitterMs
        <4>3. OverflowChecks => ~(random < JitterMs(delay))
          BY <2>4 DEF Overflows, delay
        <4> QED  BY <2>2, <4>2, <4>3
      <3>2. /\ delay + Jitter(delay, random) \in Nat
            /\ delay + Jitter(delay, random) <= max_delay_ms + JitterMs(max_delay_ms)
        BY <2>1, <2>2, <3>1, JitterBounded
      <3> HIDE DEF delay
      <3> QED  BY <2>2, <2>4, <3>2 DEF DelayInv, DelayCapped
    <2> QED  BY <2>3, <2>4
  <1>3. CASE UNCHANGED backoffVars
    BY <1>1, <1>3 DEF backoffVars
  <1> QED  BY <1>1, <1>2, <1>3 DEF BackoffNext, StartBackoff, BackoffStep, TryBackoff, BackoffOk,
                                   BackoffFails, BackoffWakes

\* "Cap at 30 seconds": no delay exceeds the cap by more than the jitter, in a
\* build with overflow checks or if there is no jitter.  In any other build the
\* jitter wraps for every random number below jitter_ms, and the cap is lost.
THEOREM DelayIsCapped ==
    ASSUME OverflowChecks \/ jitter_percent = 0
    PROVE  BackoffSpec => []DelayCapped
  <1>1. BackoffInit => DelayInv
    <2>1. JitterMs(max_delay_ms) \in Nat
      BY BackoffAssumption DEF JitterMs
    <2> QED  BY <2>1, BackoffAssumption DEF BackoffInit, DelayInit, DelayInv, DelayCapped
  <1>2. LoopInv /\ DelayInv /\ [BackoffNext]_backoffVars => DelayInv'
    BY DelayStep
  <1>3. DelayInv => DelayCapped
    BY DEF DelayInv
  <1> QED  BY <1>1, <1>2, <1>3, LoopInvariant, ThreeRetryLoops, PTL DEF BackoffSpec

-----------------------------------------------------------------------------
(* The end of the loop of the backoff.                                     *)

\* Only a loop without attempts, or one that checks for overflow, panics.
PanicsExplained ==
    \A c \in Retriers : loop[c].pc = "panicked" => max_attempts = 0 \/ OverflowChecks

\* A loop gets to a place it is allowed to be at.
LEMMA PanicsMove ==
    ASSUME LoopInv, PanicsExplained, NEW c \in Retriers, NEW from, NEW to, LoopTo(c, from, to),
           to = "panicked" => max_attempts = 0 \/ OverflowChecks
    PROVE  PanicsExplained'
  <1>1. loop \in [Retriers -> Loops]
    BY DEF LoopInv, LoopTypeOK
  <1>2. loop'[c].pc = to /\ \A u \in Retriers \ {c} : loop'[u] = loop[u]
    BY <1>1 DEF LoopTo, Loops
  <1> QED  BY <1>2 DEF PanicsExplained

LEMMA PanicsStep ==
    ASSUME LoopInv, PanicsExplained, [BackoffNext]_backoffVars
    PROVE  PanicsExplained'
  <1>1. ASSUME UNCHANGED loop
        PROVE  PanicsExplained'
    BY <1>1 DEF PanicsExplained
  <1>2. ASSUME NEW c \in Retriers, StartBackoff(c)
        PROVE  PanicsExplained'
    BY <1>2, PanicsMove DEF StartBackoff, StartLoop
  <1>3. ASSUME NEW c \in Retriers, BackoffOk(c) \/ BackoffFails(c) \/ BackoffWakes(c)
        PROVE  PanicsExplained'
    BY <1>3, PanicsMove DEF BackoffOk, BackoffFails, BackoffWakes, LoadOk, LoadErr, WakeUp
  <1>4. ASSUME NEW c \in Retriers, BackoffSleeps(c)
        PROVE  PanicsExplained'
    <2>1. PICK next \in {"panicked", "asleep"} :
             LoadErr(c, next) /\ (next = "panicked" => OverflowChecks)
      BY <1>4, Zenon DEF BackoffSleeps
    <2> QED  BY <2>1, PanicsMove DEF LoadErr
  <1>5. ASSUME NEW c \in Retriers, TryBackoff(c)
        PROVE  PanicsExplained'
    <2>1. loop \in [Retriers -> Loops]
      BY DEF LoopInv, LoopTypeOK
    <2>2. PICK l : loop' = [loop EXCEPT ![c] = CallWith(@, l, @.attempts + 1)]
      BY <1>5, Zenon DEF TryBackoff, TryLoad
    <2>3. loop'[c].pc = "calling" /\ \A u \in Retriers \ {c} : loop'[u] = loop[u]
      BY <2>1, <2>2 DEF CallWith, Loops
    <2> QED  BY <2>3 DEF PanicsExplained
  <1>6. CASE ClusterLoads \/ UNCHANGED backoffVars
    BY <1>1, <1>6 DEF ClusterLoads, backoffVars, retriedVars
  <1> QED  BY <1>2, <1>3, <1>4, <1>5, <1>6 DEF BackoffNext, BackoffStep

\* For any number of attempts, the loop never sleeps after its last one, and
\* it never unwraps an error that it does not have unless it makes none at all.
THEOREM BackoffCountsRight == BackoffSpec => []BackoffStopsInTime
  <1>1. BackoffInit => AttemptsWithin(max_attempts) /\ PanicsExplained
    BY BackoffAssumption, AttemptsInit DEF BackoffInit, RetriedInit, PanicsExplained
  <1>2. LoopInv /\ AttemptsWithin(max_attempts) /\ PanicsExplained /\ [BackoffNext]_backoffVars
          => (AttemptsWithin(max_attempts) /\ PanicsExplained)'
    BY BackoffAttempts, PanicsStep
  <1>3. AttemptsWithin(max_attempts) /\ PanicsExplained => BackoffStopsInTime
    BY DEF AttemptsWithin, PanicsExplained, BackoffStopsInTime
  <1> QED  BY <1>1, <1>2, <1>3, LoopInvariant, ThreeRetryLoops, PTL DEF BackoffSpec

-----------------------------------------------------------------------------
(* The log and the delays of execute_with_recovery.                        *)

Categories == {classify_error(text) : text \in Texts}

Transient == {"Network", "Server"}

\* Where the loop is, and what the log and its attempts say of each other there.
LogAgrees(r, log) ==
    /\ r.pc \in {"idle", "trying", "calling", "asleep", "ok", "failed"}
    /\ r.attempts = Len(log) + IF r.pc \in {"calling", "ok"} THEN 1 ELSE 0
    /\ r.pc = "idle" => r.attempts = 0
    /\ r.pc # "failed" => \A i \in DOMAIN log : log[i] \in Transient
    /\ r.pc = "failed" => \A i \in DOMAIN log : i < Len(log) => log[i] \in Transient
    /\ r.pc \in {"asleep", "trying"} => Len(log) <= max_retries
    /\ r.pc = "calling" => r.attempts <= max_retries + 1
    /\ r.pc = "failed" => Len(log) > 0 /\ (\/ log[Len(log)] \notin Transient
                                           \/ Len(log) = max_retries + 1)

\* The delay after so many sleeps.
DelayAfter(sleeps) ==
    IF sleeps = 0 THEN base_delay ELSE Least(base_delay * TwoTo[sleeps], max_delay)

DelayAgrees(r, delay) ==
    /\ r.pc \in {"idle", "trying"} => delay = DelayAfter(r.attempts)
    /\ r.pc \in {"calling", "asleep"} => r.attempts > 0 /\ delay = DelayAfter(r.attempts - 1)

RecoveryInv ==
    /\ loop \in [Retriers -> Loops]
    /\ error_log \in [Retriers -> Seq(Categories)]
    /\ backoff_delay \in [Retriers -> Nat]
    /\ \A c \in Retriers : LogAgrees(loop[c], error_log[c]) /\ DelayAgrees(loop[c], backoff_delay[c])

\* A sleep doubles the delay.
LEMMA DelayDoubled ==
    ASSUME NEW n \in Nat
    PROVE  DelayAfter(n) \in Nat /\ DoubleDelay(DelayAfter(n)) = DelayAfter(n + 1)
  <1> USE RecoveryAssumption
  <1>1. TwoTo[n] \in Nat /\ TwoTo[n] > 0 /\ TwoTo[n + 1] = 2 * TwoTo[n] /\ TwoTo[0] = 1
    BY PowersOfTwo
  <1>2. base_delay * TwoTo[n] \in Nat /\ base_delay * TwoTo[n + 1] = 2 * (base_delay * TwoTo[n])
    BY <1>1
  <1> DEFINE d == base_delay * TwoTo[n]
  <1>3. d \in Nat /\ base_delay * TwoTo[n + 1] = 2 * d /\ (n = 0 => d = base_delay)
    BY <1>1, <1>2
  <1>4. /\ DelayAfter(n) = IF n = 0 THEN base_delay ELSE Least(d, max_delay)
        /\ DelayAfter(n + 1) = Least(2 * d, max_delay)
    BY <1>3 DEF DelayAfter
  <1> HIDE DEF d
  <1> QED  BY <1>3, <1>4 DEF DoubleDelay, Least

\* A step of one loop: what holds of it afterwards is enough.
LEMMA OneLoopMoves ==
    ASSUME RecoveryInv, NEW c \in Retriers, NEW r \in Loops, NEW log \in Seq(Categories),
           NEW delay \in Nat, LogAgrees(r, log), DelayAgrees(r, delay),
           loop' = [loop EXCEPT ![c] = r],
           error_log' = [error_log EXCEPT ![c] = log],
           backoff_delay' = [backoff_delay EXCEPT ![c] = delay]
    PROVE  RecoveryInv'
  <1>1. /\ loop' \in [Retriers -> Loops] /\ error_log' \in [Retriers -> Seq(Categories)]
        /\ backoff_delay' \in [Retriers -> Nat]
    BY DEF RecoveryInv
  <1>2. ASSUME NEW u \in Retriers
        PROVE  LogAgrees(loop'[u], error_log'[u]) /\ DelayAgrees(loop'[u], backoff_delay'[u])
    <2>1. CASE u = c
      <3>1. loop'[u] = r /\ error_log'[u] = log /\ backoff_delay'[u] = delay
        BY <2>1 DEF RecoveryInv
      <3> QED  BY <3>1
    <2>2. CASE u # c
      <3>1. loop'[u] = loop[u] /\ error_log'[u] = error_log[u] /\ backoff_delay'[u] = backoff_delay[u]
        BY <2>2 DEF RecoveryInv
      <3> QED  BY <3>1 DEF RecoveryInv
    <2> QED  BY <2>1, <2>2
  <1> QED  BY <1>1, <1>2 DEF RecoveryInv, LogAgrees, DelayAgrees

LEMMA RecoveryStepKeeps ==
    ASSUME RecoveryInv, NEW c \in Retriers, StartRecovery(c) \/ RecoveryStep(c)
    PROVE  RecoveryInv'
  <1> USE RecoveryAssumption
  <1>0. /\ loop[c] \in Loops /\ error_log[c] \in Seq(Categories) /\ backoff_delay[c] \in Nat
        /\ LogAgrees(loop[c], error_log[c]) /\ DelayAgrees(loop[c], backoff_delay[c])
    BY DEF RecoveryInv
  <1>1. ASSUME NEW to \in LoopPCs, NEW r, r = [loop[c] EXCEPT !.pc = to]
        PROVE  /\ r \in Loops /\ r.pc = to /\ r.attempts = loop[c].attempts
    BY <1>0, <1>1 DEF Loops
  <1>2. /\ error_log = [error_log EXCEPT ![c] = error_log[c]]
        /\ backoff_delay = [backoff_delay EXCEPT ![c] = backoff_delay[c]]
    BY DEF RecoveryInv
  <1>3. ASSUME NEW to \in {"trying", "ok"}, NEW from \in {"idle", "calling"}, LoopTo(c, from, to),
               from = "idle" <=> to = "trying", UNCHANGED <<error_log, backoff_delay>>
        PROVE  RecoveryInv'
    <2> DEFINE r == [loop[c] EXCEPT !.pc = to]
    <2>1. loop' = [loop EXCEPT ![c] = r] /\ loop[c].pc = from
      BY <1>3 DEF LoopTo
    <2>2. r \in Loops /\ r.pc = to /\ r.attempts = loop[c].attempts
      BY <1>1 DEF LoopPCs
    <2> HIDE DEF r
    <2>3. LogAgrees(r, error_log[c])
      <3>1. loop[c].attempts \in Nat /\ Len(error_log[c]) \in Nat
        BY <1>0 DEF Loops
      <3>2. CASE to = "trying"
        <4>1. Len(error_log[c]) = 0 /\ loop[c].attempts = 0
              /\ \A i \in DOMAIN error_log[c] : error_log[c][i] \in Transient
          BY <1>0, <1>3, <2>1, <3>1, <3>2 DEF LogAgrees
        <4> QED  BY <2>2, <3>2, <4>1 DEF LogAgrees
      <3>3. CASE to = "ok"
        BY <1>0, <1>3, <2>1, <2>2, <3>1, <3>3 DEF LogAgrees
      <3> QED  BY <1>3, <3>2, <3>3
    <2>4. DelayAgrees(r, backoff_delay[c])
      BY <1>0, <1>3, <2>1, <2>2 DEF DelayAgrees
    <2> QED  BY <1>0, <1>2, <1>3, <2>1, <2>2, <2>3, <2>4, OneLoopMoves
  <1>4. CASE StartRecovery(c)
    BY <1>3, <1>4 DEF StartRecovery, StartLoop
  <1>5. CASE RecoveryOk(c)
    BY <1>3, <1>5 DEF RecoveryOk, LoadOk
  <1>6. CASE RecoveryWakes(c)
    <2> DEFINE r == [loop[c] EXCEPT !.pc = "trying"]
               delay == DoubleDelay(backoff_delay[c])
    <2>1. /\ loop' = [loop EXCEPT ![c] = r] /\ loop[c].pc = "asleep"
          /\ backoff_delay' = [backoff_delay EXCEPT ![c] = delay]
          /\ UNCHANGED error_log
      BY <1>6 DEF RecoveryWakes, WakeUp, LoopTo
    <2>2. r \in Loops /\ r.pc = "trying" /\ r.attempts = loop[c].attempts
      BY <1>1 DEF LoopPCs
    <2>3. delay \in Nat /\ delay = DelayAfter(loop[c].attempts)
      <3>1. loop[c].attempts \in Nat /\ loop[c].attempts > 0
            /\ backoff_delay[c] = DelayAfter(loop[c].attempts - 1)
        BY <1>0, <2>1 DEF DelayAgrees, Loops
      <3>2. /\ DoubleDelay(DelayAfter(loop[c].attempts - 1)) = DelayAfter((loop[c].attempts - 1) + 1)
            /\ DelayAfter(loop[c].attempts) \in Nat
        BY <3>1, DelayDoubled
      <3>3. (loop[c].attempts - 1) + 1 = loop[c].attempts
        BY <3>1
      <3> QED  BY <3>1, <3>2, <3>3
    <2> HIDE DEF r, delay
    <2>4. LogAgrees(r, error_log[c]) /\ DelayAgrees(r, delay)
      BY <1>0, <2>1, <2>2, <2>3 DEF LogAgrees, DelayAgrees
    <2> QED  BY <1>0, <1>2, <2>1, <2>2, <2>3, <2>4, OneLoopMoves
  <1>7. CASE TryRecovery(c)
    <2>1. PICK l \in LabelsFor(c) : loop' = [loop EXCEPT ![c] = CallWith(@, l, @.attempts + 1)]
      <3>1. (CHOOSE l \in LabelsFor(c) : TRUE) \in LabelsFor(c)
        BY <1>7 DEF TryRecovery, TryLoad
      <3> QED  BY <1>7, <3>1, Zenon DEF TryRecovery, TryLoad
    <2> DEFINE r == CallWith(loop[c], l, loop[c].attempts + 1)
    <2>2. l \in Labels /\ loop[c].attempts + 1 \in Nat
      BY <1>0, <2>1 DEF LabelsFor, Loops
    <2>3. r \in Loops /\ r.pc = "calling" /\ r.attempts = loop[c].attempts + 1
      BY <1>0, <2>2, CallFields
    <2>4. loop' = [loop EXCEPT ![c] = r]
      BY <2>1
    <2>5. loop[c].pc = "trying" /\ UNCHANGED <<error_log, backoff_delay>>
      BY <1>7 DEF TryRecovery, TryLoad
    <2> HIDE DEF r
    <2>6. loop[c].attempts \in Nat
      BY <1>0 DEF Loops
    <2>7. LogAgrees(r, error_log[c])
      BY <1>0, <2>3, <2>5, <2>6 DEF LogAgrees
    <2>8. DelayAgrees(r, backoff_delay[c])
      BY <1>0, <2>3, <2>5, <2>6 DEF DelayAgrees
    <2> QED  BY <1>0, <1>2, <2>3, <2>4, <2>5, <2>7, <2>8, OneLoopMoves
  <1>8. ASSUME NEW text \in Texts, HandleError(c, text)
        PROVE  RecoveryInv'
    <2> DEFINE category == classify_error(text)
               again == is_retryable(category) /\ loop[c].attempts <= max_retries
               to == IF again THEN "asleep" ELSE "failed"
               r == [loop[c] EXCEPT !.pc = to]
               log == Append(error_log[c], category)
    <2>1. /\ loop' = [loop EXCEPT ![c] = r] /\ loop[c].pc = "calling"
          /\ error_log' = [error_log EXCEPT ![c] = log]
          /\ UNCHANGED backoff_delay
      BY <1>8 DEF HandleError, LoadErr, LoopTo
    <2>2. r \in Loops /\ r.pc = to /\ r.attempts = loop[c].attempts
      BY <1>1 DEF LoopPCs
    <2>3. category \in Categories /\ (is_retryable(category) <=> category \in Transient)
      BY DEF Categories, is_retryable, Transient
    <2> HIDE DEF category
    <2>4. /\ log \in Seq(Categories) /\ Len(log) = Len(error_log[c]) + 1
          /\ log[Len(log)] = category
          /\ \A i \in DOMAIN error_log[c] : log[i] = error_log[c][i] /\ i < Len(log)
          /\ \A i \in DOMAIN log : i < Len(log) => i \in DOMAIN error_log[c]
          /\ \A i \in DOMAIN log : i < Len(log) \/ i = Len(log)
      BY <1>0, <2>3
    <2> HIDE DEF r, log
    <2>5. loop[c].attempts = Len(error_log[c]) + 1 /\ loop[c].attempts \in Nat
          /\ Len(error_log[c]) \in Nat /\ loop[c].attempts <= max_retries + 1
          /\ \A i \in DOMAIN error_log[c] : error_log[c][i] \in Transient
      BY <1>0, <2>1 DEF LogAgrees, Loops
    <2>6. LogAgrees(r, log)
      <3>1. CASE again
        BY <2>2, <2>3, <2>4, <2>5, <3>1 DEF LogAgrees
      <3>2. CASE ~again
        BY <2>2, <2>3, <2>4, <2>5, <3>2 DEF LogAgrees
      <3> QED  BY <3>1, <3>2
    <2>7. DelayAgrees(r, backoff_delay[c])
      BY <1>0, <2>1, <2>2 DEF DelayAgrees
    <2> QED  BY <1>0, <1>2, <2>1, <2>2, <2>4, <2>6, <2>7, OneLoopMoves
  <1> QED  BY <1>4, <1>5, <1>6, <1>7, <1>8 DEF RecoveryStep

\* The log of a loop and its delay follow its attempts, wherever it is.
THEOREM RecoveryInvariant == RecoverySpec => []RecoveryInv
  <1>1. RecoveryInit => RecoveryInv
    <2> SUFFICES ASSUME RecoveryInit
                 PROVE  RecoveryInv
      OBVIOUS
    <2>1. loop \in [Retriers -> Loops]
      BY DEF RecoveryInit, RetriedInit, Loops, LoopPCs
    <2>2. /\ error_log \in [Retriers -> Seq(Categories)] /\ backoff_delay \in [Retriers -> Nat]
          /\ \A c \in Retriers : error_log[c] = <<>> /\ backoff_delay[c] = base_delay
      BY RecoveryAssumption DEF RecoveryInit, HandlerInit
    <2>3. \A c \in Retriers : loop[c].pc = "idle" /\ loop[c].attempts = 0
      BY DEF RecoveryInit, RetriedInit
    <2>4. ASSUME NEW c \in Retriers
          PROVE  LogAgrees(loop[c], error_log[c]) /\ DelayAgrees(loop[c], backoff_delay[c])
      BY <2>2, <2>3 DEF LogAgrees, DelayAgrees, DelayAfter
    <2> QED  BY <2>1, <2>2, <2>4 DEF RecoveryInv
  <1>2. ASSUME RecoveryInv, [RecoveryNext]_recoveryVars
        PROVE  RecoveryInv'
    <2>1. ASSUME UNCHANGED <<loop, error_log, backoff_delay>>
          PROVE  RecoveryInv'
      BY <1>2, <2>1 DEF RecoveryInv, LogAgrees, DelayAgrees
    <2>2. CASE UNCHANGED recoveryVars
      BY <2>1, <2>2 DEF recoveryVars, retriedVars
    <2> QED  BY <1>2, <2>1, <2>2, RecoveryStepKeeps DEF RecoveryNext, ClusterLoads
  <1> QED  BY <1>1, <1>2, PTL DEF RecoverySpec

\* handle_error and should_retry: every failed attempt is in the log, an error
\* is retried if it is transient and retries are left, and only then.
THEOREM LogExplains == RecoverySpec => []LogExplainsAttempts
  <1>1. ASSUME RecoveryInv
        PROVE  LogExplainsAttempts
    <2>1. ASSUME NEW c \in Retriers
          PROVE  LET log == error_log[c]
                     failures == loop[c].attempts - IF loop[c].pc \in {"calling", "ok"} THEN 1 ELSE 0
                     transient == {"Network", "Server"}
                 IN  /\ Len(log) = failures
                     /\ \A i \in DOMAIN log : i < loop[c].attempts => log[i] \in transient
                     /\ loop[c].pc = "failed" => \/ log[failures] \notin transient
                                                 \/ failures = max_retries + 1
      <3>1. /\ loop[c].attempts \in Nat /\ error_log[c] \in Seq(Categories)
            /\ LogAgrees(loop[c], error_log[c])
        BY <1>1 DEF RecoveryInv, Loops
      <3> DEFINE log == error_log[c]
                 failures == loop[c].attempts - IF loop[c].pc \in {"calling", "ok"} THEN 1 ELSE 0
      <3>2. DOMAIN log = 1..Len(log) /\ Len(log) \in Nat
        BY <3>1
      <3>3. /\ loop[c].attempts = Len(log) + IF loop[c].pc \in {"calling", "ok"} THEN 1 ELSE 0
            /\ loop[c].pc # "failed" => \A i \in DOMAIN log : log[i] \in Transient
            /\ loop[c].pc = "failed" => \A i \in DOMAIN log : i < Len(log) => log[i] \in Transient
        BY <3>1 DEF LogAgrees
      <3>4. loop[c].pc = "failed" => \/ log[Len(log)] \notin Transient
                                     \/ Len(log) = max_retries + 1
        BY <3>1 DEF LogAgrees
      <3> HIDE DEF log
      <3>5. Len(log) = failures
        BY <3>2, <3>3
      <3>6. \A i \in DOMAIN log : i < loop[c].attempts => log[i] \in Transient
        BY <3>2, <3>3
      <3> HIDE DEF failures
      <3> QED  BY <3>4, <3>5, <3>6 DEF Transient, log, failures
    <2> QED  BY <2>1 DEF LogExplainsAttempts
  <1> QED  BY <1>1, RecoveryInvariant, PTL

\* The delays are base_delay and its doubles, up to max_delay.
THEOREM DelaysDouble == RecoverySpec => []DelayDoubles
  <1>1. ASSUME RecoveryInv
        PROVE  DelayDoubles
    <2>1. ASSUME NEW c \in Retriers, loop[c].pc = "asleep"
          PROVE  backoff_delay[c] = DelayAfter(loop[c].attempts - 1)
      BY <1>1, <2>1 DEF RecoveryInv, DelayAgrees
    <2> QED  BY <2>1 DEF DelayDoubles, DelayAfter
  <1> QED  BY <1>1, RecoveryInvariant, PTL
=============================================================================
