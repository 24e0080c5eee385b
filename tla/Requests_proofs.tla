--------------------------- MODULE Requests_proofs ---------------------------
(***************************************************************************)
(* Proofs about requests: what LoadContract makes of those of a program,   *)
(* and what a manager puts into them.  For any tables and however late the *)
(* cluster executes what it was sent, a multi-table transaction is not     *)
(* committed in part and its flags are true.  For any number of batches    *)
(* that overlap, the data pipeline loses no record, takes none twice, and  *)
(* counts as processed only what is stored.  For any settings and any      *)
(* order of the custom headers, a manager's requests address one           *)
(* transaction and carry what was configured.                              *)
(***************************************************************************)
EXTENDS MultiTableTransaction, DataPipeline, LoadRequest, StarRocksServer_proofs,
        FiniteSetTheorems

-----------------------------------------------------------------------------
(* The multi-table transaction. *)

\* What the demonstration asks the SDK for.
TxnKinds == {"begin", "load", "prepare", "commit", "rollback"}

TxnRequests == {o \in Operations : o.label = txn_label /\ o.kind \in TxnKinds}

SDKTypeOK ==
    /\ ServerTypeOK
    /\ asked \subseteq TxnRequests
    /\ op \in [Users -> TxnRequests \cup {NoOp}]
    /\ outcome \in [Users -> Outcomes]

AllStored == \A d \in Chunks : server[txn_label].rows[d] > 0

\* The chunk whose load is under way.
BeingLoaded(d) == step = "beginning" /\ op[coordinator].kind = "load" /\ op[coordinator].chunk = d

LoadedSoFar == \A d \in Chunks \ tables : server[txn_label].rows[d] > 0 \/ BeingLoaded(d)

StepInv ==
    /\ step = "new" => tables = Chunks
    /\ step = "beginning" => op[coordinator] \in TxnRequests
    /\ step = "committing" => op[coordinator] \in TxnRequests /\ op[coordinator].kind = "commit"
    /\ step = "undoing" => op[coordinator] \in TxnRequests /\ op[coordinator].kind = "rollback"
    /\ step \in {"new", "beginning", "loading"} => LoadedSoFar
    /\ step \in {"begun", "preparing", "prepared", "committing"} => AllStored

\* A commit is only asked for, and so only done, when everything is stored.
CommitInv ==
    /\ (\E o \in asked : o.kind = "commit") => AllStored
    /\ server[txn_label].state = "committed" => AllStored

MultiInv == SDKTypeOK /\ MultiTypeOK /\ StepInv /\ CommitInv /\ FlagsAreTrue

-----------------------------------------------------------------------------
(* What the steps do to the SDK. *)

\* The request of each call is one of these.
LEMMA CallsAreRequests ==
    ASSUME NEW kind \in {"begin", "prepare", "commit", "rollback"}
    PROVE  [kind |-> kind, label |-> txn_label, chunk |-> NoChunk, deadline |-> kind = "begin"]
               \in TxnRequests
  BY MultiTableAssumption DEF TxnRequests, Operations, Kinds, TxnKinds

LEMMA LoadsAreRequests ==
    ASSUME NEW d \in Chunks
    PROVE  [kind |-> "load", label |-> txn_label, chunk |-> d, deadline |-> "load" = "begin"]
               \in TxnRequests
  BY MultiTableAssumption DEF TxnRequests, Operations, Kinds, TxnKinds

\* A call: its request is asked for and waited for.
LEMMA CallMade ==
    ASSUME SDKTypeOK, NEW kind \in TxnKinds, NEW d, MultiCall(kind, d),
           [kind |-> kind, label |-> txn_label, chunk |-> d, deadline |-> kind = "begin"]
               \in TxnRequests
    PROVE  /\ SDKTypeOK' /\ UNCHANGED server
           /\ op'[coordinator] \in TxnRequests
           /\ op'[coordinator].kind = kind /\ op'[coordinator].chunk = d
           /\ \A o \in asked' : o.kind = "commit" => o \in asked \/ kind = "commit"
  <1> DEFINE o == [kind |-> kind, label |-> txn_label, chunk |-> d, deadline |-> kind = "begin"]
  <1>1. o \in TxnRequests /\ o.kind = kind /\ o.chunk = d
    OBVIOUS
  <1>2. Ask(coordinator, o)
    BY DEF MultiCall
  <1> HIDE DEF o
  <1>3. /\ UNCHANGED server /\ op' = [op EXCEPT ![coordinator] = o]
        /\ asked' \subseteq asked \cup {o}
        /\ \E r \in {"none", "err"} : outcome' = [outcome EXCEPT ![coordinator] = r]
    BY <1>2 DEF Ask
  <1>4. ServerTypeOK'
    BY <1>3 DEF SDKTypeOK, ServerTypeOK, Records
  <1>5. op' \in [Users -> TxnRequests \cup {NoOp}] /\ outcome' \in [Users -> Outcomes]
    BY <1>1, <1>3 DEF SDKTypeOK, Outcomes
  <1> QED  BY <1>1, <1>3, <1>4, <1>5, MultiTableAssumption DEF SDKTypeOK

\* An answer: an Ok is true.
LEMMA Answered ==
    ASSUME SDKTypeOK, NEW r \in {"ok", "err"}, Tell(coordinator, r)
    PROVE  /\ SDKTypeOK' /\ UNCHANGED <<server, asked, op>>
           /\ r = "ok" => Achieved(op[coordinator])
  <1>1. /\ UNCHANGED <<server, asked, op>>
        /\ r = "ok" => Achieved(op[coordinator])
        /\ outcome' = [outcome EXCEPT ![coordinator] = r]
    BY DEF Tell
  <1>2. ServerTypeOK'
    BY <1>1 DEF SDKTypeOK, ServerTypeOK, Records
  <1> QED  BY <1>1, <1>2 DEF SDKTypeOK, Outcomes

\* The cluster only moves on, and commits nothing it was not asked to.
LEMMA ClusterMovesOn ==
    ASSUME SDKTypeOK, MultiClusterActs
    PROVE  /\ SDKTypeOK' /\ UNCHANGED <<asked, op>>
           /\ Advances(server[txn_label], server'[txn_label])
           /\ server'[txn_label].state = "committed" =>
                 server[txn_label].state = "committed" \/ \E o \in asked : o.kind = "commit"
  <1> USE MultiTableAssumption
  <1>1. ASSUME NEW o \in asked, TakeEffect(o)
        PROVE  /\ ServerTypeOK' /\ UNCHANGED <<asked, op, outcome>>
               /\ Advances(server[txn_label], server'[txn_label])
               /\ server'[txn_label].state = "committed" =>
                     server[txn_label].state = "committed" \/ o.kind = "commit"
    <2>1. o \in Operations /\ o.label = txn_label /\ o.kind \in TxnKinds
      BY DEF SDKTypeOK, TxnRequests
    <2>2. PICK reply : Serve(o, reply)
      BY <1>1 DEF TakeEffect
    <2>3. ServerTypeOK' /\ Advances(server[txn_label], server'[txn_label])
      BY <2>1, <2>2, ServeAdvances DEF SDKTypeOK
    <2>4. ASSUME o.kind # "commit"
          PROVE  server'[txn_label].state = "committed" => server[txn_label].state = "committed"
      <3>1. \/ UNCHANGED server
            \/ \E state \in {"open", "prepared", "aborted"} : server'[txn_label].state = state
            \/ server'[txn_label].state = server[txn_label].state
        <4>1. \/ UNCHANGED server \/ ServeBegin(o, reply) \/ ServeLoad(o, reply)
              \/ ServePrepare(o, reply) \/ ServeAbort(o, reply)
          BY <2>1, <2>2, <2>4 DEF TxnKinds, Serve, Refuse, ServeV1, ServeCommit, ServeStatus
        <4> QED  BY <2>1, <4>1 DEF SDKTypeOK, ServerTypeOK, Records, ServeBegin, ServeLoad,
                        ServePrepare, ServeAbort, Become
      <3> QED  BY <3>1
    <2> QED  BY <1>1, <2>3, <2>4 DEF TakeEffect
  <1>2. ASSUME Expire(txn_label), UNCHANGED <<asked, op, outcome>>
        PROVE  /\ ServerTypeOK' /\ Advances(server[txn_label], server'[txn_label])
               /\ server'[txn_label].state # "committed"
    BY <1>2, ExpireAdvances DEF SDKTypeOK, Expire, Become, ServerTypeOK, Records
  <1> QED  BY <1>1, <1>2 DEF MultiClusterActs, SDKTypeOK

-----------------------------------------------------------------------------
(* The invariant. *)

\* One call on the way from one step to another.
LEMMA CallStep ==
    ASSUME MultiInv, begin \/ prepare \/ commit \/ rollback \/ \E d \in Chunks : LoadTable(d)
    PROVE  MultiInv'
  <1> USE DEF MultiTypeOK, Steps, StepInv, CommitInv, LoadedSoFar, AllStored, BeingLoaded,
              FlagsAreTrue, GoTo, Flags
  <1>0. SDKTypeOK
    BY DEF MultiInv
  <1>1. CASE begin
    <2>1. /\ SDKTypeOK' /\ UNCHANGED server /\ op'[coordinator] \in TxnRequests
          /\ \A o \in asked' : o.kind = "commit" => o \in asked
      BY <1>0, <1>1, CallMade, CallsAreRequests DEF begin, TxnKinds
    <2> QED  BY <1>1, <2>1 DEF MultiInv, begin
  <1>2. CASE prepare
    <2>1. /\ SDKTypeOK' /\ UNCHANGED server /\ op'[coordinator] \in TxnRequests
          /\ \A o \in asked' : o.kind = "commit" => o \in asked
      BY <1>0, <1>2, CallMade, CallsAreRequests DEF prepare, TxnKinds
    <2> QED  BY <1>2, <2>1 DEF MultiInv, prepare
  <1>3. CASE commit
    <2>1. /\ SDKTypeOK' /\ UNCHANGED server /\ op'[coordinator] \in TxnRequests
          /\ op'[coordinator].kind = "commit"
      BY <1>0, <1>3, CallMade, CallsAreRequests DEF commit, TxnKinds
    <2> QED  BY <1>3, <2>1 DEF MultiInv, commit
  <1>4. CASE rollback
    <2>1. /\ SDKTypeOK' /\ UNCHANGED server /\ op'[coordinator] \in TxnRequests
          /\ op'[coordinator].kind = "rollback"
          /\ \A o \in asked' : o.kind = "commit" => o \in asked
      BY <1>0, <1>4, CallMade, CallsAreRequests DEF rollback, TxnKinds
    <2> QED  BY <1>4, <2>1 DEF MultiInv, rollback
  <1>5. ASSUME NEW d \in Chunks, LoadTable(d)
        PROVE  MultiInv'
    <2>1. /\ SDKTypeOK' /\ UNCHANGED server /\ op'[coordinator] \in TxnRequests
          /\ op'[coordinator].kind = "load" /\ op'[coordinator].chunk = d
          /\ \A o \in asked' : o.kind = "commit" => o \in asked
      <3>1. MultiCall("load", d) /\ "load" \in TxnKinds
        BY <1>5 DEF LoadTable, TxnKinds
      <3> QED  BY ONLY <1>0, <3>1, CallMade, LoadsAreRequests, d \in Chunks
    <2> QED  BY <1>5, <2>1 DEF MultiInv, LoadTable
  <1> QED  BY <1>1, <1>2, <1>3, <1>4, <1>5

\* One answer.
LEMMA AnswerStep ==
    ASSUME MultiInv, \/ BegunSoFar \/ BeginFailed \/ Prepared \/ Committed \/ Fails
                     \/ \E r \in {"ok", "err"} : RolledBack(r)
    PROVE  MultiInv'
  <1> USE DEF MultiTypeOK, Steps, StepInv, CommitInv, LoadedSoFar, AllStored, BeingLoaded,
              FlagsAreTrue, GoTo, Flags
  <1>0. SDKTypeOK
    BY DEF MultiInv
  <1>1. CASE BegunSoFar
    <2>1. SDKTypeOK' /\ UNCHANGED <<server, asked, op>> /\ Achieved(op[coordinator])
      BY <1>0, <1>1, Answered DEF BegunSoFar
    <2>2. op[coordinator].label = txn_label
      BY <1>1 DEF MultiInv, BegunSoFar, TxnRequests
    <2>3. \A d \in Chunks \ tables : server[txn_label].rows[d] > 0
      BY <1>1, <2>1, <2>2 DEF MultiInv, BegunSoFar, Achieved
    <2> QED  BY <1>1, <2>1, <2>3 DEF MultiInv, BegunSoFar
  <1>2. CASE BeginFailed
    <2>1. SDKTypeOK' /\ UNCHANGED <<server, asked, op>>
      BY <1>0, <1>2, Answered DEF BeginFailed
    <2> QED  BY <1>2, <2>1 DEF MultiInv, BeginFailed
  <1>3. CASE Prepared
    <2>1. SDKTypeOK' /\ UNCHANGED <<server, asked, op>>
      BY <1>0, <1>3, Answered DEF Prepared
    <2> QED  BY <1>3, <2>1 DEF MultiInv, Prepared
  <1>4. CASE Committed
    <2>1. SDKTypeOK' /\ UNCHANGED <<server, asked, op>> /\ Achieved(op[coordinator])
      BY <1>0, <1>4, Answered DEF Committed
    <2>2. server[txn_label].state = "committed"
      BY <1>4, <2>1 DEF MultiInv, Committed, TxnRequests, Achieved
    <2> QED  BY <1>4, <2>1, <2>2 DEF MultiInv, Committed
  <1>5. CASE Fails
    <2>1. SDKTypeOK' /\ UNCHANGED <<server, asked, op>>
      BY <1>0, <1>5, Answered DEF Fails
    <2> QED  BY <1>5, <2>1 DEF MultiInv, Fails
  <1>6. ASSUME NEW r \in {"ok", "err"}, RolledBack(r)
        PROVE  MultiInv'
    <2>1. /\ SDKTypeOK' /\ UNCHANGED <<server, asked, op>>
          /\ r = "ok" => Achieved(op[coordinator])
      BY <1>0, <1>6, Answered DEF RolledBack
    <2>2. r = "ok" => server[txn_label].state = "aborted"
      BY <1>6, <2>1 DEF MultiInv, RolledBack, TxnRequests, Achieved
    <2> QED  BY <1>6, <2>1, <2>2 DEF MultiInv, RolledBack
  <1> QED  BY <1>1, <1>2, <1>3, <1>4, <1>5, <1>6

\* The cluster acts on its own.
LEMMA ClusterStep ==
    ASSUME MultiInv, MultiClusterActs
    PROVE  MultiInv'
  <1> USE MultiTableAssumption
  <1>1. /\ SDKTypeOK' /\ UNCHANGED <<asked, op>>
        /\ Advances(server[txn_label], server'[txn_label])
        /\ server'[txn_label].state = "committed" =>
              server[txn_label].state = "committed" \/ \E o \in asked : o.kind = "commit"
    BY ClusterMovesOn DEF MultiInv
  <1>2. UNCHANGED <<step, tables, committed, rolled_back, rolls_back>>
    BY DEF MultiClusterActs, Flags
  <1>3. \A d \in Chunks : server[txn_label].rows[d] > 0 => server'[txn_label].rows[d] > 0
    <2>1. \A d \in Chunks : server[txn_label].rows[d] \in Nat /\ server'[txn_label].rows[d] \in Nat
      BY <1>1 DEF MultiInv, SDKTypeOK, ServerTypeOK, Records
    <2> QED  BY <1>1, <2>1 DEF Advances
  <1>4. AllStored => AllStored'
    BY <1>3 DEF AllStored
  <1>5. LoadedSoFar => LoadedSoFar'
    BY <1>1, <1>2, <1>3 DEF LoadedSoFar, BeingLoaded
  <1>6. StepInv' /\ MultiTypeOK'
    BY <1>1, <1>2, <1>4, <1>5 DEF MultiInv, StepInv, MultiTypeOK
  <1>7. CommitInv'
    BY <1>1, <1>4 DEF MultiInv, CommitInv
  <1>8. FlagsAreTrue'
    BY <1>1, <1>2 DEF MultiInv, FlagsAreTrue, Advances
  <1> QED  BY <1>1, <1>6, <1>7, <1>8 DEF MultiInv

LEMMA MultiStep ==
    ASSUME MultiInv, [MultiNext]_multiVars
    PROVE  MultiInv'
  <1>1. CASE UNCHANGED multiVars
    BY <1>1 DEF MultiInv, SDKTypeOK, ServerTypeOK, Records, MultiTypeOK, StepInv, CommitInv,
                FlagsAreTrue, LoadedSoFar, BeingLoaded, AllStored, multiVars, contractVars
  <1> QED  BY <1>1, CallStep, AnswerStep, ClusterStep DEF MultiNext

\* What is committed stays committed.
LEMMA CommitIsFinal ==
    ASSUME MultiInv, [MultiNext]_multiVars, server[txn_label].state = "committed"
    PROVE  server'[txn_label].state = "committed"
  <1>1. CASE MultiClusterActs
    BY <1>1, ClusterMovesOn DEF MultiInv, Advances
  <1>2. CASE UNCHANGED multiVars
    BY <1>2 DEF multiVars, contractVars
  <1>3. CASE begin \/ prepare \/ commit \/ rollback \/ \E d \in Chunks : LoadTable(d)
    BY <1>3 DEF begin, prepare, commit, rollback, LoadTable, MultiCall, Ask
  <1>4. CASE BegunSoFar \/ BeginFailed \/ Prepared \/ Committed \/ Fails
             \/ \E r \in {"ok", "err"} : RolledBack(r)
    BY <1>4 DEF BegunSoFar, BeginFailed, Prepared, Committed, Fails, RolledBack, Tell
  <1> QED  BY <1>1, <1>2, <1>3, <1>4 DEF MultiNext

\* The transaction asks for a commit only when every table's chunk is stored.
THEOREM MultiInvariant == MultiSpec => []MultiInv
  <1>1. ASSUME MultiInit
        PROVE  MultiInv
    <2>1. SDKTypeOK
      BY <1>1, ServerInitOK DEF MultiInit, ContractInit, SDKTypeOK, Outcomes
    <2>2. MultiTypeOK
      BY <1>1 DEF MultiInit, MultiTypeOK, Steps
    <2>3. StepInv
      BY <1>1 DEF MultiInit, StepInv, LoadedSoFar
    <2>4. server[txn_label].state = "unused" /\ asked = {}
      BY <1>1, MultiTableAssumption DEF MultiInit, ContractInit, ServerInit, Unused
    <2>5. CommitInv /\ FlagsAreTrue
      BY <1>1, <2>4 DEF MultiInit, CommitInv, FlagsAreTrue
    <2> QED  BY <2>1, <2>2, <2>3, <2>5 DEF MultiInv
  <1> QED  BY <1>1, MultiStep, PTL DEF MultiSpec

\* "No partial commits across tables": what is committed holds the chunks of
\* all tables, whichever answers were lost.
THEOREM NothingCommittedInPart == MultiSpec => []AllOrNothing
  <1>1. MultiInv => AllOrNothing
    BY DEF MultiInv, CommitInv, AllStored, AllOrNothing
  <1> QED  BY <1>1, MultiInvariant, PTL

\* committed and rolled_back say what has become of the transaction.
THEOREM FlagsCanBeTrusted == MultiSpec => []FlagsAreTrue
  <1>1. MultiInv => FlagsAreTrue
    BY DEF MultiInv
  <1> QED  BY <1>1, MultiInvariant, PTL

\* Once committed is set it is true for ever: the cluster has committed, the
\* chunks of all tables are in it, and rolled_back is never set as well,
\* whatever is executed late.
THEOREM CommittedForGood ==
    MultiSpec => [](committed =>
                       [](server[txn_label].state = "committed" /\ AllStored /\ ~rolled_back))
  <1> DEFINE Done == server[txn_label].state = "committed"
  <1>1. MultiInv => (committed => Done)
    BY DEF MultiInv, FlagsAreTrue
  <1>2. MultiInv /\ Done => AllStored /\ ~rolled_back
    BY DEF MultiInv, CommitInv, FlagsAreTrue
  <1>3. MultiInv /\ Done /\ [MultiNext]_multiVars => Done'
    BY CommitIsFinal
  <1> HIDE DEF Done
  <1>4. MultiSpec => [](committed => [](Done /\ AllStored /\ ~rolled_back))
    BY <1>1, <1>2, <1>3, MultiInvariant, PTL DEF MultiSpec
  <1> QED  BY <1>4 DEF Done

-----------------------------------------------------------------------------
(* The data pipeline. *)

RecordRequests == {o \in Operations : o.kind = "v1"}

PipelineSDKOK ==
    /\ ServerTypeOK
    /\ asked \subseteq RecordRequests
    /\ op \in [Users -> RecordRequests \cup {NoOp}]
    /\ outcome \in [Users -> Outcomes]

InQueue == {records[i] : i \in DOMAIN records}

InHands == UNION {worker[w].held : w \in Workers}

\* No record is in the queue twice, nor one that was not added.
QueueInv ==
    /\ IsFiniteSet(added)
    /\ records \in Seq(added)
    /\ \A i, j \in DOMAIN records : records[i] = records[j] => i = j

\* A batch that sends or counts holds one record, which left the queue; what
\* it sends is that record, and what it counts as a success is stored.
HandOK(w) ==
    /\ worker[w].held \subseteq added
    /\ \A r \in worker[w].held : worker[w].held = {r} /\ r \notin InQueue
    /\ worker[w].pc \in {"idle", "looking", "taking"} => worker[w].held = {}
    /\ worker[w].pc \in {"sending", "succeeded", "failed"} => worker[w].held # {}
    /\ worker[w].pc = "sending" => op[w] \in RecordRequests /\ op[w].label \in worker[w].held
    /\ worker[w].pc = "taking" => worker[w].left > 0
    /\ worker[w].pc = "succeeded" => \A r \in worker[w].held : server[r].state = "committed"

HandsInv ==
    /\ \A w \in Workers : HandOK(w)
    /\ \A v, w \in Workers : v # w => worker[v].held \cap worker[w].held = {}

CountInv == Cardinality(added) = Len(records) + Cardinality(Busy) + CountedRecords

\* Records that are stored and that nothing can happen to any more: there is
\* one for each success that was counted.
Settled == {r \in added : server[r].state = "committed"} \ (InQueue \cup InHands)

SettledInv == total_processed <= Cardinality(Settled)

PipelineInv ==
    PipelineTypeOK /\ PipelineSDKOK /\ QueueInv /\ HandsInv /\ CountInv /\ SettledInv

\* Records only move on, and a commit stays.
RecordsAdvance == \A l \in Labels : Advances(server[l], server'[l])

-----------------------------------------------------------------------------
(* What the steps do to the SDK. *)

LEMMA RecordAsked ==
    ASSUME PipelineSDKOK, NEW w \in Workers, NEW r \in Labels, Request(w, r)
    PROVE  /\ PipelineSDKOK' /\ UNCHANGED server
           /\ op'[w] \in RecordRequests /\ op'[w].label = r
           /\ \A v \in Users \ {w} : op'[v] = op[v]
  <1> DEFINE o == [kind |-> "v1", label |-> r, chunk |-> CHOOSE d \in Chunks : TRUE,
                   deadline |-> FALSE]
  <1>1. o \in RecordRequests /\ o.label = r
    <2>1. (CHOOSE d \in Chunks : TRUE) \in Chunks
      BY PipelineAssumption
    <2> QED  BY <2>1 DEF RecordRequests, Operations
  <1>2. Ask(w, o)
    BY DEF Request
  <1> HIDE DEF o
  <1>3. /\ UNCHANGED server /\ op' = [op EXCEPT ![w] = o]
        /\ asked' \subseteq asked \cup {o}
        /\ \E x \in {"none", "err"} : outcome' = [outcome EXCEPT ![w] = x]
    BY <1>2 DEF Ask
  <1>4. ServerTypeOK'
    BY <1>3 DEF PipelineSDKOK, ServerTypeOK, Records
  <1>5. op' \in [Users -> RecordRequests \cup {NoOp}] /\ outcome' \in [Users -> Outcomes]
    BY <1>1, <1>3 DEF PipelineSDKOK, Outcomes
  <1> QED  BY <1>1, <1>3, <1>4, <1>5, PipelineAssumption DEF PipelineSDKOK

LEMMA RecordAnswered ==
    ASSUME PipelineSDKOK, NEW w \in Workers, NEW r \in {"ok", "err", "dropped"}, Tell(w, r)
    PROVE  /\ PipelineSDKOK' /\ UNCHANGED <<server, op>>
           /\ r = "ok" => Achieved(op[w])
  <1>1. /\ UNCHANGED <<server, asked, op>>
        /\ r = "ok" => Achieved(op[w])
        /\ outcome' = [outcome EXCEPT ![w] = r]
    BY DEF Tell
  <1>2. ServerTypeOK'
    BY <1>1 DEF PipelineSDKOK, ServerTypeOK, Records
  <1> QED  BY <1>1, <1>2 DEF PipelineSDKOK, Outcomes

LEMMA RecordServed ==
    ASSUME PipelineSDKOK, NEW o \in asked, TakeEffect(o)
    PROVE  PipelineSDKOK' /\ RecordsAdvance /\ UNCHANGED op
  <1>1. o \in Operations
    BY DEF PipelineSDKOK, RecordRequests
  <1>2. PICK reply : Serve(o, reply)
    BY DEF TakeEffect
  <1>3. ServerTypeOK' /\ RecordsAdvance
    BY <1>1, <1>2, ServeAdvances DEF PipelineSDKOK, RecordsAdvance
  <1> QED  BY <1>3 DEF TakeEffect, PipelineSDKOK

LEMMA NothingAsked ==
    ASSUME PipelineSDKOK, UNCHANGED contractVars
    PROVE  PipelineSDKOK' /\ UNCHANGED <<server, op>>
  BY DEF PipelineSDKOK, ServerTypeOK, Records, contractVars

LEMMA SameServerAdvances ==
    ASSUME PipelineSDKOK, UNCHANGED server
    PROVE  RecordsAdvance
  BY DEF PipelineSDKOK, ServerTypeOK, Records, RecordsAdvance, Advances

-----------------------------------------------------------------------------
(* Hands. *)

\* A batch that goes on: the others stay where they are.
LEMMA OneBatchMoves ==
    ASSUME PipelineTypeOK, NEW w \in Workers, NEW pc \in WorkerPCs, NEW left \in 0..BatchSize,
           NEW held \in SUBSET Labels, WorkerTo(w, pc, left, held)
    PROVE  /\ worker' \in [Workers -> [pc : WorkerPCs, left : 0..BatchSize, held : SUBSET Labels]]
           /\ worker'[w].pc = pc /\ worker'[w].left = left /\ worker'[w].held = held
           /\ \A v \in Workers \ {w} : worker'[v] = worker[v]
  BY DEF PipelineTypeOK, WorkerTo

\* A batch that is not concerned.
LEMMA HandKept ==
    ASSUME PipelineInv, RecordsAdvance, NEW v \in Workers, worker'[v] = worker[v],
           op'[v] = op[v], added \subseteq added', worker[v].held \cap InQueue' = {}
    PROVE  HandOK(v)'
  <1>1. HandOK(v) /\ worker[v].held \subseteq Labels
    BY DEF PipelineInv, HandsInv, PipelineTypeOK
  <1>2. \A r \in worker[v].held : server[r].state = "committed" => server'[r].state = "committed"
    BY <1>1 DEF RecordsAdvance, Advances
  <1> QED  BY <1>1, <1>2 DEF HandOK

\* A set whose elements are all the same one has no more than that one.
LEMMA OneAtMost ==
    ASSUME NEW S, \A x, y \in S : x = y
    PROVE  Cardinality(S) \in 0..1 /\ (S = {} => Cardinality(S) = 0)
  <1>1. CASE S = {}
    BY <1>1, FS_EmptySet
  <1>2. CASE S # {}
    <2>1. PICK x \in S : S = {x}
      BY <1>2
    <2>2. Cardinality({x}) = 1
      BY FS_Singleton
    <2> QED  BY <1>2, <2>1, <2>2
  <1> QED  BY <1>1, <1>2

\* What batches hold can be counted.
LEMMA BusyFacts ==
    /\ IsFiniteSet(Busy) /\ Cardinality(Busy) \in Nat
    /\ \A w \in Workers \ Busy : Cardinality(Busy \cup {w}) = Cardinality(Busy) + 1
    /\ \A w \in Busy : Cardinality(Busy \ {w}) = Cardinality(Busy) - 1
  <1>1. Busy \in SUBSET Workers
    BY DEF Busy
  <1>2. IsFiniteSet(Busy)
    BY <1>1, FS_Subset, PipelineAssumption
  <1> QED  BY <1>2, FS_CardinalityType, FS_AddElement, FS_RemoveElement

LEMMA SettledFinite ==
    ASSUME QueueInv
    PROVE  IsFiniteSet(Settled) /\ Cardinality(Settled) \in Nat
  <1>1. Settled \in SUBSET added
    BY DEF Settled
  <1> QED  BY <1>1, FS_Subset, FS_CardinalityType DEF QueueInv

\* What is settled stays so.
LEMMA StillSettled ==
    ASSUME PipelineInv, QueueInv', total_processed' = total_processed, Settled \subseteq Settled'
    PROVE  SettledInv'
  <1>1. IsFiniteSet(Settled') /\ Cardinality(Settled') \in Nat
    <2>1. Settled' \subseteq added'
      BY DEF Settled
    <2> QED  BY <2>1, FS_Subset, FS_CardinalityType DEF QueueInv
  <1>2. Cardinality(Settled) <= Cardinality(Settled')
    BY <1>1, FS_Subset
  <1> QED  BY <1>1, <1>2, SettledFinite DEF PipelineInv, SettledInv, PipelineTypeOK

-----------------------------------------------------------------------------
(* The steps. *)

\* A step that moves no record from one place to another, and counts none.
LEMMA NothingMoves ==
    ASSUME PipelineInv, PipelineTypeOK', PipelineSDKOK', RecordsAdvance,
           UNCHANGED <<records, totals, added>>,
           \A v \in Workers : worker'[v].held = worker[v].held /\ HandOK(v)'
    PROVE  PipelineInv'
  <1> USE DEF PipelineInv, totals
  <1>1. QueueInv' /\ InQueue' = InQueue /\ InHands' = InHands /\ Busy' = Busy
    BY DEF QueueInv, InQueue, InHands, Busy
  <1>2. HandsInv'
    BY DEF HandsInv
  <1>3. CountInv'
    BY <1>1 DEF CountInv, CountedRecords
  <1>4. Settled \subseteq Settled'
    BY <1>1 DEF Settled, RecordsAdvance, Advances, PipelineTypeOK
  <1> QED  BY <1>1, <1>2, <1>3, <1>4, StillSettled

\* One batch that goes on with, or without, what it has in its hands.
LEMMA BatchGoesOn ==
    ASSUME PipelineInv, PipelineSDKOK', UNCHANGED <<server, op>>,
           UNCHANGED <<pipeline_state, records, totals, added>>, NEW w \in Workers,
           NEW pc \in WorkerPCs, NEW left \in 0..BatchSize, WorkerTo(w, pc, left, worker[w].held),
           pc # "sending", pc \in {"idle", "looking", "taking"} => worker[w].held = {},
           pc \in {"succeeded", "failed"} => worker[w].held # {},
           pc = "taking" => left > 0,
           pc = "succeeded" => \A r \in worker[w].held : server[r].state = "committed"
    PROVE  PipelineInv'
  <1>1. worker[w].held \in SUBSET Labels /\ HandOK(w)
    BY DEF PipelineInv, PipelineTypeOK, HandsInv
  <1>2. /\ worker' \in [Workers -> [pc : WorkerPCs, left : 0..BatchSize, held : SUBSET Labels]]
        /\ worker'[w].pc = pc /\ worker'[w].left = left /\ worker'[w].held = worker[w].held
        /\ \A v \in Workers \ {w} : worker'[v] = worker[v]
    BY <1>1, OneBatchMoves DEF PipelineInv
  <1>3. PipelineTypeOK' /\ RecordsAdvance
    BY <1>2, SameServerAdvances DEF PipelineInv, PipelineTypeOK, totals
  <1>4. InQueue' = InQueue /\ added' = added
    BY DEF InQueue
  <1>5. HandOK(w)'
    BY <1>1, <1>2, <1>4 DEF HandOK
  <1>6. \A v \in Workers \ {w} : HandOK(v)'
    <2> SUFFICES ASSUME NEW v \in Workers \ {w} PROVE HandOK(v)'
      OBVIOUS
    <2>1. worker[v].held \cap InQueue' = {}
      BY <1>4 DEF PipelineInv, HandsInv, HandOK
    <2> QED  BY <1>2, <1>3, <1>4, <2>1, HandKept
  <1> QED  BY <1>2, <1>3, <1>5, <1>6, NothingMoves

\* The service, the cluster, and a batch that starts, looks, is answered or
\* is dropped.
LEMMA NoRecordMoves ==
    ASSUME PipelineInv, NEW w \in Workers,
           \/ start \/ stop \/ process_batch(w) \/ IsEmpty(w) \/ DropBatch(w)
           \/ \E r \in {"ok", "err"} : Sent(w, r)
    PROVE  PipelineInv'
  <1>0. /\ PipelineTypeOK /\ PipelineSDKOK /\ HandOK(w) /\ BatchSize \in Nat
        /\ worker[w].left \in 0..BatchSize
    BY PipelineAssumption DEF PipelineInv, HandsInv, PipelineTypeOK
  <1>1. CASE start \/ stop
    <2>1. /\ pipeline_state' \in {"Initialized", "Started"}
          /\ UNCHANGED <<contractVars, records, totals, worker, added>>
      BY <1>0, <1>1 DEF start, stop, PipelineTypeOK
    <2>2. PipelineSDKOK' /\ RecordsAdvance /\ op' = op
      BY <1>0, <2>1, NothingAsked, SameServerAdvances
    <2>3. PipelineTypeOK'
      BY <1>0, <2>1 DEF PipelineTypeOK, totals
    <2>4. InQueue' = InQueue
      BY <2>1 DEF InQueue
    <2>5. \A v \in Workers : worker[v].held \cap InQueue' = {}
      BY <2>4 DEF PipelineInv, HandsInv, HandOK
    <2>6. \A v \in Workers : HandOK(v)'
      BY <2>1, <2>2, <2>5, HandKept
    <2> QED  BY <2>1, <2>2, <2>3, <2>6, NothingMoves
  <1>2. CASE process_batch(w)
    <2>1. /\ worker[w].held = {} /\ WorkerTo(w, "looking", BatchSize, worker[w].held)
          /\ UNCHANGED <<contractVars, pipeline_state, records, totals, added>>
      BY <1>0, <1>2 DEF process_batch, HandOK
    <2>2. PipelineSDKOK' /\ UNCHANGED <<server, op>>
      BY <1>0, <2>1, NothingAsked
    <2>3. UNCHANGED <<pipeline_state, records, totals, added>>
      BY <2>1
    <2>4. "looking" \in WorkerPCs /\ BatchSize \in 0..BatchSize
      BY <1>0 DEF WorkerPCs
    <2>5. WorkerTo(w, "looking", BatchSize, worker[w].held) /\ worker[w].held = {}
      BY <2>1
    <2> QED  BY <2>2, <2>3, <2>4, <2>5, BatchGoesOn
  <1>3. CASE IsEmpty(w)
    <2>1. /\ worker[w].held = {}
          /\ UNCHANGED <<contractVars, pipeline_state, records, totals, added>>
          /\ \/ WorkerTo(w, "idle", 0, worker[w].held)
             \/ /\ WorkerTo(w, "taking", worker[w].left, worker[w].held)
                /\ worker[w].left > 0
      <3>1. worker[w].held = {}
        BY <1>0, <1>3 DEF IsEmpty, HandOK
      <3>2. worker[w].left = 0 \/ worker[w].left > 0
        BY <1>0
      <3> QED  BY <1>3, <3>1, <3>2 DEF IsEmpty
    <2>2. PipelineSDKOK' /\ UNCHANGED <<server, op>>
      BY <1>0, <2>1, NothingAsked
    <2>3. UNCHANGED <<pipeline_state, records, totals, added>>
      BY <2>1
    <2>4. {"idle", "taking"} \subseteq WorkerPCs /\ 0 \in 0..BatchSize
      BY <1>0 DEF WorkerPCs
    <2>5. CASE WorkerTo(w, "idle", 0, worker[w].held)
      BY <2>1, <2>2, <2>3, <2>4, <2>5, BatchGoesOn
    <2>6. CASE WorkerTo(w, "taking", worker[w].left, worker[w].held) /\ worker[w].left > 0
      BY <1>0, <2>1, <2>2, <2>3, <2>4, <2>6, BatchGoesOn
    <2> QED  BY <2>1, <2>5, <2>6
  <1>4. CASE DropBatch(w)
    <2>1. /\ WorkerTo(w, "dropped", 0, worker[w].held)
          /\ UNCHANGED <<pipeline_state, records, totals, added>>
          /\ UNCHANGED contractVars \/ Tell(w, "dropped")
      BY <1>4 DEF DropBatch
    <2>2. PipelineSDKOK' /\ UNCHANGED <<server, op>>
      BY <1>0, <2>1, NothingAsked, RecordAnswered
    <2> QED  BY <1>0, <2>1, <2>2, BatchGoesOn DEF WorkerPCs
  <1>5. ASSUME NEW r \in {"ok", "err"}, Sent(w, r)
        PROVE  PipelineInv'
    <2>1. /\ worker[w].pc = "sending" /\ Tell(w, r)
          /\ UNCHANGED <<pipeline_state, records, totals, added>>
          /\ WorkerTo(w, IF r = "ok" THEN "succeeded" ELSE "failed", worker[w].left, worker[w].held)
      BY <1>5 DEF Sent
    <2>2. /\ PipelineSDKOK' /\ UNCHANGED <<server, op>>
          /\ r = "ok" => Achieved(op[w])
      BY <1>0, <2>1, RecordAnswered
    <2>3. /\ op[w].kind = "v1" /\ worker[w].held = {op[w].label}
      BY <1>0, <2>1 DEF HandOK, RecordRequests
    <2>4. r = "ok" => \A q \in worker[w].held : server[q].state = "committed"
      BY <2>2, <2>3 DEF Achieved
    <2> QED  BY <1>0, <2>1, <2>2, <2>3, <2>4, BatchGoesOn DEF WorkerPCs
  <1> QED  BY <1>1, <1>2, <1>3, <1>4, <1>5

\* The cluster moves labels on.
LEMMA RecordExecuted ==
    ASSUME PipelineInv, NEW o \in asked, TakeEffect(o),
           UNCHANGED <<pipeline_state, records, totals, worker, added>>
    PROVE  PipelineInv'
  <1>1. PipelineSDKOK' /\ RecordsAdvance /\ op' = op
    BY RecordServed DEF PipelineInv
  <1>2. PipelineTypeOK'
    BY DEF PipelineInv, PipelineTypeOK, totals
  <1>3. InQueue' = InQueue
    BY DEF InQueue
  <1>4. \A v \in Workers : worker[v].held \cap InQueue' = {}
    BY <1>3 DEF PipelineInv, HandsInv, HandOK
  <1>5. \A v \in Workers : HandOK(v)'
    BY <1>1, <1>4, HandKept
  <1> QED  BY <1>1, <1>2, <1>5, NothingMoves

\* add_record: one record more, at the end of the queue.
LEMMA RecordAdded ==
    ASSUME PipelineInv, NEW r \in Labels, add_record(r)
    PROVE  PipelineInv'
  <1> USE DEF PipelineInv
  <1>1. /\ r \notin added /\ added' = added \cup {r} /\ Len(records) < Capacity
        /\ records' = Append(records, r)
        /\ UNCHANGED <<contractVars, pipeline_state, totals, worker>>
    BY DEF add_record
  <1>2. PipelineSDKOK' /\ RecordsAdvance /\ op' = op
    BY <1>1, NothingAsked, SameServerAdvances
  <1>3. /\ records \in Seq(added) /\ Len(records) \in Nat /\ DOMAIN records = 1..Len(records)
        /\ records' \in Seq(added') /\ Len(records') = Len(records) + 1
        /\ DOMAIN records' = 1..(Len(records) + 1)
    BY <1>1 DEF QueueInv
  <1>4. /\ \A i \in DOMAIN records : records'[i] = records[i] /\ records[i] \in added
        /\ records'[Len(records) + 1] = r
        /\ \A i \in DOMAIN records' : i \in DOMAIN records \/ i = Len(records) + 1
    BY <1>1, <1>3
  <1>5. PipelineTypeOK'
    BY <1>1, <1>3, PipelineAssumption DEF PipelineTypeOK, totals
  <1>6. IsFiniteSet(added') /\ Cardinality(added') = Cardinality(added) + 1
        /\ Cardinality(added) \in Nat
    BY <1>1, FS_AddElement, FS_CardinalityType DEF QueueInv
  <1>7. QueueInv'
    <2>1. \A i, j \in DOMAIN records' : records'[i] = records'[j] => i = j
      BY <1>1, <1>4 DEF QueueInv
    <2> QED  BY <1>3, <1>6, <2>1 DEF QueueInv
  <1>8. InQueue' \subseteq InQueue \cup {r} /\ InHands' = InHands /\ Busy' = Busy
    BY <1>1, <1>4 DEF InQueue, InHands, Busy
  <1>9. \A v \in Workers : worker[v].held \cap InQueue' = {}
    BY <1>1, <1>8 DEF HandsInv, HandOK
  <1>10. HandsInv'
    <2>1. \A v \in Workers : HandOK(v)'
      BY <1>1, <1>2, <1>9, HandKept
    <2> QED  BY <1>1, <2>1 DEF HandsInv
  <1>11. CountInv'
    <2>1. Cardinality(added) = Len(records) + Cardinality(Busy) + CountedRecords
          /\ CountedRecords' = CountedRecords /\ CountedRecords \in Nat
      BY <1>1 DEF CountInv, CountedRecords, totals, PipelineTypeOK
    <2> QED  BY <1>3, <1>6, <1>8, <2>1, BusyFacts DEF CountInv
  <1>12. Settled \subseteq Settled'
    <2>1. \A q \in added : server'[q].state = server[q].state
      BY <1>1 DEF contractVars
    <2> QED  BY <1>1, <1>8, <2>1 DEF Settled
  <1>13. total_processed' = total_processed
    BY <1>1 DEF totals
  <1> QED  BY <1>2, <1>5, <1>7, <1>10, <1>11, <1>12, <1>13, StillSettled

\* The first record leaves the queue, for the hands of one batch.
LEMMA RecordTaken ==
    ASSUME PipelineInv, PipelineSDKOK', NEW w \in Workers, worker[w].pc = "taking",
           records # <<>>, records' = Tail(records),
           UNCHANGED <<server, pipeline_state, totals, added>>,
           \A v \in Workers \ {w} : op'[v] = op[v],
           NEW pc \in {"failed", "sending"},
           WorkerTo(w, pc, worker[w].left - 1, {Head(records)}),
           pc = "sending" => op'[w] \in RecordRequests /\ op'[w].label = Head(records)
    PROVE  PipelineInv'
  <1> DEFINE r == Head(records)
  <1> USE DEF PipelineInv
  <1>1. /\ records \in Seq(added) /\ Len(records) \in Nat \ {0}
        /\ DOMAIN records = 1..Len(records) /\ added \subseteq Labels
        /\ r = records[1] /\ r \in added
        /\ records' \in Seq(added') /\ Len(records') = Len(records) - 1
        /\ DOMAIN records' = 1..(Len(records) - 1)
        /\ \A i \in DOMAIN records' : records'[i] = records[i + 1]
    BY DEF QueueInv, PipelineTypeOK
  <1>2. /\ worker[w].held = {} /\ worker[w].left - 1 \in 0..BatchSize
    BY PipelineAssumption DEF HandsInv, HandOK, PipelineTypeOK
  <1> HIDE DEF r
  <1>3. /\ worker' \in [Workers -> [pc : WorkerPCs, left : 0..BatchSize, held : SUBSET Labels]]
        /\ worker'[w].pc = pc /\ worker'[w].held = {r}
        /\ \A v \in Workers \ {w} : worker'[v] = worker[v]
    <2>1. WorkerTo(w, pc, worker[w].left - 1, {r}) /\ {r} \in SUBSET Labels /\ pc \in WorkerPCs
      BY <1>1 DEF r, WorkerPCs
    <2> QED  BY <1>2, <2>1, OneBatchMoves
  <1>4. \A i \in DOMAIN records' : i + 1 \in DOMAIN records /\ i + 1 # 1 /\ i \in Int
    BY <1>1
  <1>5. QueueInv'
    <2>1. \A i, j \in DOMAIN records' : records'[i] = records'[j] => i = j
      <3> SUFFICES ASSUME NEW i \in DOMAIN records', NEW j \in DOMAIN records',
                          records'[i] = records'[j]
                   PROVE  i = j
        OBVIOUS
      <3>1. i + 1 = j + 1
        BY <1>1, <1>4 DEF QueueInv
      <3> QED  BY <1>4, <3>1
    <2> QED  BY <1>1, <2>1 DEF QueueInv
  <1>6. InQueue' \subseteq InQueue \ {r} /\ r \in InQueue
    <2>1. \A i \in DOMAIN records' : records'[i] # r /\ records'[i] \in InQueue
      BY <1>1, <1>4 DEF QueueInv, InQueue
    <2> QED  BY <1>1, <2>1 DEF InQueue
  <1>7. \A v \in Workers : r \notin worker[v].held
    BY <1>6 DEF HandsInv, HandOK
  <1>8. HandOK(w)'
    BY <1>1, <1>3, <1>6 DEF HandOK, r
  <1>9. \A v \in Workers \ {w} : HandOK(v)'
    <2> SUFFICES ASSUME NEW v \in Workers \ {w} PROVE HandOK(v)'
      OBVIOUS
    <2>1. worker[v].held \cap InQueue' = {}
      BY <1>6 DEF HandsInv, HandOK
    <2>2. RecordsAdvance
      BY SameServerAdvances
    <2> QED  BY <1>3, <2>1, <2>2, HandKept
  <1>10. HandsInv'
    <2>1. \A u, v \in Workers : u # v => worker'[u].held \cap worker'[v].held = {}
      BY <1>3, <1>7 DEF HandsInv
    <2> QED  BY <1>8, <1>9, <2>1 DEF HandsInv
  <1>11. PipelineTypeOK'
    BY <1>1, <1>3, PipelineAssumption DEF PipelineTypeOK, totals
  <1>12. Busy' = Busy \cup {w} /\ w \notin Busy
    BY <1>2, <1>3 DEF Busy
  <1>13. CountInv'
    <2>1. Cardinality(added) = Len(records) + Cardinality(Busy) + CountedRecords
          /\ CountedRecords' = CountedRecords /\ CountedRecords \in Nat
      BY DEF CountInv, CountedRecords, totals, PipelineTypeOK
    <2>2. Cardinality(Busy') = Cardinality(Busy) + 1
      BY <1>12, BusyFacts
    <2> QED  BY <1>1, <2>1, <2>2, BusyFacts DEF CountInv
  <1>14. Settled \subseteq Settled'
    <2>1. InQueue' \cup InHands' \subseteq InQueue \cup InHands
      BY <1>3, <1>6 DEF InHands
    <2> QED  BY <2>1 DEF Settled
  <1> QED  BY <1>5, <1>10, <1>11, <1>13, <1>14, StillSettled DEF totals

\* Another batch was faster, the record is refused, or it is sent.
LEMMA RecordDequeued ==
    ASSUME PipelineInv, NEW w \in Workers, Dequeue(w)
    PROVE  PipelineInv'
  <1>0. /\ PipelineTypeOK /\ PipelineSDKOK /\ worker[w].held = {} /\ BatchSize \in Nat
        /\ worker[w].pc = "taking" /\ worker[w].left - 1 \in 0..BatchSize
        /\ UNCHANGED <<pipeline_state, totals, added>>
    BY PipelineAssumption DEF PipelineInv, HandsInv, HandOK, PipelineTypeOK, Dequeue
  <1>1. CASE records = <<>>
    <2>1. UNCHANGED <<contractVars, records>>
          /\ WorkerTo(w, "looking", worker[w].left - 1, worker[w].held)
      BY <1>0, <1>1 DEF Dequeue
    <2>2. PipelineSDKOK' /\ UNCHANGED <<server, op>>
      BY <1>0, <2>1, NothingAsked
    <2>3. UNCHANGED <<pipeline_state, records, totals, added>> /\ "looking" \in WorkerPCs
      BY <1>0, <2>1 DEF WorkerPCs
    <2> QED  BY <1>0, <2>1, <2>2, <2>3, BatchGoesOn
  <1>2. CASE records # <<>>
    <2>1. /\ records' = Tail(records)
          /\ \/ /\ WorkerTo(w, "failed", worker[w].left - 1, {Head(records)})
                /\ UNCHANGED contractVars
             \/ /\ Request(w, Head(records))
                /\ WorkerTo(w, "sending", worker[w].left - 1, {Head(records)})
      BY <1>2 DEF Dequeue, PopFront
    <2>2. Head(records) \in Labels
      BY <1>0, <1>2 DEF PipelineTypeOK
    <2>3. CASE WorkerTo(w, "failed", worker[w].left - 1, {Head(records)}) /\ UNCHANGED contractVars
      <3>1. PipelineSDKOK' /\ UNCHANGED <<server, op>>
        BY <1>0, <2>3, NothingAsked
      <3> QED  BY <1>0, <1>2, <2>1, <2>3, <3>1, RecordTaken
    <2>4. CASE /\ Request(w, Head(records))
               /\ WorkerTo(w, "sending", worker[w].left - 1, {Head(records)})
      <3>1. /\ PipelineSDKOK' /\ UNCHANGED server
            /\ op'[w] \in RecordRequests /\ op'[w].label = Head(records)
            /\ \A v \in Workers \ {w} : op'[v] = op[v]
        BY <1>0, <2>2, <2>4, RecordAsked, PipelineAssumption
      <3> QED  BY <1>0, <1>2, <2>1, <2>4, <3>1, RecordTaken
    <2> QED  BY <2>1, <2>3, <2>4
  <1> QED  BY <1>1, <1>2

\* queue_record_success and queue_record_failure: the hands are empty again,
\* and one more is counted.
LEMMA RecordCounted ==
    ASSUME PipelineInv, NEW w \in Workers,
           queue_record_success(w) \/ queue_record_failure(w)
    PROVE  PipelineInv'
  <1> USE DEF PipelineInv
  <1>1. /\ WorkerTo(w, "looking", worker[w].left, {})
        /\ UNCHANGED <<contractVars, pipeline_state, records, added>>
        /\ worker[w].pc \in {"succeeded", "failed"}
        /\ \/ /\ worker[w].pc = "succeeded" /\ total_processed' = total_processed + 1
              /\ total_failed' = total_failed
           \/ /\ total_processed' = total_processed /\ total_failed' = total_failed + 1
    BY DEF queue_record_success, queue_record_failure
  <1>2. PICK r \in worker[w].held : worker[w].held = {r} /\ r \notin InQueue /\ r \in added
    BY <1>1 DEF HandsInv, HandOK
  <1>3. /\ worker' \in [Workers -> [pc : WorkerPCs, left : 0..BatchSize, held : SUBSET Labels]]
        /\ worker'[w].pc = "looking" /\ worker'[w].held = {}
        /\ \A v \in Workers \ {w} : worker'[v] = worker[v]
    <2>1. worker[w].left \in 0..BatchSize /\ "looking" \in WorkerPCs /\ {} \in SUBSET Labels
      BY DEF PipelineTypeOK, WorkerPCs
    <2> QED  BY <1>1, <2>1, OneBatchMoves
  <1>4. PipelineSDKOK' /\ UNCHANGED <<server, op>> /\ RecordsAdvance
    BY <1>1, NothingAsked, SameServerAdvances
  <1>5. PipelineTypeOK'
    BY <1>1, <1>3 DEF PipelineTypeOK
  <1>6. QueueInv' /\ InQueue' = InQueue
    BY <1>1 DEF QueueInv, InQueue
  <1>7. HandsInv'
    <2>1. \A v \in Workers \ {w} : HandOK(v)'
      <3> SUFFICES ASSUME NEW v \in Workers \ {w} PROVE HandOK(v)'
        OBVIOUS
      <3>1. worker[v].held \cap InQueue' = {} /\ added \subseteq added'
        BY <1>1, <1>6 DEF HandsInv, HandOK
      <3> QED  BY <1>3, <1>4, <3>1, HandKept
    <2>2. HandOK(w)'
      BY <1>3 DEF HandOK
    <2> QED  BY <1>3, <2>1, <2>2 DEF HandsInv
  <1>8. CountInv'
    <2>1. Busy' = Busy \ {w} /\ w \in Busy
      BY <1>2, <1>3 DEF Busy
    <2>2. Cardinality(Busy') = Cardinality(Busy) - 1
      BY <2>1, BusyFacts
    <2>3. total_processed \in Nat /\ total_failed \in Nat /\ Len(records) \in Nat
          /\ records' = records /\ added' = added
      BY <1>1 DEF PipelineTypeOK
    <2> QED  BY <1>1, <2>2, <2>3, BusyFacts DEF CountInv, CountedRecords
  <1>9. InHands' = InHands \ {r}
    BY <1>2, <1>3 DEF InHands, HandsInv
  <1>10. r \notin Settled /\ Settled \subseteq Settled'
    BY <1>1, <1>2, <1>4, <1>6, <1>9 DEF Settled, InHands
  <1>11. CASE worker[w].pc = "succeeded"
    <2>1. server[r].state = "committed"
      BY <1>2, <1>11 DEF HandsInv, HandOK
    <2>2. Settled \cup {r} \subseteq Settled'
      BY <1>1, <1>2, <1>4, <1>6, <1>9, <1>10, <2>1 DEF Settled
    <2>3. IsFiniteSet(Settled') /\ Cardinality(Settled') \in Nat
      <3>1. Settled' \subseteq added'
        BY DEF Settled
      <3> QED  BY <1>6, <3>1, FS_Subset, FS_CardinalityType DEF QueueInv
    <2>4. Cardinality(Settled) + 1 <= Cardinality(Settled')
      <3>1. Cardinality(Settled \cup {r}) = Cardinality(Settled) + 1
        BY <1>10, SettledFinite, FS_AddElement
      <3> QED  BY <2>2, <2>3, <3>1, FS_Subset
    <2>5. total_processed' \in {total_processed, total_processed + 1} /\ total_processed \in Nat
      BY <1>1 DEF PipelineTypeOK
    <2>6. SettledInv'
      BY <2>3, <2>4, <2>5, SettledFinite DEF SettledInv
    <2> QED  BY <1>4, <1>5, <1>6, <1>7, <1>8, <2>6
  <1>12. CASE worker[w].pc # "succeeded"
    BY <1>1, <1>4, <1>5, <1>6, <1>7, <1>8, <1>10, <1>12, StillSettled
  <1> QED  BY <1>11, <1>12

LEMMA PipelineStep ==
    ASSUME PipelineInv, [PipelineNext]_pipelineVars
    PROVE  PipelineInv'
  <1>1. CASE UNCHANGED pipelineVars
    <2>1. PipelineSDKOK'
      BY <1>1, NothingAsked DEF PipelineInv, pipelineVars
    <2>2. UNCHANGED <<server, op, pipeline_state, records, total_processed, total_failed,
                      worker, added>>
      BY <1>1 DEF pipelineVars, contractVars
    <2> QED  BY <2>1, <2>2 DEF PipelineInv, PipelineTypeOK, QueueInv, HandsInv, HandOK, InQueue,
                InHands, CountInv, CountedRecords, Busy, SettledInv, Settled
  <1>2. CASE start \/ stop
    <2>1. CASE Workers # {}
      BY <1>2, <2>1, NoRecordMoves
    <2>2. CASE Workers = {}
      <3>1. /\ pipeline_state' \in {"Initialized", "Started"}
            /\ UNCHANGED <<contractVars, records, totals, worker, added>>
        BY <1>2 DEF start, stop, PipelineTypeOK, PipelineInv
      <3>2. PipelineSDKOK' /\ RecordsAdvance
        BY <3>1, NothingAsked, SameServerAdvances DEF PipelineInv
      <3> QED  BY <2>2, <3>1, <3>2, NothingMoves DEF PipelineInv, PipelineTypeOK, totals
    <2> QED  BY <2>1, <2>2
  <1>3. ASSUME NEW o \in asked, TakeEffect(o),
               UNCHANGED <<pipeline_state, records, totals, worker, added>>
        PROVE  PipelineInv'
    BY <1>3, RecordExecuted
  <1>4. ASSUME NEW w \in Workers,
               \/ process_batch(w) \/ IsEmpty(w) \/ Dequeue(w)
               \/ \E r \in {"ok", "err"} : Sent(w, r)
               \/ queue_record_success(w) \/ queue_record_failure(w) \/ DropBatch(w)
        PROVE  PipelineInv'
    BY <1>4, NoRecordMoves, RecordDequeued, RecordCounted
  <1> QED  BY <1>1, <1>2, <1>3, <1>4, RecordAdded DEF PipelineNext

\* What every state of the pipeline satisfies: see QueueInv, HandsInv,
\* CountInv and SettledInv.
THEOREM PipelineInvariant == PipelineSpec => []PipelineInv
  <1>1. ASSUME PipelineInit
        PROVE  PipelineInv
    <2> USE <1>1, PipelineAssumption DEF PipelineInit
    <2>1. PipelineSDKOK
      BY ServerInitOK DEF ContractInit, PipelineSDKOK, Outcomes
    <2>2. PipelineTypeOK
      BY DEF PipelineTypeOK, WorkerPCs
    <2>3. added = {} /\ records = <<>> /\ \A w \in Workers : worker[w].held = {}
      OBVIOUS
    <2>4. IsFiniteSet(added) /\ Cardinality(added) = 0
      BY <2>3, FS_EmptySet
    <2>5. QueueInv
      BY <2>3, <2>4 DEF QueueInv
    <2>6. HandsInv
      BY DEF HandsInv, HandOK
    <2>7. Busy = {} /\ Settled = {}
      BY <2>3 DEF Busy, Settled
    <2>8. CountInv /\ SettledInv
      BY <2>4, <2>7, FS_EmptySet DEF CountInv, SettledInv, CountedRecords
    <2> QED  BY <2>1, <2>2, <2>5, <2>6, <2>8 DEF PipelineInv
  <1> QED  BY <1>1, PipelineStep, PTL DEF PipelineSpec

\* Each record is in the queue once, in the hands of one batch, or counted
\* once, however the batches overlap and whichever of them are dropped.
THEOREM NoRecordIsLost == PipelineSpec => []RecordsAccounted
  <1>1. ASSUME PipelineInv, NEW r \in added
        PROVE  Cardinality(Holders(r)) + Cardinality(Places(r)) <= 1
    <2>1. \A v, w \in Holders(r) : v = w
      BY <1>1 DEF PipelineInv, HandsInv, Holders
    <2>2. \A i, j \in Places(r) : i = j
      BY <1>1 DEF PipelineInv, QueueInv, Places
    <2>3. Holders(r) = {} \/ Places(r) = {}
      BY <1>1 DEF PipelineInv, HandsInv, HandOK, Holders, Places, InQueue
    <2>4. Cardinality(Holders(r)) \in 0..1 /\ (Holders(r) = {} => Cardinality(Holders(r)) = 0)
      BY <2>1, OneAtMost
    <2>5. Cardinality(Places(r)) \in 0..1 /\ (Places(r) = {} => Cardinality(Places(r)) = 0)
      BY <2>2, OneAtMost
    <2> QED  BY <2>3, <2>4, <2>5
  <1>2. PipelineInv => RecordsAccounted
    BY <1>1 DEF RecordsAccounted, PipelineInv, CountInv
  <1> QED  BY <1>2, PipelineInvariant, PTL

\* There is a stored record for each that was counted as processed, in spite
\* of answers that were lost and requests that are executed late.
THEOREM WhatIsProcessedIsStored == PipelineSpec => []ProcessedIsStored
  <1>1. ASSUME PipelineInv
        PROVE  ProcessedIsStored
    <2> DEFINE Stored == {r \in added : server[r].state = "committed"}
    <2>1. Settled \subseteq Stored /\ Stored \subseteq added
      BY DEF Settled
    <2> HIDE DEF Stored
    <2>2. IsFiniteSet(Stored) /\ Cardinality(Stored) \in Nat
      BY <1>1, <2>1, FS_Subset, FS_CardinalityType DEF PipelineInv, QueueInv
    <2>3. Cardinality(Settled) <= Cardinality(Stored)
      BY <2>1, <2>2, FS_Subset
    <2>4. total_processed <= Cardinality(Settled) /\ total_processed \in Nat
          /\ Cardinality(Settled) \in Nat
      BY <1>1, SettledFinite DEF PipelineInv, SettledInv, PipelineTypeOK
    <2>5. total_processed <= Cardinality(Stored)
      BY <2>2, <2>3, <2>4
    <2> QED  BY <2>5 DEF ProcessedIsStored, Stored
  <1> QED  BY <1>1, PipelineInvariant, PTL

-----------------------------------------------------------------------------
(* The requests of a manager. *)

\* What a manager has sent is built from the settings it was given, which do
\* not change any more, whichever custom header came last.
SentInv ==
    /\ \A o \in Ops : sent[o] # {} => manager /\ ~RequestRefused(o)
    /\ \A o \in Ops : \A x \in sent[o] :
          \E last \in LastKeys : x = Authorized(HeadersOf(o, last))

BuiltInv ==
    /\ DOMAIN sent = Ops
    /\ "publish_timeout" \in DOMAIN config /\ config.publish_timeout \subseteq Nat

ConvertedInv ==
    \A d \in delimiter : d.text \in Seq(Nat) /\ d.result = Converted(d.hex, d.text)

RequestInv == SentInv /\ BuiltInv /\ ConvertedInv

\* What stays when the settings do.
LEMMA SettingsStay ==
    ASSUME UNCHANGED settings
    PROVE  /\ \A o \in Ops : RequestRefused(o)' <=> RequestRefused(o)
           /\ LastKeys' = LastKeys
           /\ \A o \in Ops : \A last : Authorized(HeadersOf(o, last))' = Authorized(HeadersOf(o, last))
  <1>1. UNCHANGED <<config, properties, custom>>
    BY DEF settings
  <1> QED  BY <1>1 DEF RequestRefused, PropertiesRefused, OwnHeaders, Addressed, default_db,
             default_table, FromProperties, LastKeys, CustomNames, HeadersOf, build_headers

\* No operation was called while the builders were.
LEMMA BuilderStep ==
    ASSUME RequestInv, BuilderCall,
           "publish_timeout" \in DOMAIN config', config'.publish_timeout \subseteq Nat
    PROVE  RequestInv'
  <1>1. ~manager /\ delimiter' = {} /\ UNCHANGED <<manager, sent>>
    BY DEF BuilderCall
  <1>2. SentInv'
    BY <1>1 DEF RequestInv, SentInv
  <1> QED  BY <1>1, <1>2 DEF RequestInv, BuiltInv, ConvertedInv

LEMMA RequestStep ==
    ASSUME RequestInv, [RequestNext]_requestVars
    PROVE  RequestInv'
  <1> USE RequestAssumption
  <1>1. ASSUME NEW ms \in PublishTimeouts, SetOption("publish_timeout", {ms})
        PROVE  RequestInv'
    <2>1. BuilderCall /\ config' = [config EXCEPT !["publish_timeout"] = {ms}]
      BY <1>1 DEF SetOption
    <2>2. "publish_timeout" \in DOMAIN config' /\ config'.publish_timeout \subseteq Nat
      BY <2>1 DEF RequestInv, BuiltInv
    <2> QED  BY <2>1, <2>2, BuilderStep
  <1>2. ASSUME NEW b \in BOOLEAN,
               SetOption("enable_transaction", b) \/ enable_multi_table_transaction(b)
        PROVE  RequestInv'
    <2>1. BuilderCall /\ DOMAIN config' = DOMAIN config
          /\ config'["publish_timeout"] = config["publish_timeout"]
      <3>1. CASE SetOption("enable_transaction", b)
        BY <3>1 DEF SetOption, RequestInv, BuiltInv
      <3>2. CASE enable_multi_table_transaction(b)
        BY <3>2, Zenon DEF enable_multi_table_transaction, RequestInv, BuiltInv
      <3> QED  BY <1>2, <3>1, <3>2
    <2> QED  BY <2>1, BuilderStep DEF RequestInv, BuiltInv
  <1>3. ASSUME NEW f, NEW v, SetProperty(f, v) \/ header(f, v)
        PROVE  RequestInv'
    <2>1. BuilderCall /\ config' = config
      BY <1>3 DEF SetProperty, header
    <2> QED  BY <2>1, BuilderStep DEF RequestInv, BuiltInv
  <1>4. CASE NewManager
    <2>1. ~manager /\ delimiter' = {} /\ UNCHANGED <<settings, sent>>
      BY <1>4 DEF NewManager
    <2>2. \A o \in Ops : sent[o] = {}
      BY <2>1 DEF RequestInv, SentInv
    <2>3. SentInv' /\ BuiltInv' /\ ConvertedInv'
      BY <2>1, <2>2 DEF RequestInv, SentInv, BuiltInv, ConvertedInv, settings
    <2> QED  BY <2>3 DEF RequestInv
  <1>5. ASSUME NEW o \in Ops, SendRequest(o)
        PROVE  RequestInv'
    <2>1. PICK last \in LastKeys : sent' = [sent EXCEPT ![o] =
              IF RequestRefused(o) THEN {} ELSE {Authorized(HeadersOf(o, last))}]
      BY <1>5 DEF SendRequest
    <2>2. manager /\ UNCHANGED <<settings, manager, delimiter>>
      BY <1>5 DEF SendRequest
    <2>3. \A p \in Ops \ {o} : sent'[p] = sent[p]
      BY <2>1 DEF RequestInv, BuiltInv
    <2>4. sent'[o] = IF RequestRefused(o) THEN {} ELSE {Authorized(HeadersOf(o, last))}
      BY <2>1 DEF RequestInv, BuiltInv
    <2>5. SentInv'
      <3>1. \A p \in Ops : sent'[p] # {} => manager' /\ ~RequestRefused(p)
        BY <2>2, <2>3, <2>4 DEF RequestInv, SentInv
      <3>2. \A p \in Ops : \A x \in sent'[p] :
               \E l \in LastKeys : x = Authorized(HeadersOf(p, l))
        BY <2>3, <2>4 DEF RequestInv, SentInv
      <3> QED  BY <2>2, <3>1, <3>2, SettingsStay DEF SentInv
    <2>6. BuiltInv' /\ ConvertedInv'
      BY <2>1, <2>2 DEF RequestInv, BuiltInv, ConvertedInv, settings
    <2> QED  BY <2>5, <2>6 DEF RequestInv
  <1>6. ASSUME NEW hex \in BOOLEAN, NEW text \in DelimiterTexts, convert_delimiter(hex, text)
        PROVE  RequestInv'
    <2>1. /\ delimiter' = {[hex |-> hex, text |-> text, result |-> Converted(hex, text)]}
          /\ UNCHANGED <<settings, manager, sent>>
      BY <1>6 DEF convert_delimiter
    <2>2. SentInv'
      <3>1. \A o \in Ops : sent'[o] # {} => manager' /\ ~RequestRefused(o)
        BY <2>1 DEF RequestInv, SentInv
      <3>2. \A o \in Ops : \A x \in sent'[o] :
               \E l \in LastKeys : x = Authorized(HeadersOf(o, l))
        BY <2>1 DEF RequestInv, SentInv
      <3> QED  BY <2>1, <3>1, <3>2, SettingsStay DEF SentInv
    <2>3. BuiltInv' /\ ConvertedInv'
      BY <2>1 DEF RequestInv, BuiltInv, ConvertedInv, settings
    <2> QED  BY <2>2, <2>3 DEF RequestInv
  <1>7. CASE UNCHANGED requestVars
    <2>1. UNCHANGED <<settings, manager, sent, delimiter>>
      BY <1>7 DEF requestVars
    <2>2. SentInv'
      <3>1. \A o \in Ops : sent'[o] # {} => manager' /\ ~RequestRefused(o)
        BY <2>1 DEF RequestInv, SentInv
      <3>2. \A o \in Ops : \A x \in sent'[o] :
               \E l \in LastKeys : x = Authorized(HeadersOf(o, l))
        BY <2>1 DEF RequestInv, SentInv
      <3> QED  BY <2>1, <3>1, <3>2, SettingsStay DEF SentInv
    <2> QED  BY <2>1, <2>2 DEF RequestInv, BuiltInv, ConvertedInv, settings
  <1> QED  BY <1>1, <1>2, <1>3, <1>4, <1>5, <1>6, <1>7 DEF RequestNext

\* What was sent is what the settings say, for all settings and in any order
\* of the custom headers.
THEOREM RequestInvariant == RequestSpec => []RequestInv
  <1>1. ASSUME RequestInit
        PROVE  RequestInv
    <2>1. (\A o \in Ops : sent[o] = {}) /\ DOMAIN sent = Ops /\ delimiter = {}
      BY <1>1 DEF RequestInit
    <2>2. "publish_timeout" \in DOMAIN config /\ config.publish_timeout = {}
      BY <1>1 DEF RequestInit
    <2> QED  BY <2>1, <2>2 DEF RequestInv, SentInv, BuiltInv, ConvertedInv
  <1> QED  BY <1>1, RequestStep, PTL DEF RequestSpec

-----------------------------------------------------------------------------
(* What the headers are. *)

\* The names of a transaction mean the same in every operation's own headers.
LEMMA OneAddress ==
    ASSUME NEW o \in Ops
    PROVE  /\ "label" \in DOMAIN OwnHeaders(o) => OwnHeaders(o)["label"] = "label"
           /\ "db" \in DOMAIN OwnHeaders(o) => OwnHeaders(o)["db"] = HeaderText(default_db)
           /\ "table" \in DOMAIN OwnHeaders(o) =>
                 OwnHeaders(o)["table"] = HeaderText(default_table)
           /\ "transaction_type" \in DOMAIN OwnHeaders(o) =>
                 OwnHeaders(o)["transaction_type"] = "multi"
  <1> DEFINE Same(h) ==
             /\ "label" \in DOMAIN h => h["label"] = "label"
             /\ "db" \in DOMAIN h => h["db"] = HeaderText(default_db)
             /\ "table" \in DOMAIN h => h["table"] = HeaderText(default_table)
             /\ "transaction_type" \in DOMAIN h => h["transaction_type"] = "multi"
  <1>1. Same(Addressed)
    BY DEF Addressed
  <1>2. ASSUME NEW v
        PROVE  Same(Insert(Addressed, "timeout", v))
    BY <1>1 DEF Insert
  <1>3. CASE o = "v1"
    BY <1>3 DEF OwnHeaders
  <1>4. CASE o = "load"
    BY <1>4 DEF OwnHeaders
  <1>5. CASE o \notin {"v1", "load"}
    <2>1. \/ OwnHeaders(o) = Addressed
          \/ \E v : OwnHeaders(o) = Insert(Addressed, "timeout", v)
      BY <1>5 DEF OwnHeaders
    <2> HIDE DEF Same
    <2>2. Same(OwnHeaders(o))
      BY <1>1, <1>2, <2>1
    <2> QED  BY <2>2 DEF Same
  <1> QED  BY <1>3, <1>4, <1>5

\* An operation's own headers are among those it sends, as they are.
LEMMA OwnHeadersSent ==
    ASSUME RequestInv, NEW o \in Ops, NEW x \in sent[o], NEW n \in DOMAIN OwnHeaders(o)
    PROVE  x[n] = OwnHeaders(o)[n]
  <1>1. PICK last \in LastKeys : x = Authorized(HeadersOf(o, last))
    BY DEF RequestInv, SentInv
  <1>2. n \in DOMAIN HeadersOf(o, last) /\ HeadersOf(o, last)[n] = OwnHeaders(o)[n]
    BY DEF HeadersOf, Over
  <1> QED  BY <1>1, <1>2 DEF Authorized, Over

\* The requests of a manager address one transaction, whatever the custom
\* headers are called and in whichever order they come.
THEOREM OneTransactionAddressed == RequestSpec => []RequestsAgree
  <1>1. ASSUME RequestInv, NEW a \in Ops, NEW b \in Ops, NEW x \in sent[a], NEW y \in sent[b],
               NEW n \in {"label", "db", "table", "transaction_type"}
                            \cap DOMAIN OwnHeaders(a) \cap DOMAIN OwnHeaders(b)
        PROVE  x[n] = y[n]
    <2>1. x[n] = OwnHeaders(a)[n] /\ y[n] = OwnHeaders(b)[n]
      BY <1>1, OwnHeadersSent
    <2>2. OwnHeaders(a)[n] = OwnHeaders(b)[n]
      BY OneAddress
    <2> QED  BY <2>1, <2>2
  <1>2. RequestInv => RequestsAgree
    BY <1>1 DEF RequestsAgree
  <1> QED  BY <1>2, RequestInvariant, PTL

\* Each field has a header name of its own, that no operation sets itself.
LEMMA HeaderNames ==
    /\ \A f, g \in DOMAIN HeaderOf : HeaderOf[f] = HeaderOf[g] => f = g
    /\ \A f \in DOMAIN HeaderOf :
          HeaderOf[f] \notin {"expect", "label", "db", "table", "channel_num"}
  BY DEF HeaderOf

LEMMA LoadsOwnHeaders ==
    ASSUME NEW o \in {"v1", "load"}
    PROVE  /\ DOMAIN OwnHeaders(o) \subseteq {"expect", "label", "db", "table", "channel_num"}
           /\ o \in Ops /\ o \notin TransactionOps
  BY DEF OwnHeaders, Ops, TransactionOps

\* The header of a field that was set.
LEMMA FieldHeader ==
    ASSUME NEW f \in DOMAIN HeaderOf, properties[f] # None
    PROVE  /\ HeaderOf[f] \in DOMAIN FromProperties
           /\ FromProperties[HeaderOf[f]] = to_header_val(HeaderOf[f], properties[f])
  <1> DEFINE Given == {g \in DOMAIN HeaderOf : properties[g] # None}
             FieldOf(h) == CHOOSE g \in Given : HeaderOf[g] = h
  <1>1. FromProperties = [h \in {HeaderOf[g] : g \in Given} |->
                             to_header_val(h, properties[FieldOf(h)])]
    BY DEF FromProperties
  <1>2. f \in Given /\ FieldOf(HeaderOf[f]) = f
    BY HeaderNames
  <1> HIDE DEF Given, FieldOf
  <1> QED  BY <1>1, <1>2

\* What is good for a header is as it was given, or an escaped line break.
LEMMA GoodHeader ==
    ASSUME NEW n, NEW v, to_header_val(n, v) # Refused
    PROVE  to_header_val(n, v) \in {v, "escaped"} \ {"newline"}
  BY DEF to_header_val, HeaderText, Refused

\* Every setting reaches the server with a load, if no custom header replaces
\* it, and every custom header that the operation does not set itself; and a
\* commit waits for a second at least.
THEOREM SettingsAreSent == RequestSpec => []SettingsReachServer
  <1>1. ASSUME RequestInv, NEW o \in {"v1", "load"}, NEW x \in sent[o]
        PROVE  /\ ~PropertiesRefused
               /\ \E last \in LastKeys : \A n \in DOMAIN build_headers(last) \ DOMAIN OwnHeaders(o) :
                     n \in DOMAIN x /\ x[n] = build_headers(last)[n]
    <2>1. o \in Ops /\ o \notin TransactionOps
      BY LoadsOwnHeaders
    <2>2. ~RequestRefused(o)
      BY <1>1, <2>1 DEF RequestInv, SentInv
    <2>3. PICK last \in LastKeys : x = Authorized(HeadersOf(o, last))
      BY <1>1, <2>1 DEF RequestInv, SentInv
    <2>4. x = Authorized(Over(OwnHeaders(o), build_headers(last)))
      BY <2>1, <2>3 DEF HeadersOf
    <2>5. \A n \in DOMAIN build_headers(last) \ DOMAIN OwnHeaders(o) :
              n \in DOMAIN x /\ x[n] = build_headers(last)[n]
      BY <2>4 DEF Authorized, Over
    <2> QED  BY <2>1, <2>2, <2>5 DEF RequestRefused
  <1>2. ASSUME RequestInv, NEW o \in {"v1", "load"}, NEW x \in sent[o],
               NEW f \in DOMAIN HeaderOf, properties[f] # None, HeaderOf[f] \notin CustomNames
        PROVE  /\ HeaderOf[f] \in DOMAIN x
               /\ x[HeaderOf[f]] \in {properties[f], "escaped"} \ {"newline"}
    <2> DEFINE h == HeaderOf[f]
    <2>1. h \in DOMAIN FromProperties /\ FromProperties[h] = to_header_val(h, properties[f])
      BY <1>2, FieldHeader
    <2>2. h \notin DOMAIN OwnHeaders(o)
      BY HeaderNames, LoadsOwnHeaders
    <2> HIDE DEF h
    <2>3. h \in DOMAIN x /\ x[h] = FromProperties[h] /\ ~PropertiesRefused
      <3>1. PICK last \in LastKeys : \A n \in DOMAIN build_headers(last) \ DOMAIN OwnHeaders(o) :
                n \in DOMAIN x /\ x[n] = build_headers(last)[n]
        BY <1>1, <1>2
      <3>2. h \in DOMAIN build_headers(last) /\ build_headers(last)[h] = FromProperties[h]
        BY <1>2, <2>1 DEF build_headers, h
      <3>3. ~PropertiesRefused
        BY <1>1, <1>2
      <3> QED  BY <2>2, <3>1, <3>2, <3>3
    <2>4. x[h] # Refused
      BY <2>1, <2>3 DEF PropertiesRefused
    <2> QED  BY <2>1, <2>3, <2>4, GoodHeader DEF h
  <1>3. ASSUME RequestInv, NEW o \in {"v1", "load"}, NEW x \in sent[o],
               NEW n \in CustomNames \ DOMAIN OwnHeaders(o)
        PROVE  \E k \in DOMAIN custom : NameOf[k] = n /\ x[n] \in {custom[k], "escaped"}
    <2>1. PICK last \in LastKeys : x[n] = build_headers(last)[n] /\ ~PropertiesRefused
      <3>1. PICK last \in LastKeys : \A m \in DOMAIN build_headers(last) \ DOMAIN OwnHeaders(o) :
                m \in DOMAIN x /\ x[m] = build_headers(last)[m]
        BY <1>1, <1>3
      <3>2. n \in DOMAIN build_headers(last)
        BY DEF build_headers
      <3>3. ~PropertiesRefused
        BY <1>1, <1>3
      <3> QED  BY <3>1, <3>2, <3>3
    <2>2. last[n] \in DOMAIN custom /\ NameOf[last[n]] = n
      BY <2>1 DEF LastKeys
    <2>3. x[n] = to_header_val(last[n], custom[last[n]])
      BY <2>1 DEF build_headers
    <2>4. x[n] # Refused
      BY <2>1, <2>2, <2>3 DEF PropertiesRefused
    <2> QED  BY <2>2, <2>3, <2>4, GoodHeader
  <1>4. ASSUME RequestInv, NEW x \in sent["commit"], config.publish_timeout # {}
        PROVE  x["timeout"] >= 1
    <2> DEFINE ms == CHOOSE ms \in config.publish_timeout : TRUE
    <2>1. ms \in Nat
      BY <1>4 DEF RequestInv, BuiltInv
    <2>2. OwnHeaders("commit") = Insert(Addressed, "timeout", DeadlineSecs(ms))
      BY <1>4 DEF OwnHeaders
    <2> HIDE DEF ms
    <2>3. "timeout" \in DOMAIN OwnHeaders("commit")
          /\ OwnHeaders("commit")["timeout"] = DeadlineSecs(ms)
      BY <2>2 DEF Insert
    <2>4. DeadlineSecs(ms) >= 1
      BY <2>1 DEF DeadlineSecs
    <2>5. x["timeout"] = OwnHeaders("commit")["timeout"]
      BY <1>4, <2>3, OwnHeadersSent DEF Ops, TransactionOps
    <2> QED  BY <2>3, <2>4, <2>5
  <1>5. RequestInv => SettingsReachServer
    BY <1>2, <1>3, <1>4 DEF SettingsReachServer
  <1> QED  BY <1>5, RequestInvariant, PTL

-----------------------------------------------------------------------------
(* convert_delimiter. *)

\* A byte of two hexadecimal digits gives them back.
LEMMA Digits ==
    ASSUME NEW p \in 0..15, NEW q \in 0..15
    PROVE  (16 * p + q) \div 16 = p /\ (16 * p + q) % 16 = q
  OBVIOUS

\* Halves of a length.
LEMMA Halves ==
    ASSUME NEW n \in Nat
    PROVE  /\ n \div 2 \in Nat /\ 2 * (n \div 2) <= n
           /\ n % 2 = 0 => 2 * (n \div 2) = n
  OBVIOUS

\* A text of single bytes has an even number of them if it is of even length.
LEMMA SingleBytes ==
    ASSUME NEW text \in Seq(Nat), \A i \in DOMAIN text : Bytes(text[i]) = 1, EvenBytes(text)
    PROVE  2 * (Len(text) \div 2) = Len(text)
  <1>1. Len(text) \in Nat /\ DOMAIN text = 1..Len(text)
    OBVIOUS
  <1>2. {i \in DOMAIN text : Bytes(text[i]) % 2 = 1} = 1..Len(text)
    BY <1>1
  <1>3. Cardinality(1..Len(text)) = Len(text)
    BY <1>1, FS_Interval
  <1>4. Len(text) % 2 = 0
    BY <1>2, <1>3 DEF EvenBytes
  <1> QED  BY <1>1, <1>4, Halves

\* What convert_delimiter returns spells the text, for texts of any length.
THEOREM DelimitersAreSpelt == RequestSpec => []DelimiterSpelt
  <1>1. ASSUME ConvertedInv, NEW d \in delimiter, d.hex, NEW out \in d.result
        PROVE  /\ \A i \in DOMAIN out :
                     <<out[i] \div 16, out[i] % 16>> = <<d.text[2 * i - 1], d.text[2 * i]>>
               /\ (\A i \in DOMAIN d.text : Bytes(d.text[i]) = 1) => 2 * Len(out) = Len(d.text)
    <2> DEFINE text == d.text
               pairs == HexPairs(text)
    <2>1. text \in Seq(Nat) /\ out \in Converted(TRUE, text)
      <3>1. d.hex => d.result = Converted(TRUE, text)
        BY <1>1 DEF ConvertedInv, Converted
      <3> QED  BY <1>1, <3>1 DEF ConvertedInv
    <2>2. /\ EvenBytes(text)
          /\ \A i \in DOMAIN pairs : IsHex(pairs[i][1]) /\ IsHex(pairs[i][2])
          /\ out = [i \in DOMAIN pairs |-> 16 * pairs[i][1] + pairs[i][2]]
      BY <2>1 DEF Converted
    <2> DEFINE half == Len(text) \div 2
    <2>3. Len(text) \in Nat /\ half \in Nat /\ 2 * half <= Len(text)
          /\ \A j \in 1..Len(text) : text[j] \in Nat
      <3>1. Len(text) \in Nat /\ \A j \in 1..Len(text) : text[j] \in Nat
        BY <2>1
      <3> QED  BY <3>1, Halves
    <2>4. DOMAIN pairs = 1..half /\ \A i \in 1..half :
              pairs[i][1] = text[2 * i - 1] /\ pairs[i][2] = text[2 * i]
      BY DEF HexPairs
    <2> HIDE DEF pairs, half
    <2>5. ASSUME NEW i \in DOMAIN out
          PROVE  /\ <<out[i] \div 16, out[i] % 16>> = <<text[2 * i - 1], text[2 * i]>>
                 /\ out[i] \in Int
      <3>1. i \in 1..half /\ out[i] = 16 * text[2 * i - 1] + text[2 * i]
            /\ IsHex(text[2 * i - 1]) /\ IsHex(text[2 * i])
        BY <2>2, <2>4
      <3>2. 2 * i - 1 \in 1..Len(text) /\ 2 * i \in 1..Len(text)
        BY <2>3, <3>1
      <3> DEFINE p == text[2 * i - 1]
                 q == text[2 * i]
      <3>3. p \in Nat /\ q \in Nat
        BY <2>3, <3>2
      <3>4. p < 16 /\ q < 16
        BY <3>1 DEF IsHex
      <3>5. out[i] = 16 * p + q
        BY <3>1
      <3> HIDE DEF p, q
      <3>6. out[i] \div 16 = p /\ out[i] % 16 = q /\ out[i] \in Int
        BY <3>3, <3>4, <3>5, Digits
      <3> QED  BY <3>6 DEF p, q
    <2>6. out \in Seq(Int) /\ Len(out) = half
      <3>1. \A i \in 1..half : out[i] \in Int
        BY <2>2, <2>4, <2>5
      <3>2. out = [i \in 1..half |-> out[i]]
        BY <2>2, <2>4
      <3> QED  BY <2>3, <3>1, <3>2
    <2>7. (\A i \in DOMAIN text : Bytes(text[i]) = 1) => 2 * half = Len(text)
      BY <2>1, <2>2, SingleBytes DEF half
    <2> QED  BY <2>5, <2>6, <2>7
  <1>2. RequestInv => DelimiterSpelt
    BY <1>1 DEF DelimiterSpelt, RequestInv
  <1> QED  BY <1>2, RequestInvariant, PTL
=============================================================================
