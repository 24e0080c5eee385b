------------------------- MODULE TransactionTracker -------------------------
(***************************************************************************)
(* The TransactionManager of examples/production/transaction_state.rs: a   *)
(* map from labels to transaction states behind a mutex, kept by tasks     *)
(* that call the SDK.  The mutex is released for every request: a task     *)
(* checks the state under the lock, awaits the SDK outside it, and writes  *)
(* what it learnt under the lock again.                                    *)
(*                                                                         *)
(* The SDK is what LoadContract promises of it.  A step is a check with    *)
(* the request that follows it, or an answer with what is written down of  *)
(* it: between the two parts of a step nothing is awaited, and a request   *)
(* may take effect, and an answer be given, any time later anyway.         *)
(***************************************************************************)
EXTENDS LoadContract

CONSTANT MaxStores   \* times a chunk is stored (bounds a run)

ASSUME TrackerAssumption == MaxStores \in Nat

VARIABLES
    state,           \* of each label in the map, "absent" of the others
    error_details,   \* whether an error was noted
    task             \* what each user is doing, and the labels still to do

trackerVars == <<contractVars, state, error_details, task>>

States == {"NotStarted", "Begun", "Loaded", "Prepared", "Committed",
           "RolledBack", "Failed"}

PCs == {"idle", "call", "autoPrepare", "preparing", "autoCommit",
        "recover", "recovering"}

\* Between two requests, with a label to go on with.
Pausing == {"autoPrepare", "preparing", "autoCommit", "recover"}

Idle == [pc |-> "idle", labels |-> {}]

TrackerOperations ==
    {o \in Operations : o.kind \in {"begin", "load", "prepare", "commit", "rollback"}}

TrackerTypeOK ==
    /\ ServerTypeOK
    /\ asked \subseteq TrackerOperations
    /\ op \in [Users -> TrackerOperations \cup {NoOp}]
    /\ outcome \in [Users -> Outcomes]
    /\ state \in [Labels -> States \cup {"absent"}]
    /\ error_details \in [Labels -> BOOLEAN]
    /\ task \in [Users -> [pc : PCs, labels : SUBSET Labels]]
    /\ \A c \in Users : /\ task[c].pc \in {"idle", "call"} => task[c].labels = {}
                       /\ task[c].pc \in Pausing => task[c].labels # {}

TrackerInit ==
    /\ ContractInit
    /\ state = [l \in Labels |-> "absent"]
    /\ error_details = [l \in Labels |-> FALSE]
    /\ task = [c \in Users |-> Idle]

-----------------------------------------------------------------------------
InProgress == {"Begun", "Loaded"}

Unfinished == InProgress \cup {"Prepared"}

\* Loads and prepares are let through in these states, and for a label that
\* is not in the map.
Accepting(l) == state[l] \in InProgress \cup {"absent"}

Goto(c, pc, labels) == task' = [task EXCEPT ![c] = [pc |-> pc, labels |-> labels]]

\* The SDK is called; that it refuses the call on the spot is one of the
\* errors it may answer with.
Request(c, o) == Ask(c, o) /\ outcome'[c] = "none"

Transaction(kind, l) ==
    [kind |-> kind, label |-> l, chunk |-> NoChunk, deadline |-> kind = "begin"]

begin_transaction(c, l) ==
    /\ task[c].pc = "idle"
    /\ state[l] = "absent"
    /\ state' = [state EXCEPT ![l] = "NotStarted"]
    /\ Request(c, Transaction("begin", l))
    /\ Goto(c, "call", {})
    /\ UNCHANGED error_details

load_data(c, l, d) ==
    /\ task[c].pc = "idle"
    /\ Accepting(l)
    /\ Request(c, [kind |-> "load", label |-> l, chunk |-> d, deadline |-> FALSE])
    /\ Goto(c, "call", {})
    /\ UNCHANGED <<state, error_details>>

prepare_transaction(c, l) ==
    /\ task[c].pc = "idle"
    /\ Accepting(l)
    /\ Request(c, Transaction("prepare", l))
    /\ Goto(c, "call", {})
    /\ UNCHANGED <<state, error_details>>

\* A commit of a transaction that was not prepared calls prepare_transaction
\* first, which looks at the state again.  In any other state, Failed and
\* RolledBack included, the commit is sent.
commit_transaction(c, l) ==
    /\ task[c].pc = "idle"
    /\ \/ /\ state[l] \in InProgress
          /\ Goto(c, "autoPrepare", {l})
          /\ UNCHANGED contractVars
       \/ /\ state[l] \notin InProgress
          /\ Request(c, Transaction("commit", l))
          /\ Goto(c, "call", {})
    /\ UNCHANGED <<state, error_details>>

AutoPrepare(c) ==
    /\ task[c].pc = "autoPrepare"
    /\ \E l \in task[c].labels :
          \/ /\ Accepting(l)
             /\ Request(c, Transaction("prepare", l))
             /\ Goto(c, "preparing", {l})
          \/ /\ ~Accepting(l)
             /\ Goto(c, "idle", {})
             /\ UNCHANGED contractVars
    /\ UNCHANGED <<state, error_details>>

AutoCommit(c) ==
    /\ task[c].pc = "autoCommit"
    /\ \E l \in task[c].labels : Request(c, Transaction("commit", l))
    /\ Goto(c, "call", {})
    /\ UNCHANGED <<state, error_details>>

\* No look at the state at all.
rollback_transaction(c, l) ==
    /\ task[c].pc = "idle"
    /\ Request(c, Transaction("rollback", l))
    /\ Goto(c, "call", {})
    /\ UNCHANGED <<state, error_details>>

StuckUnprepared == {l \in Labels : state[l] \in InProgress}  \* (bug)

StuckLabels == {l \in Labels : state[l] \in Unfinished}

\* The labels that are found unfinished for too long (any of them may be).
\* With enable_auto_recovery, they are rolled back one by one.
recover_stuck_transactions(c, stuck) ==
    /\ task[c].pc = "idle"
    /\ stuck # {}
    /\ Goto(c, "recover", stuck)
    /\ UNCHANGED <<contractVars, state, error_details>>

RecoverNext(c) ==
    /\ task[c].pc = "recover"
    /\ \E l \in task[c].labels :
          /\ Request(c, Transaction("rollback", l))
          /\ Goto(c, "recovering", task[c].labels \ {l})
    /\ UNCHANGED <<state, error_details>>

CompletedLabels == {l \in Labels : state[l] \in {"Committed", "RolledBack"}}

\* Completed transactions older than max_age (any of them may be).
cleanup_completed_transactions(old) ==
    /\ old # {}
    /\ state' = [l \in Labels |-> IF l \in old THEN "absent" ELSE state[l]]
    /\ error_details' = [l \in Labels |-> error_details[l] /\ l \notin old]
    /\ UNCHANGED <<contractVars, task>>

-----------------------------------------------------------------------------
(* An answer of the SDK, and what is written down of it. *)

StateIfOk(kind) ==
    CASE kind = "begin" -> "Begun"
      [] kind = "load" -> "Loaded"
      [] kind = "prepare" -> "Prepared"
      [] kind = "commit" -> "Committed"
      [] OTHER -> "RolledBack"

StateAnyway(kind, r) == StateIfOk(kind)  \* (bug)

\* "Even if rollback fails, mark as rolled back locally".
StateAfter(kind, r) ==
    IF r = "err" /\ kind # "rollback" THEN "Failed" ELSE StateIfOk(kind)

\* Nothing is written of a label that has left the map.
Record(l, s, r) ==
    LET known == state[l] # "absent" IN
    /\ state' = [state EXCEPT ![l] = IF known THEN s ELSE @]
    /\ error_details' = [error_details EXCEPT ![l] = @ \/ (known /\ r = "err")]

\* Where the task goes on.
Continue(c, r) ==
    LET labels == task[c].labels
        pc == CASE task[c].pc = "preparing" /\ r = "ok" -> "autoCommit"
                [] task[c].pc = "recovering" /\ labels # {} -> "recover"
                [] OTHER -> "idle"
    IN  Goto(c, pc, IF pc = "idle" THEN {} ELSE labels)

Complete(c, r) ==
    /\ Tell(c, r)
    /\ Record(op[c].label, StateAfter(op[c].kind, r), r)
    /\ Continue(c, r)

\* The future is dropped while it waits: nothing is written down.
Abandon(c) ==
    /\ Tell(c, "dropped")
    /\ Goto(c, "idle", {})
    /\ UNCHANGED <<state, error_details>>

\* The cluster acts on its own: a request takes effect, a deadline passes.
ClusterActs ==
    /\ \/ \E o \in asked : TakeEffect(o)
       \/ \E l \in Labels : Expire(l) /\ UNCHANGED <<asked, op, outcome>>
    /\ \A l \in Labels, d \in Chunks : server'[l].rows[d] <= MaxStores
    /\ UNCHANGED <<state, error_details, task>>

\* What a task does next without awaiting anything.
TaskGoesOn(c) == AutoPrepare(c) \/ AutoCommit(c) \/ RecoverNext(c)

Answered(c) == \E r \in {"ok", "err"} : Complete(c, r)

Recovery(c) == recover_stuck_transactions(c, StuckLabels)

TrackerNext ==
    \/ \E c \in Users, l \in Labels :
          \/ begin_transaction(c, l) \/ prepare_transaction(c, l)
          \/ commit_transaction(c, l) \/ rollback_transaction(c, l)
          \/ \E d \in Chunks : load_data(c, l, d)
    \/ \E c \in Users, stuck \in SUBSET StuckLabels : recover_stuck_transactions(c, stuck)
    \/ \E old \in SUBSET CompletedLabels : cleanup_completed_transactions(old)
    \/ \E c \in Users : TaskGoesOn(c) \/ Answered(c) \/ Abandon(c)
    \/ ClusterActs

TrackerSpec == TrackerInit /\ [][TrackerNext]_trackerVars

\* The runtime runs a task that need not wait, the SDK answers a task that is
\* not dropped every time, and recovery is called again and again, which the
\* example leaves to whoever runs it.
TrackerFairSpec ==
    /\ TrackerSpec
    /\ \A c \in Users : WF_trackerVars(TaskGoesOn(c)) /\ SF_trackerVars(Answered(c))
    /\ WF_trackerVars(\E c \in Users : Recovery(c))

-----------------------------------------------------------------------------
(* Safety. *)

\* What a state in the map says of the cluster.
Truthful(l) ==
    LET rec == server[l] IN
    CASE state[l] = "Begun" -> rec.state # "unused"
      [] state[l] = "Loaded" -> rec.state # "unused" /\ \E d \in Chunks : rec.rows[d] > 0
      [] state[l] = "Prepared" -> rec.state \notin {"unused", "open"}
      [] state[l] = "Committed" -> rec.state = "committed"
      [] state[l] = "RolledBack" -> error_details[l] \/ rec.state = "aborted"
      [] OTHER -> TRUE

\* The map never claims progress that the cluster has not made, whatever tasks
\* overtake each other and whatever is cleaned up meanwhile; and RolledBack
\* without an error noted means rolled back.
MapIsTruthful == \A l \in Labels : Truthful(l)

\* "State validation": a transaction that was prepared or committed does not
\* take loads again.
NeverBackToLoaded ==
    [][\A l \in Labels : state[l] \in {"Prepared", "Committed"} =>
          state'[l] # "Loaded"]_trackerVars

-----------------------------------------------------------------------------
(* Liveness, under TrackerFairSpec. *)

\* From some time on, nobody starts or ends a transaction.
OnlyRecovery ==
    <>[](\A c \in Users : task[c].pc \in {"idle", "recover", "recovering"})

\* Recovery works: transactions that everybody left alone are not unfinished
\* in the map for ever.
RecoveryFinishes ==
    OnlyRecovery => \A l \in Labels : state[l] \in Unfinished ~> state[l] \notin Unfinished

\* "Automatic cleanup of stuck transactions": also of one that was not begun.
NothingStaysStuck ==
    OnlyRecovery =>
        \A l \in Labels : state[l] = "NotStarted" ~> state[l] # "NotStarted"
=============================================================================
