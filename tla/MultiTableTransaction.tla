------------------------- MODULE MultiTableTransaction -------------------------
(***************************************************************************)
(* A MultiTableTransaction of examples/advanced/multi_table_transaction.rs *)
(* as its demonstrations drive it: begin, which also loads the chunks of   *)
(* all tables, then prepare, then commit.  The second demonstration rolls  *)
(* back when prepare or commit fails, the others return the error.         *)
(*                                                                         *)
(* The SDK is what LoadContract promises.  A table has one chunk.          *)
(***************************************************************************)
EXTENDS LoadContract

CONSTANTS
    coordinator,      \* the user that drives the transaction
    txn_label,
    MaxChunkCopies    \* times a chunk is stored (bounds a run)

ASSUME MultiTableAssumption ==
    /\ coordinator \in Users /\ txn_label \in Labels
    /\ MaxChunkCopies \in Nat

VARIABLES
    step,          \* of the demonstration
    tables,        \* chunks that begin has still to load
    committed, rolled_back,
    rolls_back     \* whether it is the second demonstration

multiVars == <<contractVars, step, tables, committed, rolled_back, rolls_back>>

Steps == {"new", "beginning", "loading", "begun", "preparing", "prepared", "committing",
          "undo", "undoing", "returned"}

MultiTypeOK ==
    /\ step \in Steps
    /\ tables \subseteq Chunks
    /\ {committed, rolled_back, rolls_back} \subseteq BOOLEAN

MultiInit ==
    /\ ContractInit
    /\ step = "new" /\ tables = Chunks
    /\ committed = FALSE /\ rolled_back = FALSE
    /\ rolls_back \in BOOLEAN
-----------------------------------------------------------------------------
MultiCall(kind, chunk) ==
    /\ Ask(coordinator, [kind |-> kind, label |-> txn_label, chunk |-> chunk,
                         deadline |-> kind = "begin"])
    /\ outcome'[coordinator] = "none"

GoTo(from, to) == step = from /\ step' = to

Flags == <<committed, rolled_back, rolls_back>>

begin ==
    /\ GoTo("new", "beginning")
    /\ MultiCall("begin", NoChunk)
    /\ UNCHANGED <<tables, Flags>>

\* The tables are in no particular order.
LoadTable(d) ==
    /\ GoTo("loading", "beginning")
    /\ d \in tables /\ tables' = tables \ {d}
    /\ MultiCall("load", d)
    /\ UNCHANGED Flags

\* Begin is through with a call: on with the next chunk, if there is one.
BegunSoFar ==
    /\ GoTo("beginning", IF tables = {} THEN "begun" ELSE "loading")
    /\ Tell(coordinator, "ok")
    /\ UNCHANGED <<tables, Flags>>

LoadFailedButOn ==  \* (bug)
    /\ GoTo("beginning", IF tables = {} THEN "begun" ELSE "loading")
    /\ Tell(coordinator, "err")
    /\ UNCHANGED <<tables, Flags>>

\* No demonstration rolls back what begin leaves open.
BeginFailed ==
    /\ GoTo("beginning", "returned")
    /\ Tell(coordinator, "err")
    /\ UNCHANGED <<tables, Flags>>

prepare ==
    /\ GoTo("begun", "preparing")
    /\ MultiCall("prepare", NoChunk)
    /\ UNCHANGED <<tables, Flags>>

Prepared ==
    /\ GoTo("preparing", "prepared")
    /\ Tell(coordinator, "ok")
    /\ UNCHANGED <<tables, Flags>>

commit ==
    /\ ~committed
    /\ GoTo("prepared", "committing")
    /\ MultiCall("commit", NoChunk)
    /\ UNCHANGED <<tables, Flags>>

Committed ==
    /\ GoTo("committing", "returned")
    /\ Tell(coordinator, "ok")
    /\ committed' = TRUE
    /\ UNCHANGED <<tables, rolled_back, rolls_back>>

\* An error of prepare or commit.
Fails ==
    /\ \E from \in {"preparing", "committing"} :
          GoTo(from, IF rolls_back THEN "undo" ELSE "returned")
    /\ Tell(coordinator, "err")
    /\ UNCHANGED <<tables, Flags>>

rollback ==
    /\ ~rolled_back
    /\ GoTo("undo", "undoing")
    /\ MultiCall("rollback", NoChunk)
    /\ UNCHANGED <<tables, Flags>>

RollbackAnyway(r) ==  \* (bug)
    /\ GoTo("undoing", "returned")
    /\ Tell(coordinator, r)
    /\ rolled_back' = TRUE
    /\ UNCHANGED <<tables, committed, rolls_back>>

RolledBack(r) ==
    /\ GoTo("undoing", "returned")
    /\ Tell(coordinator, r)
    /\ rolled_back' = (r = "ok")
    /\ UNCHANGED <<tables, committed, rolls_back>>

\* The cluster acts on its own: a request takes effect, a deadline passes.
MultiClusterActs ==
    /\ \/ \E o \in asked : TakeEffect(o)
       \/ Expire(txn_label) /\ UNCHANGED <<asked, op, outcome>>
    /\ \A d \in Chunks : server'[txn_label].rows[d] <= MaxChunkCopies
    /\ UNCHANGED <<step, tables, Flags>>

MultiNext ==
    \/ begin \/ prepare \/ commit \/ rollback
    \/ \E d \in Chunks : LoadTable(d)
    \/ BegunSoFar \/ BeginFailed \/ Prepared \/ Committed \/ Fails
    \/ \E r \in {"ok", "err"} : RolledBack(r)
    \/ MultiClusterActs

MultiSpec == MultiInit /\ [][MultiNext]_multiVars

-----------------------------------------------------------------------------
\* "No partial commits across tables": what the cluster commits has the chunks
\* of all tables, also when the answer to the commit is lost and a rollback
\* follows.
AllOrNothing ==
    step # "new" /\ server[txn_label].state = "committed"
        => \A d \in Chunks : server[txn_label].rows[d] > 0

\* The flags are true, and never both set: a transaction that counts as rolled
\* back cannot be committed by a request that arrives late.
FlagsAreTrue ==
    /\ committed => server[txn_label].state = "committed"
    /\ rolled_back => server[txn_label].state = "aborted"
=============================================================================
