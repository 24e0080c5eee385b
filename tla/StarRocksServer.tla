--------------------------- MODULE StarRocksServer ---------------------------
(***************************************************************************)
(* The StarRocks cluster, as far as the SDK relies on it.  It is not part  *)
(* of the repository: this is what src/manager.rs and the tests take for   *)
(* granted of the stream load endpoints.                                   *)
(*                                                                         *)
(* A label names one load for good.  A V1 load commits its data at once; a *)
(* V2 transaction is opened by begin, takes loads while it is open, and    *)
(* ends by commit, by rollback or at the deadline its begin asked for.     *)
(* Any request may also be refused without effect.  A label stands for the *)
(* pair of database and label under which the server files it.             *)
(***************************************************************************)
EXTENDS Integers

CONSTANTS
    Labels,   \* labels in use
    Chunks    \* batches of rows

(***************************************************************************)
(* A request as the server sees it.  Only begin has a deadline to ask for, *)
(* only V1 and load carry data.                                            *)
(***************************************************************************)
Kinds == {"v1", "begin", "load", "prepare", "commit", "rollback", "status", "cancel"}

NoChunk == "no chunk"

Operations ==
    [kind : {"v1", "load"}, label : Labels, chunk : Chunks, deadline : {FALSE}]
    \cup [kind : Kinds \ {"v1", "load"}, label : Labels, chunk : {NoChunk},
          deadline : BOOLEAN]

-----------------------------------------------------------------------------
(* What the server keeps of a label. *)

LabelStates == {"unused", "open", "prepared", "committed", "aborted"}

Records == [state : LabelStates,
            rows : [Chunks -> Nat],    \* times each chunk has been stored
            direct : BOOLEAN,          \* loaded by V1
            deadline : BOOLEAN]        \* begin asked for a timeout

Unused == [state |-> "unused", rows |-> [d \in Chunks |-> 0],
           direct |-> FALSE, deadline |-> FALSE]

Live(rec) == rec.state \in {"open", "prepared"}

\* The Status values of a response body.
Replies == {"Success", "OK", "Publish Timeout", "Fail"}

VARIABLE server   \* what the cluster holds under each label

ServerTypeOK == server \in [Labels -> Records]

ServerInit == server = [l \in Labels |-> Unused]

-----------------------------------------------------------------------------
(* Serving a request: what it does to its label, and what the body says.   *)

Become(l, state) == server' = [server EXCEPT ![l].state = state]

Store(l, d) == [server[l].rows EXCEPT ![d] = @ + 1]

\* Any request may be refused: no such transaction, label already used,
\* wrong state, bad data, overload.
Refuse(reply) == reply = "Fail" /\ UNCHANGED server

ServeV1(o, reply) ==
    /\ o.kind = "v1" /\ server[o.label].state = "unused"
    /\ reply \in {"Success", "OK", "Publish Timeout"}
    /\ server' = [server EXCEPT ![o.label] =
           [@ EXCEPT !.state = "committed", !.direct = TRUE,
                     !.rows = Store(o.label, o.chunk)]]

ServeBegin(o, reply) ==
    /\ o.kind = "begin" /\ server[o.label].state = "unused"
    /\ reply = "OK"
    /\ server' = [server EXCEPT ![o.label] =
           [@ EXCEPT !.state = "open", !.deadline = o.deadline]]

\* A chunk the transaction already has may be stored again or recognised by
\* its channel_num: the SDK sends that header and relies on neither.
ServeLoad(o, reply) ==
    /\ o.kind = "load" /\ server[o.label].state = "open"
    /\ reply \in {"OK", "Success"}
    /\ \/ server' = [server EXCEPT ![o.label].rows = Store(o.label, o.chunk)]
       \/ server[o.label].rows[o.chunk] > 0 /\ UNCHANGED server

ServePrepare(o, reply) ==
    /\ o.kind = "prepare" /\ server[o.label].state = "open"
    /\ reply = "OK"
    /\ Become(o.label, "prepared")

\* The tests also commit a transaction that was not prepared.
ServeCommit(o, reply) ==
    /\ o.kind = "commit" /\ Live(server[o.label])
    /\ reply \in {"OK", "Publish Timeout"}
    /\ Become(o.label, "committed")

ServeAbort(o, reply) ==
    /\ o.kind \in {"rollback", "cancel"} /\ Live(server[o.label])
    /\ reply = "OK"
    /\ Become(o.label, "aborted")

ServeStatus(o, reply) ==
    /\ o.kind = "status"
    /\ reply = "OK"
    /\ UNCHANGED server

Serve(o, reply) ==
    \/ Refuse(reply)
    \/ ServeV1(o, reply)
    \/ ServeBegin(o, reply)
    \/ ServeLoad(o, reply)
    \/ ServePrepare(o, reply)
    \/ ServeCommit(o, reply)
    \/ ServeAbort(o, reply)
    \/ ServeStatus(o, reply)

\* The deadline of a transaction nobody ended.
Expire(l) ==
    /\ Live(server[l]) /\ server[l].deadline
    /\ Become(l, "aborted")

(***************************************************************************)
(* The effect that a caller who was told Ok counts on.  It is never undone: *)
(* rows are only added, committed and aborted are final.  An Ok of         *)
(* get_load_status or cancel_load says nothing of the cluster: their code  *)
(* does not look at the body, although the doc of cancel_load has an error *)
(* for a cancellation that fails on the server.                            *)
(***************************************************************************)
Achieved(o) ==
    LET rec == server[o.label] IN
    CASE o.kind = "v1" -> rec.state = "committed" /\ rec.rows[o.chunk] > 0
      [] o.kind = "begin" -> rec.state # "unused"
      [] o.kind = "load" -> rec.state # "unused" /\ rec.rows[o.chunk] > 0
      [] o.kind = "prepare" -> rec.state \notin {"unused", "open"}
      [] o.kind = "commit" -> rec.state = "committed"
      [] o.kind = "rollback" -> rec.state = "aborted"
      [] OTHER -> TRUE
=============================================================================
