---------------------------- MODULE LoadContract ----------------------------
(***************************************************************************)
(* What a user of StreamLoadManager may count on, with no FE, no retry and *)
(* no network in sight.  A request that was made may take effect at any    *)
(* later time, any number of times, also after its caller was told of an   *)
(* error or gave up.  Nothing takes effect that was not asked for.  Ok is  *)
(* only said once the effect is there.                                     *)
(***************************************************************************)
EXTENDS StarRocksServer

CONSTANT Users

VARIABLES
    asked,     \* requests made so far
    op,        \* each user's latest request
    outcome    \* what it was told: "none" while it waits

contractVars == <<server, asked, op, outcome>>

NoOp == [kind |-> "none"]

Outcomes == {"none", "ok", "err", "dropped"}

ContractInit ==
    /\ ServerInit
    /\ asked = {}
    /\ op = [c \in Users |-> NoOp]
    /\ outcome = [c \in Users |-> "none"]

\* A user that is not waiting makes a request; it may be refused on the spot.
Ask(c, o) ==
    /\ outcome[c] # "none" \/ op[c] = NoOp
    /\ op' = [op EXCEPT ![c] = o]
    /\ \/ /\ asked' = asked \cup {o}
          /\ \E r \in {"none", "err"} : outcome' = [outcome EXCEPT ![c] = r]
       \/ /\ asked' = asked
          /\ outcome' = [outcome EXCEPT ![c] = "err"]
    /\ UNCHANGED server

TakeEffect(o) ==
    /\ o \in asked
    /\ \E reply \in Replies : Serve(o, reply)
    /\ UNCHANGED <<asked, op, outcome>>

Tell(c, r) ==
    /\ op[c] # NoOp /\ outcome[c] = "none"
    /\ r = "ok" => Achieved(op[c])
    /\ outcome' = [outcome EXCEPT ![c] = r]
    /\ UNCHANGED <<server, asked, op>>

ContractNext ==
    \/ \E c \in Users, o \in Operations : Ask(c, o)
    \/ \E o \in Operations : TakeEffect(o)
    \/ \E c \in Users, r \in {"ok", "err", "dropped"} : Tell(c, r)
    \/ \E l \in Labels : Expire(l) /\ UNCHANGED <<asked, op, outcome>>

ContractSpec == ContractInit /\ [][ContractNext]_contractVars
=============================================================================
