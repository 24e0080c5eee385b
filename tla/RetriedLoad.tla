----------------------------- MODULE RetriedLoad -----------------------------
(***************************************************************************)
(* An application that sends one batch with send_single_batch in a loop of *)
(* its own, as three examples do: what exponential_backoff,                *)
(* execute_with_recovery and send_with_failover have in common.  Each of   *)
(* them adds when it tries again, and after how long.                      *)
(*                                                                         *)
(* The SDK, retries of its own included, is what LoadContract promises.    *)
(***************************************************************************)
EXTENDS LoadContract, FiniteSets

CONSTANT Retriers   \* users that load this way

ASSUME RetriersAssumption == Retriers \subseteq Users /\ Chunks # {}

VARIABLE loop   \* each one's loop: where it is, attempts made, labels used, and
                \* whether it keeps one label for all attempts

retriedVars == <<contractVars, loop>>

LoopPCs == {"idle", "trying", "calling", "asleep", "ok", "failed", "panicked"}

Loops == [pc : LoopPCs, attempts : Nat, labels : SUBSET Labels, keeps : BOOLEAN]

\* The batch a loop loads; which one it is makes no difference.
Batch == CHOOSE d \in Chunks : TRUE

RetriedInit ==
    /\ ContractInit
    /\ loop \in [Retriers -> [pc : {"idle"}, attempts : {0}, labels : {{}},
                              keeps : BOOLEAN]]

-----------------------------------------------------------------------------
(* The delay between attempts is doubled in two of the loops, up to a cap. *)

TwoTo[n \in Nat] == IF n = 0 THEN 1 ELSE 2 * TwoTo[n - 1]

Least(a, b) == IF a <= b THEN a ELSE b

-----------------------------------------------------------------------------
LoopTo(c, from, to) ==
    /\ loop[c].pc = from
    /\ loop' = [loop EXCEPT ![c] = [@ EXCEPT !.pc = to]]

StartLoop(c, first) == LoopTo(c, "idle", first) /\ UNCHANGED contractVars

TakenLabels == UNION {loop[u].labels : u \in Retriers}

NewLabels(c) == Labels \ TakenLabels  \* (bug)

\* The label is made before the loop, or for every attempt: with a time in it.
\* Which one it is makes no difference.
LabelsFor(c) ==
    IF loop[c].keeps /\ loop[c].labels # {} THEN loop[c].labels ELSE Labels \ TakenLabels

CallWith(this, l, attempts) ==
    [this EXCEPT !.pc = "calling", !.attempts = attempts, !.labels = this.labels \cup {l}]

TryAnew(c) ==  \* (bug)
    /\ loop[c].pc = "trying"
    /\ LabelsFor(c) # {}
    /\ LET l == CHOOSE l \in LabelsFor(c) : TRUE IN
          /\ Ask(c, [kind |-> "v1", label |-> l, chunk |-> Batch, deadline |-> FALSE])
          /\ loop' = [loop EXCEPT ![c] = CallWith(@, l, 1)]
    /\ outcome'[c] = "none"

\* One more call of send_single_batch.  Refused on the spot is an error too.
TryLoad(c) ==
    /\ loop[c].pc = "trying"
    /\ LabelsFor(c) # {}
    /\ LET l == CHOOSE l \in LabelsFor(c) : TRUE IN
          /\ Ask(c, [kind |-> "v1", label |-> l, chunk |-> Batch, deadline |-> FALSE])
          /\ loop' = [loop EXCEPT ![c] = CallWith(@, l, @.attempts + 1)]
    /\ outcome'[c] = "none"

AnswerIsOk(c) ==  \* (bug)
    (Tell(c, "ok") \/ Tell(c, "err")) /\ LoopTo(c, "calling", "ok")

LoadOk(c) == Tell(c, "ok") /\ LoopTo(c, "calling", "ok")

\* An error: the loop sleeps and goes on, or returns it.
LoadErr(c, next) == Tell(c, "err") /\ LoopTo(c, "calling", next)

WakeUp(c) == LoopTo(c, "asleep", "trying") /\ UNCHANGED contractVars

ClusterLoads ==
    /\ \E o \in asked : TakeEffect(o)
    /\ UNCHANGED loop

\* All that a loop does, when it stops and whatever it waits for in between.
RetriedStep(c) ==
    \/ \E first \in {"trying", "panicked"} : StartLoop(c, first)
    \/ TryLoad(c) \/ LoadOk(c) \/ WakeUp(c)
    \/ \E next \in {"asleep", "failed", "panicked"} : LoadErr(c, next)
    \/ LoopTo(c, "trying", "failed") /\ UNCHANGED contractVars

RetriedNext == (\E c \in Retriers : RetriedStep(c)) \/ ClusterLoads

RetriedSpec == RetriedInit /\ [][RetriedNext]_retriedVars

-----------------------------------------------------------------------------
Stored(c) == UNION {{l} \X (1..server[l].rows[Batch]) : l \in loop[c].labels}

Copies(c) == Cardinality(Stored(c))

\* Retries do not multiply a batch: with one label it is stored at most once,
\* also when the answers were lost and the requests arrive late; with a new
\* label per attempt at most once per attempt.
RetriesDoNotMultiply ==
    \A c \in Retriers : Copies(c) <= IF loop[c].keeps THEN 1 ELSE loop[c].attempts

\* What the loop returns Ok for is stored.
LoopOkIsStored == \A c \in Retriers : loop[c].pc = "ok" => Copies(c) > 0

Looping(c) == loop[c].pc \in {"trying", "calling", "asleep"}

\* Every loop comes to an end.
LoopEnds == \A c \in Retriers : Looping(c) ~> ~Looping(c)
=============================================================================
