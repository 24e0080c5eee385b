--------------------------- MODULE HighAvailability ---------------------------
(***************************************************************************)
(* examples/advanced/high_availability.rs: a monitor that checks nodes     *)
(* round after round, and loads that look for healthy nodes before each    *)
(* attempt.  They share the list of nodes behind a lock, which the monitor *)
(* holds for a whole round.                                                *)
(*                                                                         *)
(* The node that an attempt chooses is only printed: the manager picks its *)
(* FE itself.  The example has no use for max_consecutive_failures and     *)
(* min_success_rate; the numbers below are the code's.                     *)
(***************************************************************************)
EXTENDS RetriedLoad

CONSTANTS
    Nodes,        \* number of nodes
    MaxRounds     \* rounds of checks (bounds a run)

ASSUME HAAssumption == Nodes \in Nat /\ MaxRounds \in Nat

VARIABLES
    node,       \* health and counts of each node; its checks, and whether the
                \* last one succeeded (history)
    turn,       \* node the monitor checks next, 0 while it waits for its interval
    rounds      \* rounds begun (bounds a run)

haVars == <<retriedVars, node, turn, rounds>>

monitorVars == <<node, turn, rounds>>

NewNode == [health |-> "Healthy", failure_count |-> 0, success_count |-> 0,
            checks |-> 0, answered |-> FALSE]

MonitorInit ==
    /\ node = [n \in 1..Nodes |-> NewNode]
    /\ turn = 0 /\ rounds = 0

\* send_with_failover is given its label.
HAInit == RetriedInit /\ MonitorInit /\ \A c \in Retriers : loop[c].keeps

-----------------------------------------------------------------------------
(* The monitor. *)

\* The rate of successes, in percent, is below a limit; 0 if there are none.
RateBelow(failures, successes, limit) ==
    successes = 0 \/ successes * 100 < limit * (failures + successes)

update_health(failures, successes) ==
    IF failures > 5 \/ RateBelow(failures, successes, 50) THEN "Unavailable"
    ELSE IF failures > 2 \/ RateBelow(failures, successes, 80) THEN "Degraded"
    ELSE "Healthy"

CountsForEver(n, ok) ==  \* (bug)
    IF ok THEN [failures |-> node[n].failure_count, successes |-> node[n].success_count + 1]
          ELSE [failures |-> node[n].failure_count + 1, successes |-> node[n].success_count]

\* A success forgets the failures.
CheckCounts(n, ok) ==
    IF ok THEN [failures |-> 0, successes |-> node[n].success_count + 1]
          ELSE [failures |-> node[n].failure_count + 1, successes |-> node[n].success_count]

\* The interval is over and the monitor takes the lock for writing.
BeginRound ==
    /\ turn = 0 /\ Nodes > 0 /\ rounds < MaxRounds
    /\ turn' = 1 /\ rounds' = rounds + 1
    /\ UNCHANGED <<retriedVars, node>>

check_node_health(ok) ==
    /\ turn # 0
    /\ LET count == CheckCounts(turn, ok)
           health == update_health(count.failures, count.successes)
       IN  node' = [node EXCEPT ![turn] =
              [health |-> health, failure_count |-> count.failures,
               success_count |-> count.successes, checks |-> @.checks + 1, answered |-> ok]]
    /\ turn' = IF turn < Nodes THEN turn + 1 ELSE 0
    /\ UNCHANGED <<retriedVars, rounds>>

-----------------------------------------------------------------------------
(* send_with_failover. *)

ReadableAlways == TRUE  \* (bug)

Readable == turn = 0

SomeHealthy == \E n \in 1..Nodes : node[n].health = "Healthy"

StartHA(c) == StartLoop(c, "trying") /\ UNCHANGED monitorVars

TryHealthy(c) == Readable /\ SomeHealthy /\ TryLoad(c) /\ UNCHANGED monitorVars

NoHealthyNodes(c) ==
    /\ Readable /\ ~SomeHealthy
    /\ LoopTo(c, "trying", "failed")
    /\ UNCHANGED <<contractVars, monitorVars>>

HAOk(c) == LoadOk(c) /\ UNCHANGED monitorVars

HAErr(c) ==
    /\ LoadErr(c, IF loop[c].attempts >= 3 THEN "failed" ELSE "asleep")
    /\ UNCHANGED monitorVars

HAWakes(c) == WakeUp(c) /\ UNCHANGED monitorVars

HAStep(c) == TryHealthy(c) \/ NoHealthyNodes(c) \/ HAOk(c) \/ HAErr(c) \/ HAWakes(c)

Check == \E ok \in BOOLEAN : check_node_health(ok)

HANext ==
    \/ \E c \in Retriers : StartHA(c) \/ HAStep(c)
    \/ BeginRound \/ Check
    \/ ClusterLoads /\ UNCHANGED monitorVars

HASpec == HAInit /\ [][HANext]_haVars

-----------------------------------------------------------------------------
\* A load sees the nodes as one round left them, never some checked and some
\* not: the lock is held for the whole round.
SeesWholeRounds ==
    [][\A c \in Retriers : loop[c].pc = "trying" /\ loop'[c].pc # "trying" =>
          \A m, n \in 1..Nodes : node[m].checks = node[n].checks]_haVars

\* A node that answers is Healthy at once, however often it failed before; one
\* that has never answered is not, once it was checked.
HealthFollowsChecks ==
    \A n \in 1..Nodes :
        /\ node[n].answered => node[n].health = "Healthy"
        /\ node[n].failure_count = node[n].checks /\ node[n].checks > 0
               => node[n].health = "Unavailable"
=============================================================================
