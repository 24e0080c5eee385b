------------------------------ MODULE MCRetries ------------------------------
(***************************************************************************)
(* Small instances, for TLC, of what retries by itself.  Which of them     *)
(* runs is chosen at the start, the others stay as they are: a lone caller *)
(* of StarRocksHttpClient, with FEs whose URL join refuses or without, and *)
(* the loop of ErrorRecovery.                                              *)
(***************************************************************************)
EXTENDS StarRocksHttpClient, ErrorRecovery, TLC

CONSTANT RefusedBases

VARIABLE retrying

Refusing == INSTANCE StarRocksHttpClient WITH BadBase <- RefusedBases

\* A text for each category, and the two that more than one list of words
\* claims.
ErrorTexts ==
    {{"connection"}, {"503"}, {"gateway timeout", "timeout"}, {"schema", "401"},
     {"403"}, {"transaction", "timeout"}, {"conflict"}, {}}

RetriesInit ==
    /\ HttpInit /\ RecoveryInit
    /\ retrying \in {"caller", "caller, a base refused", "recovery"}

RetriesNext ==
    /\ \/ retrying = "caller" /\ HttpNext /\ UNCHANGED recoveryVars
       \/ retrying = "caller, a base refused" /\ Refusing!HttpNext /\ UNCHANGED recoveryVars
       \/ retrying = "recovery" /\ RecoveryNext /\ UNCHANGED httpVars
    /\ UNCHANGED retrying

\* An await of the client ends, the SDK answers, and a sleep ends.
RetriesSpec ==
    /\ RetriesInit /\ [][RetriesNext]_<<httpVars, recoveryVars, retrying>>
    /\ \A c \in Callers :
          /\ WF_httpVars(retrying = "caller" /\ CallStep(c))
          /\ WF_httpVars(retrying = "caller, a base refused" /\ Refusing!CallStep(c))
    /\ \A c \in Retriers : WF_recoveryVars(retrying = "recovery" /\ RecoveryStep(c))
===============================================================================
