----------------------------- MODULE DataPipeline -----------------------------
(***************************************************************************)
(* The DataPipeline of examples/advanced/data_pipeline.rs: a bounded queue *)
(* of records, and batches that take them out one by one, check them, send *)
(* them with send_single_batch and count how that ended.  The queue and    *)
(* each count have a lock of their own, released between any two of them.  *)
(*                                                                         *)
(* A record goes by its id, which is the label of its load.                *)
(***************************************************************************)
EXTENDS LoadContract, Sequences, FiniteSets

CONSTANTS
    Workers,           \* users that process batches
    Capacity,          \* of the queue
    BatchSize,
    DataOf,            \* the data of each record
    Transformations,   \* of the processor, in their order
    max_size_bytes, allow_nulls, validate_encoding

\* Data is a sequence of kinds of characters, of a byte each: one of them does
\* not belong to any UTF-8 text.
DataKinds == {"upper", "lower", "digit", "space", "invalid"}

TransformKinds == {"Lowercase", "RemoveWhitespace", "ValidateNumeric", "NormalizeTimestamp"}

ASSUME PipelineAssumption ==
    /\ Workers \subseteq Users /\ IsFiniteSet(Workers) /\ Chunks # {}
    /\ Capacity \in Nat /\ BatchSize \in Nat
    /\ DataOf \in [Labels -> Seq(DataKinds)]
    /\ Transformations \in Seq(TransformKinds)
    /\ max_size_bytes \in Nat /\ {allow_nulls, validate_encoding} \subseteq BOOLEAN

VARIABLES
    pipeline_state,
    records,          \* the queue
    total_processed, total_failed,
    worker,           \* where each batch is, records it may still take, the one it holds
    added             \* records that were taken into the queue (history)

pipelineVars == <<contractVars, pipeline_state, records, total_processed, total_failed,
                  worker, added>>

totals == <<total_processed, total_failed>>

WorkerPCs == {"idle", "looking", "taking", "sending", "succeeded", "failed", "dropped"}

PipelineTypeOK ==
    /\ pipeline_state \in {"Initialized", "Started"}
    /\ records \in Seq(Labels) /\ Len(records) <= Capacity
    /\ total_processed \in Nat /\ total_failed \in Nat
    /\ worker \in [Workers -> [pc : WorkerPCs, left : 0..BatchSize, held : SUBSET Labels]]
    /\ added \subseteq Labels

PipelineInit ==
    /\ ContractInit
    /\ pipeline_state = "Initialized"
    /\ records = <<>>
    /\ total_processed = 0 /\ total_failed = 0
    /\ worker = [w \in Workers |-> [pc |-> "idle", left |-> 0, held |-> {}]]
    /\ added = {}

-----------------------------------------------------------------------------
(* The state of the pipeline, which nothing but start and stop looks at. *)

start ==
    /\ pipeline_state' = IF pipeline_state \in {"Initialized", "Paused"}
                         THEN "Started" ELSE pipeline_state
    /\ UNCHANGED <<contractVars, records, totals, worker, added>>

\* Nothing ever sets Running: stop is always refused.
stop ==
    /\ pipeline_state' = IF pipeline_state = "Running" THEN "Completed" ELSE pipeline_state
    /\ UNCHANGED <<contractVars, records, totals, worker, added>>
-----------------------------------------------------------------------------
(* The queue. *)

\* A full queue refuses the record.
add_record(r) ==
    /\ r \notin added
    /\ Len(records) < Capacity
    /\ records' = Append(records, r)
    /\ added' = added \cup {r}
    /\ UNCHANGED <<contractVars, pipeline_state, totals, worker>>

WorkerTo(w, pc, left, held) ==
    worker' = [worker EXCEPT ![w] = [pc |-> pc, left |-> left, held |-> held]]

process_batch(w) ==
    /\ worker[w].pc = "idle"
    /\ WorkerTo(w, "looking", BatchSize, {})
    /\ UNCHANGED <<contractVars, pipeline_state, records, totals, added>>

\* The loop ends when its count is up or the queue is empty.
IsEmpty(w) ==
    /\ worker[w].pc = "looking"
    /\ IF worker[w].left = 0 \/ records = <<>>
       THEN WorkerTo(w, "idle", 0, {})
       ELSE WorkerTo(w, "taking", worker[w].left, {})
    /\ UNCHANGED <<contractVars, pipeline_state, records, totals, added>>

InvalidEncoding(data) == \E i \in DOMAIN data : data[i] = "invalid"

\* The rules it keeps; required_fields is not looked at.
validate_quality(data) ==
    /\ Len(data) <= max_size_bytes
    /\ validate_encoding => ~InvalidEncoding(data)
    /\ ~allow_nulls => data # <<>>

\* What comes out, or {} for an error.  A number is what f64 parses: digits
\* only, of the kinds there are here.
apply_transform(data, transform) ==
    IF transform = "NormalizeTimestamp" THEN {data}
    ELSE IF InvalidEncoding(data) THEN {}
    ELSE CASE transform = "Lowercase" ->
                {[i \in DOMAIN data |-> IF data[i] = "upper" THEN "lower" ELSE data[i]]}
           [] transform = "RemoveWhitespace" -> {SelectSeq(data, LAMBDA c : c # "space")}
           [] transform = "ValidateNumeric" ->
                {d \in {data} : d # <<>> /\ \A i \in DOMAIN d : d[i] = "digit"}

\* The rules are applied to the data as it came, not to what is sent.
process_data(data) ==
    LET out[n \in 0..Len(Transformations)] ==
            IF n = 0 THEN {d \in {data} : validate_quality(d)}
                     ELSE UNION {apply_transform(d, Transformations[n]) : d \in out[n - 1]}
    IN  out[Len(Transformations)]

PeekQueue == records  \* (bug)

PopFront == Tail(records)

Request(w, r) ==
    /\ Ask(w, [kind |-> "v1", label |-> r, chunk |-> CHOOSE d \in Chunks : TRUE,
               deadline |-> FALSE])
    /\ outcome'[w] = "none"

\* dequeue, under a lock of its own: another batch may have been faster.  What
\* it gives is processed and sent without waiting for anything in between.
Dequeue(w) ==
    /\ worker[w].pc = "taking"
    /\ IF records = <<>>
       THEN /\ WorkerTo(w, "looking", worker[w].left - 1, {})
            /\ UNCHANGED <<contractVars, records>>
       ELSE LET r == Head(records) IN
            /\ records' = PopFront
            /\ \/ /\ process_data(DataOf[r]) = {}
                  /\ WorkerTo(w, "failed", worker[w].left - 1, {r})
                  /\ UNCHANGED contractVars
               \/ /\ process_data(DataOf[r]) # {}
                  /\ Request(w, r)
                  /\ WorkerTo(w, "sending", worker[w].left - 1, {r})
    /\ UNCHANGED <<pipeline_state, totals, added>>

SentAnyway(w, r) ==  \* (bug)
    /\ worker[w].pc = "sending"
    /\ Tell(w, r)
    /\ WorkerTo(w, "succeeded", worker[w].left, worker[w].held)
    /\ UNCHANGED <<pipeline_state, records, totals, added>>

Sent(w, r) ==
    /\ worker[w].pc = "sending"
    /\ Tell(w, r)
    /\ WorkerTo(w, IF r = "ok" THEN "succeeded" ELSE "failed", worker[w].left, worker[w].held)
    /\ UNCHANGED <<pipeline_state, records, totals, added>>

queue_record_success(w) ==
    /\ worker[w].pc = "succeeded"
    /\ total_processed' = total_processed + 1
    /\ WorkerTo(w, "looking", worker[w].left, {})
    /\ UNCHANGED <<contractVars, pipeline_state, records, total_failed, added>>

\* A record that failed is counted and gone.
queue_record_failure(w) ==
    /\ worker[w].pc = "failed"
    /\ total_failed' = total_failed + 1
    /\ WorkerTo(w, "looking", worker[w].left, {})
    /\ UNCHANGED <<contractVars, pipeline_state, records, total_processed, added>>

\* The caller drops the future at one of its awaits: the batch is no more, and
\* neither is the record it holds.
DropBatch(w) ==
    /\ worker[w].pc \notin {"idle", "dropped"}
    /\ IF worker[w].pc = "sending" THEN Tell(w, "dropped") ELSE UNCHANGED contractVars
    /\ WorkerTo(w, "dropped", 0, worker[w].held)
    /\ UNCHANGED <<pipeline_state, records, totals, added>>

PipelineNext ==
    \/ start \/ stop
    \/ \E r \in Labels : add_record(r)
    \/ \E w \in Workers :
          \/ process_batch(w) \/ IsEmpty(w) \/ Dequeue(w)
          \/ \E r \in {"ok", "err"} : Sent(w, r)
          \/ queue_record_success(w) \/ queue_record_failure(w) \/ DropBatch(w)
    \/ /\ \E o \in asked : TakeEffect(o)
       /\ UNCHANGED <<pipeline_state, records, totals, worker, added>>

PipelineSpec == PipelineInit /\ [][PipelineNext]_pipelineVars

-----------------------------------------------------------------------------
Holders(r) == {w \in Workers : r \in worker[w].held}

Places(r) == {i \in DOMAIN records : records[i] = r}

\* Batches with a record in their hands, the dropped ones included.
Busy == {w \in Workers : worker[w].held # {}}

CountedRecords == total_processed + total_failed

\* No record is lost but by a failure that is counted or with a batch that is
\* dropped, and none is handled twice: each is in the queue once, or in the
\* hands of one batch, or counted once.
RecordsAccounted ==
    /\ \A r \in added : Cardinality(Holders(r)) + Cardinality(Places(r)) <= 1
    /\ Cardinality(added) =
          Len(records) + Cardinality(Busy) + CountedRecords

\* What is counted as processed is stored, each record once, in spite of the
\* answers that were lost.
ProcessedIsStored ==
    total_processed <= Cardinality({r \in added : server[r].state = "committed"})
=============================================================================
