------------------------ MODULE StarRocksServer_proofs ------------------------
(***************************************************************************)
(* Lemmas about StarRocksServer: whatever it serves, and when a deadline   *)
(* passes, the record of a label only moves forward, and an effect that is *)
(* there stays.                                                            *)
(***************************************************************************)
EXTENDS StarRocksServer, TLAPS

\* What may happen to the record of a label.
Advances(old, new) ==
    /\ \A d \in Chunks : old.rows[d] <= new.rows[d]
    /\ old.state # "unused" => new.state # "unused"
    /\ old.state \notin {"unused", "open"} => new.state \notin {"unused", "open"}
    /\ old.state \in {"committed", "aborted"} => new.state = old.state

\* An empty cluster has the right type.
LEMMA ServerInitOK == ServerInit => ServerTypeOK
  BY DEF ServerInit, ServerTypeOK, Records, LabelStates, Unused

\* A request names a label, and V1 and load name a chunk.
LEMMA OperationFields ==
    ASSUME NEW o \in Operations
    PROVE  /\ o.kind \in Kinds /\ o.label \in Labels /\ o.deadline \in BOOLEAN
           /\ o.kind \in {"v1", "load"} => o.chunk \in Chunks
  <1>1. CASE o \in [kind : {"v1", "load"}, label : Labels, chunk : Chunks,
                    deadline : {FALSE}]
    BY <1>1 DEF Kinds
  <1>2. CASE o \in [kind : Kinds \ {"v1", "load"}, label : Labels,
                    chunk : {NoChunk}, deadline : BOOLEAN]
    BY <1>2
  <1> QED  BY <1>1, <1>2 DEF Operations

\* Changing a label's state is an advance, if the state may be left for it.
LEMMA BecomeAdvances ==
    ASSUME ServerTypeOK, NEW l \in Labels, NEW s \in {"prepared", "committed", "aborted"},
           server[l].state = "open" \/ (Live(server[l]) /\ s # "prepared"),
           Become(l, s)
    PROVE  ServerTypeOK' /\ \A k \in Labels : Advances(server[k], server'[k])
  <1> USE DEF ServerTypeOK, Records, LabelStates
  <1>1. ServerTypeOK'
    BY DEF Become
  <1>2. ASSUME NEW k \in Labels
        PROVE  Advances(server[k], server'[k])
    BY DEF Become, Advances, Live
  <1> QED  BY <1>1, <1>2

\* Storing a chunk once more keeps the counts numbers, and none gets smaller.
LEMMA StoreGrows ==
    ASSUME ServerTypeOK, NEW l \in Labels, NEW d \in Chunks
    PROVE  /\ Store(l, d) \in [Chunks -> Nat]
           /\ Store(l, d)[d] > 0
           /\ \A e \in Chunks : server[l].rows[e] <= Store(l, d)[e]
  <1>1. server[l].rows \in [Chunks -> Nat]
    BY DEF ServerTypeOK, Records
  <1> QED  BY <1>1 DEF Store

\* Whatever request the server serves, every label only advances.
LEMMA ServeAdvances ==
    ASSUME ServerTypeOK, NEW o \in Operations, NEW r, Serve(o, r)
    PROVE  ServerTypeOK' /\ \A k \in Labels : Advances(server[k], server'[k])
  <1> USE OperationFields DEF ServerTypeOK, Records, LabelStates
  <1>1. CASE UNCHANGED server
    BY <1>1 DEF Advances
  <1>2. CASE ServeV1(o, r)
    <2> DEFINE rows == Store(o.label, o.chunk)
    <2>1. /\ o.label \in Labels
          /\ server[o.label].state = "unused"
          /\ server' = [server EXCEPT ![o.label] =
                 [@ EXCEPT !.state = "committed", !.direct = TRUE, !.rows = rows]]
      BY <1>2 DEF ServeV1
    <2>2. /\ rows \in [Chunks -> Nat]
          /\ \A d \in Chunks : server[o.label].rows[d] <= rows[d]
      BY <1>2, StoreGrows DEF ServeV1
    <2> HIDE DEF rows
    <2>3. ServerTypeOK'
      BY <2>1, <2>2
    <2>4. \A k \in Labels : Advances(server[k], server'[k])
      BY <2>1, <2>2 DEF Advances
    <2> QED  BY <2>3, <2>4
  <1>3. CASE ServeBegin(o, r)
    <2>1. /\ o.label \in Labels /\ o.deadline \in BOOLEAN
          /\ server[o.label].state = "unused"
          /\ server' = [server EXCEPT ![o.label] =
                 [@ EXCEPT !.state = "open", !.deadline = o.deadline]]
      BY <1>3 DEF ServeBegin
    <2>2. ServerTypeOK'
      BY <2>1
    <2>3. \A k \in Labels : Advances(server[k], server'[k])
      BY <2>1 DEF Advances
    <2> QED  BY <2>2, <2>3
  <1>4. ASSUME o.kind = "load", server[o.label].state = "open",
               server' = [server EXCEPT ![o.label].rows = Store(o.label, o.chunk)]
        PROVE  ServerTypeOK' /\ \A k \in Labels : Advances(server[k], server'[k])
    <2> DEFINE rows == Store(o.label, o.chunk)
    <2>1. /\ o.label \in Labels
          /\ server' = [server EXCEPT ![o.label].rows = rows]
      BY <1>4
    <2>2. /\ rows \in [Chunks -> Nat]
          /\ \A d \in Chunks : server[o.label].rows[d] <= rows[d]
      BY <1>4, StoreGrows
    <2> HIDE DEF rows
    <2>3. ServerTypeOK'
      BY <2>1, <2>2
    <2>4. \A k \in Labels : Advances(server[k], server'[k])
      BY <2>1, <2>2 DEF Advances
    <2> QED  BY <2>3, <2>4
  <1>5. CASE ServePrepare(o, r)
    BY <1>5, BecomeAdvances DEF ServePrepare
  <1>6. CASE ServeCommit(o, r)
    BY <1>6, BecomeAdvances DEF ServeCommit
  <1>7. CASE ServeAbort(o, r)
    BY <1>7, BecomeAdvances DEF ServeAbort
  <1> QED  BY <1>1, <1>2, <1>3, <1>4, <1>5, <1>6, <1>7
           DEF Serve, Refuse, ServeLoad, ServeStatus

\* So does a deadline.
LEMMA ExpireAdvances ==
    ASSUME ServerTypeOK, NEW l \in Labels, Expire(l)
    PROVE  ServerTypeOK' /\ \A k \in Labels : Advances(server[k], server'[k])
  BY BecomeAdvances DEF Expire

\* An effect that is there stays there while labels advance.
LEMMA AchievedStays ==
    ASSUME ServerTypeOK, ServerTypeOK',
           \A k \in Labels : Advances(server[k], server'[k]),
           NEW o \in Operations, Achieved(o)
    PROVE  Achieved(o)'
  BY OperationFields DEF Achieved, Advances, ServerTypeOK, Records
=============================================================================
