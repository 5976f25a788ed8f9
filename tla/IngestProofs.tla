----------------------------- MODULE IngestProofs -----------------------------
(* What holds of the collector's path for any number of batches, handlers,      *)
(* workers and faults: the committed offset passes nothing that was not dealt   *)
(* with, and an identifier lets its batch into the channel once.                *)
EXTENDS Ingest, FiniteSetTheorems, TLAPS

Handling == [batch : Batches, at : {"key", "batch id", "enqueue"}]
Producing == [at : {"producing"}, batch : Batches, next : 1 .. Points]
Records == Batches \X (1 .. Points)

-----------------------------------------------------------------------------
(* Types.                                                                      *)

IntakeTypes ==
  /\ headers \in [Batches -> SUBSET Kinds] /\ sameValue \subseteq Batches
  /\ client \in [Batches -> {"idle", "waiting", "done"}]
  /\ requests \in [Batches -> 0 .. MaxRequests]
  /\ redis \subseteq (Kinds \cup {"both"}) \X Batches
  /\ handler \in [Handlers -> {Idle} \cup Handling]
PipeTypes ==
  /\ batchChan \in Seq(Batches) /\ Len(batchChan) <= QueueSize
  /\ worker \in [Workers -> {Idle} \cup Producing]
TopicTypes ==
  /\ topic \in Seq(Records)
  /\ committed \in Nat /\ marked \in Nat /\ position \in Nat
  /\ committed <= marked /\ marked <= position /\ position <= Len(topic)
  /\ fetched \in Seq(Records)
HistoryTypes ==
  /\ enqueued \in [Batches -> Nat] /\ forgotten \in [Batches -> Nat]
  /\ faults \in 0 .. MaxFaults

Types == IntakeTypes /\ PipeTypes /\ TopicTypes /\ HistoryTypes

\* An identifier is one of the values that Redis holds.
LEMMA ValueType ==
  ASSUME NEW kind \in Kinds, NEW b \in Batches
  PROVE  Value(kind, b) \in (Kinds \cup {"both"}) \X Batches
BY DEF Value

\* The answer to a request frees its handler and tells its client.
LEMMA AnswerTypes ==
  ASSUME IntakeTypes, NEW h \in Handlers, NEW status, Answer(h, status)
  PROVE  /\ handler' \in [Handlers -> {Idle} \cup Handling]
         /\ client' \in [Batches -> {"idle", "waiting", "done"}]
BY DEF IntakeTypes, Answer

\* A handler that works on a batch goes on to its next check.
LEMMA GoToTypes ==
  ASSUME IntakeTypes, NEW h \in Handlers, handler[h].at # "idle",
         NEW stage \in {"batch id", "enqueue"}, GoTo(h, stage)
  PROVE  /\ handler' \in [Handlers -> {Idle} \cup Handling]
         /\ client' \in [Batches -> {"idle", "waiting", "done"}]
<1>0. Idle.at = "idle"
  BY DEF Idle
<1>1. handler[h] \in Handling
  BY <1>0 DEF IntakeTypes
<1>2. [handler[h] EXCEPT !.at = stage] \in Handling
  BY <1>1 DEF Handling
<1> QED
  BY <1>2 DEF IntakeTypes, GoTo

\* A check that Redis could not make is counted for its batch.
LEMMA ForgottenTypes ==
  ASSUME HistoryTypes, NEW b \in Batches,
         \/ UNCHANGED <<forgotten, faults>>
         \/ /\ faults < MaxFaults /\ faults' = faults + 1
            /\ forgotten' = [forgotten EXCEPT ![b] = @ + 1]
  PROVE  forgotten' \in [Batches -> Nat] /\ faults' \in 0 .. MaxFaults
<1>1. forgotten' \in [Batches -> Nat]
  BY DEF HistoryTypes
<1>2. faults' \in 0 .. MaxFaults
  BY IngestAssumption DEF HistoryTypes
<1> QED
  BY <1>1, <1>2

\* A check lets the request on, or answers it, and keeps what Redis holds well formed.
LEMMA CheckTypes ==
  ASSUME IntakeTypes, HistoryTypes, NEW h \in Handlers, handler[h].at # "idle",
         NEW kind \in Kinds, NEW status, NEW stage \in {"batch id", "enqueue"},
         Check(h, kind, GoTo(h, stage), status)
  PROVE  /\ handler' \in [Handlers -> {Idle} \cup Handling]
         /\ client' \in [Batches -> {"idle", "waiting", "done"}]
         /\ redis' \subseteq (Kinds \cup {"both"}) \X Batches
         /\ forgotten' \in [Batches -> Nat]
         /\ faults' \in 0 .. MaxFaults
<1>0. Idle.at = "idle"
  BY DEF Idle
<1>1. handler[h].batch \in Batches
  BY <1>0 DEF IntakeTypes, Handling
<1>2. GoTo(h, stage) \/ Answer(h, status)
  BY DEF Check
<1>3. /\ handler' \in [Handlers -> {Idle} \cup Handling]
      /\ client' \in [Batches -> {"idle", "waiting", "done"}]
  BY <1>2, AnswerTypes, GoToTypes
<1>4. Value(kind, handler[h].batch) \in (Kinds \cup {"both"}) \X Batches
  BY <1>1, ValueType
<1>5. redis' \subseteq redis \cup {Value(kind, handler[h].batch)}
  BY DEF Check
<1>6. redis' \subseteq (Kinds \cup {"both"}) \X Batches
  BY <1>4, <1>5 DEF IntakeTypes
<1>7. \/ UNCHANGED <<forgotten, faults>>
      \/ /\ faults < MaxFaults /\ faults' = faults + 1
         /\ forgotten' = [forgotten EXCEPT ![handler[h].batch] = @ + 1]
  BY DEF Check, Fault
<1>8. forgotten' \in [Batches -> Nat] /\ faults' \in 0 .. MaxFaults
  BY <1>1, <1>7, ForgottenTypes
<1> QED
  BY <1>3, <1>6, <1>8

\* What a fault does to its counter.
LEMMA FaultTypes ==
  ASSUME HistoryTypes, NEW kind, Fault(kind)
  PROVE  faults' \in 0 .. MaxFaults
BY IngestAssumption DEF HistoryTypes, Fault

\* A request of a client takes a free handler.
LEMMA RequestTypes ==
  ASSUME Types, NEW h \in Handlers, NEW b \in Batches, Request(h, b)
  PROVE  Types'
<1>1. [at |-> "key", batch |-> b] \in Handling
  BY DEF Handling
<1>2. IntakeTypes'
  <2>1. handler' \in [Handlers -> {Idle} \cup Handling]
    <3>1. handler' = [handler EXCEPT ![h] = [at |-> "key", batch |-> b]]
      BY DEF Request
    <3> QED
      BY <1>1, <3>1 DEF Types, IntakeTypes
  <2>2. client' \in [Batches -> {"idle", "waiting", "done"}]
    BY DEF Types, IntakeTypes, Request
  <2>3. requests' \in [Batches -> 0 .. MaxRequests]
    <3>1. requests[b] < MaxRequests /\ requests' = [requests EXCEPT ![b] = @ + 1]
      BY DEF Request
    <3>2. requests \in [Batches -> 0 .. MaxRequests] /\ MaxRequests \in Nat
      BY IngestAssumption DEF Types, IntakeTypes
    <3> QED
      BY <3>1, <3>2
  <2>4. UNCHANGED <<headers, sameValue, redis>>
    BY DEF Request
  <2> QED
    BY <2>1, <2>2, <2>3, <2>4 DEF Types, IntakeTypes
<1>3. PipeTypes' /\ TopicTypes' /\ HistoryTypes'
  BY DEF Types, PipeTypes, TopicTypes, HistoryTypes, Request, pipe, consumer
<1> QED
  BY <1>2, <1>3 DEF Types

\* Whatever a handler does, every variable keeps its type.
LEMMA HandleTypes ==
  ASSUME Types, NEW h \in Handlers, Handle(h) PROVE Types'
<1>0. Idle.at = "idle" /\ Kinds = {"Idempotency-Key", "X-Batch-Id"}
  BY DEF Idle, Kinds
<1>1. CASE CheckKey(h) \/ CheckBatchId(h)
  <2>1. /\ handler' \in [Handlers -> {Idle} \cup Handling]
        /\ client' \in [Batches -> {"idle", "waiting", "done"}]
        /\ redis' \subseteq (Kinds \cup {"both"}) \X Batches
        /\ forgotten' \in [Batches -> Nat]
        /\ faults' \in 0 .. MaxFaults
    BY <1>0, <1>1, CheckTypes DEF Types, CheckKey, CheckBatchId
  <2>2. UNCHANGED <<headers, sameValue, requests, pipe, topic, consumer, enqueued>>
    BY <1>1 DEF CheckKey, CheckBatchId
  <2>3. IntakeTypes'
    BY <2>1, <2>2 DEF Types, IntakeTypes
  <2>4. PipeTypes' /\ TopicTypes' /\ HistoryTypes'
    BY <2>1, <2>2 DEF Types, PipeTypes, TopicTypes, HistoryTypes, pipe, consumer
  <2> QED
    BY <2>3, <2>4 DEF Types
<1>2. CASE Enqueue(h)
  <2>0. handler[h].at = "enqueue"
    BY <1>2 DEF Enqueue
  <2>1. handler[h].batch \in Batches
    BY <1>0, <2>0 DEF Types, IntakeTypes, Handling
  <2>2. IntakeTypes'
    <3>1. Answer(h, 202) /\ UNCHANGED <<headers, sameValue, requests, redis>>
      BY <1>2 DEF Enqueue
    <3> QED
      BY <3>1, AnswerTypes DEF Types, IntakeTypes
  <2>3. PipeTypes'
    <3>1. /\ Len(batchChan) < QueueSize /\ worker' = worker
          /\ batchChan' = Append(batchChan, handler[h].batch)
      BY <1>2 DEF Enqueue
    <3>2. batchChan' \in Seq(Batches) /\ Len(batchChan') = Len(batchChan) + 1
      BY <2>1, <3>1 DEF Types, PipeTypes
    <3> QED
      BY <3>1, <3>2, IngestAssumption DEF Types, PipeTypes
  <2>4. TopicTypes'
    BY <1>2 DEF Types, TopicTypes, Enqueue, consumer
  <2>5. HistoryTypes'
    BY <1>2, <2>1 DEF Types, HistoryTypes, Enqueue
  <2> QED
    BY <2>2, <2>3, <2>4, <2>5 DEF Types
<1>3. CASE Busy(h)
  <2>1. Answer(h, 429) /\ UNCHANGED <<headers, sameValue, requests, redis>>
    BY <1>3 DEF Busy
  <2>2. IntakeTypes'
    BY <2>1, AnswerTypes DEF Types, IntakeTypes
  <2>3. PipeTypes' /\ TopicTypes' /\ HistoryTypes'
    BY <1>3 DEF Types, PipeTypes, TopicTypes, HistoryTypes, Busy, pipe, consumer
  <2> QED
    BY <2>2, <2>3 DEF Types
<1> QED
  BY <1>1, <1>2, <1>3 DEF Handle

\* Whatever a worker does, every variable keeps its type.
LEMMA WorkTypes ==
  ASSUME Types, NEW w \in Workers, Work(w) PROVE Types'
<1>0. Idle.at = "idle"
  BY DEF Idle
<1>1. CASE Take(w)
  <2>1. Head(batchChan) \in Batches /\ Tail(batchChan) \in Seq(Batches)
        /\ Len(Tail(batchChan)) = Len(batchChan) - 1
    BY <1>1 DEF Take, Types, PipeTypes
  <2>2. [at |-> "producing", batch |-> Head(batchChan), next |-> 1] \in Producing
    BY <2>1, IngestAssumption DEF Producing
  <2>3. PipeTypes'
    <3>1. /\ batchChan' = Tail(batchChan)
          /\ worker' = [worker EXCEPT ![w] =
               [at |-> "producing", batch |-> Head(batchChan), next |-> 1]]
      BY <1>1 DEF Take
    <3>2. worker' \in [Workers -> {Idle} \cup Producing]
      BY <2>2, <3>1 DEF Types, PipeTypes
    <3>3. Len(batchChan') <= QueueSize
      BY <2>1, <3>1, IngestAssumption DEF Types, PipeTypes
    <3> QED
      BY <2>1, <3>1, <3>2, <3>3 DEF PipeTypes
  <2>4. IntakeTypes' /\ TopicTypes' /\ HistoryTypes'
    BY <1>1 DEF Types, IntakeTypes, TopicTypes, HistoryTypes, Take, intake, consumer
  <2> QED
    BY <2>3, <2>4 DEF Types
<1>2. CASE ProducePoint(w)
  <2> DEFINE b == worker[w].batch
             p == worker[w].next
  <2>0. worker[w].at = "producing"
    BY <1>2 DEF ProducePoint
  <2>1. worker[w] \in Producing
    BY <1>0, <2>0 DEF Types, PipeTypes
  <2>2. b \in Batches /\ p \in 1 .. Points
    BY <2>1 DEF Producing
  <2>3. p # Points => [worker[w] EXCEPT !.next = p + 1] \in Producing
    BY <2>1, <2>2, IngestAssumption DEF Producing
  <2>4. PipeTypes'
    <3>1. \/ worker' = [worker EXCEPT ![w] =
               IF p = Points THEN Idle ELSE [worker[w] EXCEPT !.next = p + 1]]
          \/ worker' = [worker EXCEPT ![w] = Idle]
      BY <1>2 DEF ProducePoint
    <3>2. worker' \in [Workers -> {Idle} \cup Producing]
      BY <2>3, <3>1 DEF Types, PipeTypes
    <3> QED
      BY <1>2, <3>2 DEF Types, PipeTypes, ProducePoint
  <2>5. TopicTypes'
    <3>1. topic' = topic \/ topic' = Append(topic, <<b, p>>)
      BY <1>2 DEF ProducePoint
    <3>2. <<b, p>> \in Records
      BY <2>2 DEF Records
    <3> HIDE DEF b, p
    <3>3. topic' \in Seq(Records) /\ Len(topic') >= Len(topic)
      <4> DEFINE r == <<b, p>>
      <4>1. r \in Records /\ (topic' = topic \/ topic' = Append(topic, r))
        BY <3>1, <3>2
      <4>2. topic \in Seq(Records)
        BY DEF Types, TopicTypes
      <4> HIDE DEF r
      <4> QED
        BY <4>1, <4>2
    <3>4. UNCHANGED consumer
      BY <1>2 DEF ProducePoint
    <3>5. position <= Len(topic')
      BY <3>3 DEF Types, TopicTypes
    <3> QED
      BY <3>3, <3>4, <3>5 DEF Types, TopicTypes, consumer
  <2>6. HistoryTypes'
    <3>1. faults' = faults \/ Fault("produce")
      BY <1>2 DEF ProducePoint
    <3>2. faults' \in 0 .. MaxFaults
      BY <3>1, FaultTypes DEF Types, HistoryTypes
    <3> QED
      BY <1>2, <3>2 DEF Types, HistoryTypes, ProducePoint
  <2>7. IntakeTypes'
    BY <1>2 DEF Types, IntakeTypes, ProducePoint, intake
  <2> QED
    BY <2>4, <2>5, <2>6, <2>7 DEF Types
<1> QED
  BY <1>1, <1>2 DEF Work

\* Whatever the consumer does, every variable keeps its type.
LEMMA ConsumeTypes ==
  ASSUME Types, Consume \/ AutoCommit PROVE Types'
<1>1. CASE Poll
  <2>1. /\ marked' = position /\ position' \in position + 1 .. Len(topic)
        /\ fetched = <<>> /\ UNCHANGED <<intake, pipe, topic, committed>>
    BY <1>1 DEF Poll
  <2>2. SubSeq(topic, position + 1, position') \in Seq(Records)
    BY <2>1 DEF Types, TopicTypes
  <2>3. fetched' = SubSeq(topic, position + 1, position') \/ fetched' = fetched
    BY <1>1 DEF Poll
  <2>4. position' \in Nat /\ marked' <= position' /\ position' <= Len(topic')
    BY <2>1 DEF Types, TopicTypes
  <2>8. fetched' \in Seq(Records)
    BY <2>2, <2>3 DEF Types, TopicTypes
  <2>9. committed' \in Nat /\ committed' <= marked' /\ marked' \in Nat
    BY <2>1 DEF Types, TopicTypes
  <2>5. TopicTypes'
    BY <2>1, <2>4, <2>8, <2>9 DEF Types, TopicTypes
  <2>6. HistoryTypes'
    <3>1. faults' = faults \/ Fault("fetch")
      BY <1>1 DEF Poll
    <3>2. faults' \in 0 .. MaxFaults
      BY <3>1, FaultTypes DEF Types, HistoryTypes
    <3> QED
      BY <1>1, <3>2 DEF Types, HistoryTypes, Poll
  <2>7. IntakeTypes' /\ PipeTypes'
    BY <2>1 DEF Types, IntakeTypes, PipeTypes, intake, pipe
  <2> QED
    BY <2>5, <2>6, <2>7 DEF Types
<1>2. CASE Insert
  <2>1. HistoryTypes'
    <3>1. faults' = faults \/ Fault("insert")
      BY <1>2 DEF Insert
    <3>2. faults' \in 0 .. MaxFaults
      BY <3>1, FaultTypes DEF Types, HistoryTypes
    <3> QED
      BY <1>2, <3>2 DEF Types, HistoryTypes, Insert
  <2>2. IntakeTypes' /\ PipeTypes' /\ TopicTypes'
    BY <1>2 DEF Types, IntakeTypes, PipeTypes, TopicTypes, Insert, intake, pipe
  <2> QED
    BY <2>1, <2>2 DEF Types
<1>3. CASE AutoCommit
  <2>1. TopicTypes'
    BY <1>3 DEF Types, TopicTypes, AutoCommit
  <2>2. IntakeTypes' /\ PipeTypes' /\ HistoryTypes'
    BY <1>3 DEF Types, IntakeTypes, PipeTypes, HistoryTypes, AutoCommit, intake, pipe
  <2> QED
    BY <2>1, <2>2 DEF Types
<1> QED
  BY <1>1, <1>2, <1>3 DEF Consume

\* A key that expires and a process that ends leave every variable its type.
LEMMA EndTypes ==
  ASSUME Types,
         Crash \/ \E kind \in Kinds, b \in Batches : Expire(kind, b)
  PROVE  Types'
<1>1. CASE Crash
  <2>1. IntakeTypes'
    BY <1>1 DEF Types, IntakeTypes, Crash
  <2>2. PipeTypes'
    BY <1>1, IngestAssumption DEF Types, PipeTypes, Crash
  <2>3. TopicTypes'
    BY <1>1 DEF Types, TopicTypes, Crash
  <2>4. HistoryTypes'
    BY <1>1, FaultTypes DEF Types, HistoryTypes, Crash
  <2> QED
    BY <2>1, <2>2, <2>3, <2>4 DEF Types
<1>2. ASSUME NEW kind \in Kinds, NEW b \in Batches, Expire(kind, b) PROVE Types'
  <2>1. IntakeTypes'
    BY <1>2 DEF Types, IntakeTypes, Expire
  <2>2. PipeTypes' /\ TopicTypes'
    BY <1>2 DEF Types, PipeTypes, TopicTypes, Expire, pipe, consumer
  <2>3. HistoryTypes'
    BY <1>2, FaultTypes DEF Types, HistoryTypes, Expire
  <2> QED
    BY <2>1, <2>2, <2>3 DEF Types
<1> QED
  BY <1>1, <1>2

\* Every variable keeps its type, the channel its capacity and the offsets their
\* order, for any number of batches, handlers, workers and faults.
LEMMA TypesInductive == Spec => []Types
<1>1. Init => Types
  <2> SUFFICES ASSUME Init PROVE Types
    OBVIOUS
  <2>1. IntakeTypes
    BY IngestAssumption DEF Init, IntakeTypes
  <2>2. PipeTypes /\ TopicTypes /\ HistoryTypes
    BY IngestAssumption DEF Init, PipeTypes, TopicTypes, HistoryTypes
  <2> QED
    BY <2>1, <2>2 DEF Types
<1>2. Types /\ [Next]_vars => Types'
  <2> SUFFICES ASSUME Types, [Next]_vars PROVE Types'
    OBVIOUS
  <2>1. CASE UNCHANGED vars
    BY <2>1 DEF Types, IntakeTypes, PipeTypes, TopicTypes, HistoryTypes, vars, intake,
       pipe, consumer
  <2> QED
    BY <2>1, RequestTypes, HandleTypes, WorkTypes, ConsumeTypes, EndTypes DEF Next
<1> QED
  BY <1>1, <1>2, PTL DEF Spec

\* Every variable keeps its type, the channel its capacity and the offsets their
\* order, for any number of batches, handlers, workers and faults.
THEOREM TypesHold == Spec => []TypeOK
<1>1. Types => TypeOK
  BY DEF Types, TypeOK, IntakeTypes, PipeTypes, TopicTypes, HistoryTypes, Handling,
     Producing, Records
<1> QED
  BY <1>1, TypesInductive, PTL

-----------------------------------------------------------------------------
(* The committed offset.                                                       *)

Dealt == stored \cup dlq \cup lost

\* What was polled is dealt with or in memory; what is marked for a commit is dealt
\* with, because it was polled before the last poll.
OffsetInv ==
  /\ \A k \in 1 .. position : topic[k] \in Dealt \/ topic[k] \in ToSet(fetched)
  /\ \A k \in 1 .. marked : topic[k] \in Dealt

\* Nothing that was dealt with is forgotten, and the topic only grows.
LEMMA DealtStays ==
  ASSUME Types, [Next]_vars
  PROVE  /\ Dealt \subseteq Dealt'
         /\ \A k \in 1 .. Len(topic) : topic'[k] = topic[k]
<1>1. /\ stored \subseteq stored' /\ dlq \subseteq dlq' /\ lost \subseteq lost'
      /\ \/ topic' = topic
         \/ \E r : topic' = Append(topic, r)
  BY DEF Next, Handle, Work, Consume, CheckKey, CheckBatchId, Enqueue, Busy, Request,
     Take, ProducePoint, Poll, Insert, AutoCommit, Expire, Crash, vars, consumer
<1>2. Dealt \subseteq Dealt'
  BY <1>1 DEF Dealt
<1>3. \A k \in 1 .. Len(topic) : topic'[k] = topic[k]
  BY <1>1 DEF Types, TopicTypes
<1> QED
  BY <1>2, <1>3

\* Of the numbers up to n, those that are not up to m come after m.
LEMMA After ==
  ASSUME NEW m \in Nat, NEW n \in Nat, NEW k \in 1 .. n, k \notin 1 .. m
  PROVE  k \in m + 1 .. n /\ k - m \in 1 .. n - m
OBVIOUS

\* A window of a sequence.
LEMMA Window ==
  ASSUME NEW S, NEW s \in Seq(S), NEW m \in Nat, NEW n \in m + 1 .. Len(s)
  PROVE  /\ Len(SubSeq(s, m + 1, n)) = n - m
         /\ \A i \in 1 .. n - m : SubSeq(s, m + 1, n)[i] = s[m + i]
<1>1. m + 1 \in Nat /\ n \in Nat /\ 1 <= m + 1 /\ n <= Len(s) /\ n - (m + 1) + 1 = n - m
  OBVIOUS
<1>2. Len(SubSeq(s, m + 1, n)) = n - m
  BY <1>1
<1>3. ASSUME NEW i \in 1 .. n - m PROVE SubSeq(s, m + 1, n)[i] = s[m + i]
  <2>1. (m + 1) + i - 1 = m + i
    OBVIOUS
  <2> QED
    BY <1>1, <2>1
<1> QED
  BY <1>2, <1>3

\* What is not in memory any more was stored, parked or lost on record.
LEMMA StepKeepsOffset ==
  ASSUME Types, OffsetInv, [Next]_vars PROVE OffsetInv'
<1>t. /\ topic \in Seq(Records) /\ fetched \in Seq(Records)
      /\ committed \in Nat /\ marked \in Nat /\ position \in Nat
      /\ committed <= marked /\ marked <= position /\ position <= Len(topic)
  BY DEF Types, TopicTypes
<1>d. /\ Dealt \subseteq Dealt'
      /\ \A k \in 1 .. Len(topic) : topic'[k] = topic[k]
  BY DealtStays
<1>1. CASE Poll
  <2>1. /\ fetched = <<>> /\ marked' = position
        /\ position' \in position + 1 .. Len(topic) /\ topic' = topic
    BY <1>1 DEF Poll
  <2>2. \A k \in 1 .. position : topic[k] \in Dealt
    BY <2>1 DEF OffsetInv, ToSet
  <2>3. \A k \in 1 .. marked' : topic'[k] \in Dealt'
    BY <1>d, <1>t, <2>1, <2>2
  <2>4. ASSUME NEW k \in 1 .. position'
        PROVE  topic'[k] \in Dealt' \/ topic'[k] \in ToSet(fetched')
    <3> DEFINE polled == SubSeq(topic, position + 1, position')
    <3>1. CASE k \in 1 .. position
      BY <1>d, <1>t, <2>1, <2>2, <3>1
    <3>2. CASE k \notin 1 .. position
      <4>0. k \in position + 1 .. position' /\ k - position \in 1 .. position' - position
        <5>1. position \in Nat /\ position' \in Nat
          BY <1>t, <2>1
        <5> QED
          BY <3>2, <5>1, After
      <4>5. /\ Len(polled) = position' - position
            /\ \A i \in 1 .. position' - position : polled[i] = topic[position + i]
        <5>1. position \in Nat /\ position' \in position + 1 .. Len(topic)
          BY <1>t, <2>1
        <5> QED
          BY <1>t, <5>1, Window
      <4>6. position + (k - position) = k
        BY <1>t, <4>0
      <4>1. /\ k - position \in 1 .. Len(polled)
            /\ polled[k - position] = topic[k]
        <5> HIDE DEF polled
        <5> QED
          BY <4>0, <4>5, <4>6
      <4>2. topic[k] \in ToSet(polled)
        <5> HIDE DEF polled
        <5>1. polled \in Seq(Records)
          BY <1>t, <2>1 DEF polled
        <5> QED
          BY <4>1, <5>1 DEF ToSet
      <4>3. fetched' = polled \/ lost' = lost \cup ToSet(polled)
        BY <1>1 DEF Poll
      <4> QED
        BY <2>1, <4>2, <4>3 DEF Dealt
    <3> QED
      BY <3>1, <3>2
  <2> QED
    BY <2>3, <2>4 DEF OffsetInv
<1>2. CASE Insert
  <2>1. /\ ToSet(fetched) \subseteq Dealt'
        /\ UNCHANGED <<topic, position, marked>>
    BY <1>2 DEF Insert, Dealt
  <2> QED
    BY <1>d, <2>1 DEF OffsetInv
<1>3. CASE Crash
  <2>1. position' = committed /\ marked' = committed /\ topic' = topic
    BY <1>3 DEF Crash
  <2>2. \A k \in 1 .. committed : topic[k] \in Dealt
    BY <1>t DEF OffsetInv
  <2>3. \A k \in 1 .. committed : topic'[k] \in Dealt'
    BY <1>d, <2>1, <2>2
  <2> QED
    BY <2>1, <2>3 DEF OffsetInv
<1>4. ASSUME UNCHANGED <<position, marked, fetched>> PROVE OffsetInv'
  <2>1. \A k \in 1 .. position : k \in 1 .. Len(topic)
    BY <1>t
  <2>2. \A k \in 1 .. marked : k \in 1 .. Len(topic)
    BY <1>t
  <2>3. \A k \in 1 .. marked : topic'[k] \in Dealt'
    BY <1>d, <2>2 DEF OffsetInv
  <2>4. \A k \in 1 .. position :
          topic'[k] \in Dealt' \/ topic'[k] \in ToSet(fetched)
    BY <1>d, <2>1 DEF OffsetInv
  <2> QED
    BY <1>4, <2>3, <2>4 DEF OffsetInv
<1> QED
  BY <1>1, <1>2, <1>3, <1>4 DEF Next, Handle, Work, Consume, CheckKey, CheckBatchId,
     Enqueue, Busy, Request, Take, ProducePoint, AutoCommit, Expire, vars, consumer

\* The consumer's committed offset passes no record that was not stored, parked or
\* lost on record, whatever polls, inserts, commits and crashes there are.
THEOREM CommittedPassesNothing == Spec => []CommittedIsDealtWith
<1>1. Init => OffsetInv
  BY DEF Init, OffsetInv
<1>2. Types /\ OffsetInv /\ [Next]_vars => OffsetInv'
  BY StepKeepsOffset
<1>3. Types /\ OffsetInv => CommittedIsDealtWith
  BY DEF Types, TopicTypes, OffsetInv, CommittedIsDealtWith, Dealt
<1> QED
  BY <1>1, <1>2, <1>3, TypesInductive, PTL DEF Spec

-----------------------------------------------------------------------------
(* The identifiers.  Each lets one request past its check, and one more for     *)
(* each time Redis could not tell or has forgotten it.                          *)

Beyond(kind) ==
  IF kind = "Idempotency-Key" THEN {"batch id", "enqueue"} ELSE {"enqueue"}
Past(kind, b) ==
  {h \in Handlers : handler[h].at \in Beyond(kind) /\ handler[h].batch = b}
Unseen(kind, b) == IF Value(kind, b) \in redis THEN 0 ELSE 1

Once(kind, b) ==
  enqueued[b] + Cardinality(Past(kind, b)) + Unseen(kind, b) <= 1 + forgotten[b]
OnceInv == \A b \in Batches : \A kind \in headers[b] : Once(kind, b)

\* The requests past a check can be counted, before a step and after it.
LEMMA PastCounted ==
  ASSUME NEW S, S \subseteq Handlers
  PROVE  /\ IsFiniteSet(S) /\ Cardinality(S) \in Nat
         /\ \A T : T \subseteq S => Cardinality(T) <= Cardinality(S)
         /\ \A T, h : T \subseteq S \cup {h} => Cardinality(T) <= Cardinality(S) + 1
         /\ \A T, h : h \in S /\ T \subseteq S \ {h}
                        => Cardinality(T) <= Cardinality(S) - 1
<1>1. IsFiniteSet(S) /\ Cardinality(S) \in Nat
  BY FS_Subset, FS_CardinalityType, IngestAssumption
<1>2. ASSUME NEW T, T \subseteq S PROVE Cardinality(T) <= Cardinality(S)
  BY <1>1, <1>2, FS_Subset
<1>3. ASSUME NEW T, NEW h, T \subseteq S \cup {h}
      PROVE  Cardinality(T) <= Cardinality(S) + 1
  <2>1. IsFiniteSet(S \cup {h}) /\ Cardinality(S \cup {h}) <= Cardinality(S) + 1
    <3>1. /\ IsFiniteSet(S \cup {h})
          /\ Cardinality(S \cup {h}) =
               IF h \in S THEN Cardinality(S) ELSE Cardinality(S) + 1
      BY <1>1, FS_AddElement
    <3> QED
      BY <1>1, <3>1
  <2>2. IsFiniteSet(T) /\ Cardinality(T) <= Cardinality(S \cup {h})
    BY <1>3, <2>1, FS_Subset
  <2>3. Cardinality(T) \in Nat /\ Cardinality(S \cup {h}) \in Nat
    BY <2>1, <2>2, FS_CardinalityType
  <2> QED
    BY <1>1, <2>1, <2>2, <2>3
<1>4. ASSUME NEW T, NEW h, h \in S, T \subseteq S \ {h}
      PROVE  Cardinality(T) <= Cardinality(S) - 1
  <2>1. IsFiniteSet(S \ {h}) /\ Cardinality(S \ {h}) = Cardinality(S) - 1
    BY <1>1, <1>4, FS_RemoveElement
  <2>2. Cardinality(T) <= Cardinality(S \ {h})
    BY <1>4, <2>1, FS_Subset
  <2> QED
    BY <2>1, <2>2
<1> QED
  BY <1>1, <1>2, <1>3, <1>4

\* The ways in which a step can keep an identifier from letting two requests in.
LEMMA Weighed ==
  ASSUME Types, Types', NEW b \in Batches, NEW kind \in Kinds, Once(kind, b),
         \/ /\ Past(kind, b)' \subseteq Past(kind, b)
            /\ Value(kind, b) \in redis => Value(kind, b)' \in redis'
            /\ enqueued'[b] = enqueued[b] /\ forgotten'[b] >= forgotten[b]
         \/ /\ \E h : Past(kind, b)' \subseteq Past(kind, b) \cup {h}
            /\ Value(kind, b) \in redis => Value(kind, b)' \in redis'
            /\ enqueued'[b] = enqueued[b] /\ forgotten'[b] = forgotten[b] + 1
         \/ /\ \E h : Past(kind, b)' \subseteq Past(kind, b) \cup {h}
            /\ Value(kind, b) \notin redis /\ Value(kind, b)' \in redis'
            /\ enqueued'[b] = enqueued[b] /\ forgotten'[b] = forgotten[b]
         \/ /\ \E h \in Past(kind, b) : Past(kind, b)' \subseteq Past(kind, b) \ {h}
            /\ Value(kind, b) \in redis => Value(kind, b)' \in redis'
            /\ enqueued'[b] = enqueued[b] + 1 /\ forgotten'[b] = forgotten[b]
         \/ /\ Past(kind, b)' \subseteq Past(kind, b)
            /\ enqueued'[b] = enqueued[b] /\ forgotten'[b] = forgotten[b] + 1
  PROVE  Once(kind, b)'
<1> DEFINE n == Cardinality(Past(kind, b))
           m == Cardinality(Past(kind, b)')
           u == Unseen(kind, b)
           v == Unseen(kind, b)'
<1>1. Past(kind, b) \subseteq Handlers /\ Past(kind, b)' \subseteq Handlers
  BY DEF Past
<1>2. n \in Nat /\ m \in Nat
  BY <1>1, PastCounted
<1>3. u \in 0 .. 1 /\ v \in 0 .. 1
  BY DEF Unseen
<1>4. /\ Value(kind, b) \in redis <=> u = 0
      /\ Value(kind, b)' \in redis' <=> v = 0
  BY DEF Unseen
<1>5. /\ enqueued[b] \in Nat /\ enqueued'[b] \in Nat
      /\ forgotten[b] \in Nat /\ forgotten'[b] \in Nat
  BY DEF Types, HistoryTypes
<1>6. enqueued[b] + n + u <= 1 + forgotten[b]
  BY DEF Once
<1>7. /\ Past(kind, b)' \subseteq Past(kind, b) => m <= n
      /\ (\E h : Past(kind, b)' \subseteq Past(kind, b) \cup {h}) => m <= n + 1
      /\ (\E h \in Past(kind, b) : Past(kind, b)' \subseteq Past(kind, b) \ {h})
           => m <= n - 1
  BY <1>1, PastCounted
<1> HIDE DEF n, m, u, v
<1>8. enqueued'[b] + m + v <= 1 + forgotten'[b]
  BY <1>2, <1>3, <1>4, <1>5, <1>6, <1>7
<1> QED
  BY <1>8 DEF Once, m, v

\* What a check comes to, as far as the identifiers go.
Checked(h, kind, stage, status) ==
  \/ /\ kind \notin headers[handler[h].batch] /\ GoTo(h, stage)
     /\ UNCHANGED <<redis, forgotten>>
  \/ /\ Value(kind, handler[h].batch) \notin redis /\ GoTo(h, stage)
     /\ redis' = redis \cup {Value(kind, handler[h].batch)}
     /\ UNCHANGED forgotten
  \/ Answer(h, status) /\ UNCHANGED <<redis, forgotten>>
  \/ /\ GoTo(h, stage) /\ redis \subseteq redis'
     /\ forgotten' = [forgotten EXCEPT ![handler[h].batch] = @ + 1]

\* A request that goes on is past one check more; one that is answered, past none.
LEMMA PastAfter ==
  ASSUME Types, NEW h \in Handlers, handler[h].at # "idle", NEW b \in Batches,
         NEW kind \in Kinds
  PROVE  /\ \A stage : GoTo(h, stage) =>
              /\ stage \notin Beyond(kind) \/ handler[h].batch # b =>
                   Past(kind, b)' \subseteq Past(kind, b)
              /\ Past(kind, b)' \subseteq Past(kind, b) \cup {h}
         /\ \A status : Answer(h, status) =>
              Past(kind, b)' \subseteq Past(kind, b) \ {h}
<1>0. Idle.at = "idle"
  BY DEF Idle
<1>1. handler[h] \in Handling /\ handler \in [Handlers -> {Idle} \cup Handling]
  BY <1>0 DEF Types, IntakeTypes
<1>2. ASSUME NEW stage, GoTo(h, stage)
      PROVE  /\ stage \notin Beyond(kind) \/ handler[h].batch # b =>
                  Past(kind, b)' \subseteq Past(kind, b)
             /\ Past(kind, b)' \subseteq Past(kind, b) \cup {h}
  <2>1. handler' = [handler EXCEPT ![h].at = stage]
    BY <1>2 DEF GoTo
  <2>2. /\ handler'[h].at = stage /\ handler'[h].batch = handler[h].batch
        /\ \A g \in Handlers : g # h => handler'[g] = handler[g]
    BY <1>1, <2>1 DEF Handling
  <2> QED
    BY <2>2 DEF Past, Beyond
<1>3. ASSUME NEW status, Answer(h, status)
      PROVE  Past(kind, b)' \subseteq Past(kind, b) \ {h}
  <2>1. handler' = [handler EXCEPT ![h] = Idle]
    BY <1>3 DEF Answer
  <2>2. /\ handler'[h].at = "idle"
        /\ \A g \in Handlers : g # h => handler'[g] = handler[g]
    BY <1>0, <1>1, <2>1
  <2>3. "idle" \notin Beyond(kind)
    BY DEF Beyond
  <2> QED
    BY <2>2, <2>3 DEF Past, Beyond
<1> QED
  BY <1>2, <1>3

\* The identifiers of different batches are different.
LEMMA ValuesApart ==
  ASSUME NEW b, NEW c, NEW kind, NEW k, b # c PROVE Value(kind, b) # Value(k, c)
BY DEF Value

\* One check of a request keeps every identifier to its count: it may be the check of
\* this identifier or another one's, and of this batch or another one.
LEMMA CheckKeepsOnce ==
  ASSUME Types, Types', NEW h \in Handlers, handler[h].at # "idle",
         NEW kind \in Kinds, NEW stage, NEW status,
         stage \in Beyond(kind),
         \A k \in Kinds : stage \in Beyond(k) /\ k # kind => handler[h].at \in Beyond(k),
         UNCHANGED <<headers, sameValue, enqueued>>,
         Checked(h, kind, stage, status),
         NEW b \in Batches, NEW k \in headers[b], Once(k, b)
  PROVE  Once(k, b)'
<1>t. k \in Kinds /\ forgotten \in [Batches -> Nat]
  BY DEF Types, IntakeTypes, HistoryTypes
<1>v. Value(k, b)' = Value(k, b)
  BY DEF Value
<1>p. /\ GoTo(h, stage) =>
           /\ stage \notin Beyond(k) \/ handler[h].batch # b =>
                Past(k, b)' \subseteq Past(k, b)
           /\ Past(k, b)' \subseteq Past(k, b) \cup {h}
      /\ Answer(h, status) => Past(k, b)' \subseteq Past(k, b) \ {h}
  BY <1>t, PastAfter
\* The check of another identifier concerns those only that are past this one.
<1>o. ASSUME k # kind, GoTo(h, stage) PROVE Past(k, b)' \subseteq Past(k, b)
  <2>1. CASE stage \notin Beyond(k) \/ handler[h].batch # b
    BY <1>o, <1>p, <2>1
  <2>2. CASE stage \in Beyond(k) /\ handler[h].batch = b
    <3>1. h \in Past(k, b)
      BY <1>o, <1>t, <2>2 DEF Past
    <3> QED
      BY <1>o, <1>p, <3>1
  <2> QED
    BY <2>1, <2>2
<1>1. CASE /\ kind \notin headers[handler[h].batch] /\ GoTo(h, stage)
           /\ UNCHANGED <<redis, forgotten>>
  <2>1. k # kind \/ handler[h].batch # b
    BY <1>1
  <2>2. Past(k, b)' \subseteq Past(k, b)
    BY <1>1, <1>o, <1>p, <2>1
  <2>3. enqueued'[b] = enqueued[b] /\ forgotten'[b] >= forgotten[b]
    BY <1>1, <1>t
  <2> QED
    BY <1>1, <1>t, <1>v, <2>2, <2>3, Weighed
<1>2. CASE /\ Value(kind, handler[h].batch) \notin redis /\ GoTo(h, stage)
           /\ redis' = redis \cup {Value(kind, handler[h].batch)}
           /\ UNCHANGED forgotten
  <2>1. enqueued'[b] = enqueued[b] /\ forgotten'[b] = forgotten[b]
        /\ forgotten'[b] >= forgotten[b]
    BY <1>2, <1>t
  <2>2. CASE k = kind /\ handler[h].batch = b
    <3>1. \E g : Past(k, b)' \subseteq Past(k, b) \cup {g}
      BY <1>2, <1>p
    <3>2. Value(k, b) \notin redis /\ Value(k, b)' \in redis'
      BY <1>2, <1>v, <2>2
    <3> QED
      BY <1>t, <2>1, <3>1, <3>2, Weighed
  <2>3. CASE ~(k = kind /\ handler[h].batch = b)
    <3>1. Past(k, b)' \subseteq Past(k, b)
      BY <1>2, <1>o, <1>p, <2>3
    <3>2. Value(k, b) \in redis => Value(k, b)' \in redis'
      BY <1>2, <1>v
    <3> QED
      BY <1>t, <2>1, <3>1, <3>2, Weighed
  <2> QED
    BY <2>2, <2>3
<1>3. CASE Answer(h, status) /\ UNCHANGED <<redis, forgotten>>
  <2>1. enqueued'[b] = enqueued[b] /\ forgotten'[b] >= forgotten[b]
    BY <1>3, <1>t
  <2>2. Past(k, b)' \subseteq Past(k, b)
    BY <1>3, <1>p
  <2> QED
    BY <1>3, <1>t, <1>v, <2>1, <2>2, Weighed
<1>4. CASE /\ GoTo(h, stage) /\ redis \subseteq redis'
           /\ forgotten' = [forgotten EXCEPT ![handler[h].batch] = @ + 1]
  <2>1. enqueued'[b] = enqueued[b] /\ (Value(k, b) \in redis => Value(k, b)' \in redis')
    BY <1>4, <1>v
  <2>2. CASE handler[h].batch = b
    <3>1. forgotten'[b] = forgotten[b] + 1
      BY <1>4, <1>t, <2>2
    <3>2. \E g : Past(k, b)' \subseteq Past(k, b) \cup {g}
      BY <1>4, <1>p
    <3> QED
      BY <1>t, <2>1, <3>1, <3>2, Weighed
  <2>3. CASE handler[h].batch # b
    <3>1. forgotten'[b] >= forgotten[b]
      BY <1>4, <1>t, <2>3
    <3>2. Past(k, b)' \subseteq Past(k, b)
      BY <1>4, <1>p, <2>3
    <3> QED
      BY <1>t, <2>1, <3>1, <3>2, Weighed
  <2> QED
    BY <2>2, <2>3
<1> QED
  BY <1>1, <1>2, <1>3, <1>4 DEF Checked

\* A check that is one of the two keeps every identifier to its count.
LEMMA CheckKeepsAll ==
  ASSUME Types, Types', OnceInv, NEW h \in Handlers, handler[h].at # "idle",
         NEW kind \in Kinds, NEW stage, NEW status, stage \in Beyond(kind),
         \A k \in Kinds : stage \in Beyond(k) /\ k # kind => handler[h].at \in Beyond(k),
         UNCHANGED <<headers, sameValue, enqueued>>,
         Checked(h, kind, stage, status)
  PROVE  OnceInv'
<1>1. ASSUME NEW b \in Batches, NEW k \in headers[b] PROVE Once(k, b)'
  <2>1. Once(k, b)
    BY DEF OnceInv
  <2> QED
    BY <2>1, CheckKeepsOnce
<1> QED
  BY <1>1 DEF OnceInv

\* A handler that checks an identifier keeps every identifier to its count.
LEMMA ChecksKeepOnce ==
  ASSUME Types, Types', OnceInv, NEW h \in Handlers, CheckKey(h) \/ CheckBatchId(h)
  PROVE  OnceInv'
<1>1. UNCHANGED <<headers, sameValue, enqueued>> /\ handler[h].at # "idle"
  BY DEF CheckKey, CheckBatchId
<1>2. CASE CheckKey(h)
  <2>1. handler[h].at = "key" /\ "Idempotency-Key" \in Kinds
    BY <1>2 DEF CheckKey, Kinds
  <2>2. PICK status : Checked(h, "Idempotency-Key", "batch id", status)
    BY <1>2 DEF CheckKey, Check, Checked
  <2>3. /\ "batch id" \in Beyond("Idempotency-Key")
        /\ \A k \in Kinds : k # "Idempotency-Key" => "batch id" \notin Beyond(k)
    BY DEF Beyond
  <2> QED
    BY <1>1, <2>1, <2>2, <2>3, CheckKeepsAll
<1>3. CASE CheckBatchId(h)
  <2>1. handler[h].at = "batch id" /\ "X-Batch-Id" \in Kinds
    BY <1>3 DEF CheckBatchId, Kinds
  <2>2. PICK status : Checked(h, "X-Batch-Id", "enqueue", status)
    BY <1>3 DEF CheckBatchId, Check, Checked
  <2>3. /\ "enqueue" \in Beyond("X-Batch-Id")
        /\ \A k \in Kinds : k # "X-Batch-Id" => handler[h].at \in Beyond(k)
    BY <2>1 DEF Beyond, Kinds
  <2> QED
    BY <1>1, <2>1, <2>2, <2>3, CheckKeepsAll
<1> QED
  BY <1>2, <1>3

\* A batch enters the channel by a request that was past all its checks.
LEMMA EnqueueKeepsOnce ==
  ASSUME Types, Types', OnceInv, NEW h \in Handlers, Enqueue(h) \/ Busy(h)
  PROVE  OnceInv'
<1>0. handler[h].at = "enqueue" /\ handler[h].at # "idle"
  BY DEF Enqueue, Busy
<1>1. UNCHANGED <<headers, sameValue, redis, forgotten>>
  BY DEF Enqueue, Busy
<1>2. PICK status : Answer(h, status)
  BY DEF Enqueue, Busy
<1>3. \/ enqueued' = [enqueued EXCEPT ![handler[h].batch] = @ + 1]
      \/ enqueued' = enqueued
  BY DEF Enqueue, Busy
<1>4. ASSUME NEW b \in Batches, NEW k \in headers[b] PROVE Once(k, b)'
  <2>1. k \in Kinds /\ Once(k, b)
    BY DEF Types, IntakeTypes, OnceInv
  <2>2. Past(k, b)' \subseteq Past(k, b) \ {h}
    BY <1>0, <1>2, <2>1, PastAfter
  <2>3. /\ enqueued \in [Batches -> Nat] /\ forgotten[b] \in Nat
        /\ forgotten'[b] = forgotten[b]
    BY <1>1 DEF Types, HistoryTypes
  <2>4. Value(k, b)' = Value(k, b) /\ redis' = redis
    BY <1>1 DEF Value
  <2>5. CASE enqueued'[b] = enqueued[b]
    <3>1. Past(k, b)' \subseteq Past(k, b) /\ forgotten'[b] >= forgotten[b]
      BY <2>2, <2>3
    <3> QED
      BY <2>1, <2>4, <2>5, <3>1, Weighed
  <2>6. CASE enqueued'[b] # enqueued[b]
    <3>1. handler[h].batch = b /\ enqueued'[b] = enqueued[b] + 1
      BY <1>3, <2>3, <2>6
    <3>2. h \in Past(k, b)
      BY <1>0, <3>1 DEF Past, Beyond
    <3>3. \E g \in Past(k, b) : Past(k, b)' \subseteq Past(k, b) \ {g}
      BY <2>2, <3>2
    <3> QED
      BY <2>1, <2>3, <2>4, <3>1, <3>3, Weighed
  <2> QED
    BY <2>5, <2>6
<1> QED
  BY <1>1, <1>4 DEF OnceInv

\* An identifier that expires is counted for its batch, and for no other: no two
\* batches share one.
LEMMA ExpireKeepsOnce ==
  ASSUME Types, Types', OnceInv, NEW kind \in Kinds, NEW c \in Batches, Expire(kind, c)
  PROVE  OnceInv'
<1>1. /\ UNCHANGED <<headers, sameValue, handler, enqueued>>
      /\ redis' = redis \ {Value(kind, c)}
      /\ forgotten' = [forgotten EXCEPT ![c] = @ + 1]
  BY DEF Expire
<1>2. ASSUME NEW b \in Batches, NEW k \in headers[b] PROVE Once(k, b)'
  <2>1. k \in Kinds /\ Once(k, b) /\ forgotten \in [Batches -> Nat]
    BY DEF Types, IntakeTypes, HistoryTypes, OnceInv
  <2>2. Past(k, b)' \subseteq Past(k, b) /\ enqueued'[b] = enqueued[b]
    BY <1>1 DEF Past
  <2>3. CASE b = c
    <3>1. forgotten'[b] = forgotten[b] + 1
      BY <1>1, <2>1, <2>3
    <3> QED
      BY <2>1, <2>2, <3>1, Weighed
  <2>4. CASE b # c
    <3>1. forgotten'[b] >= forgotten[b]
      BY <1>1, <2>1, <2>4
    <3>2. Value(k, b) # Value(kind, c) /\ Value(k, b)' = Value(k, b)
      BY <1>1, <2>4, ValuesApart DEF Value
    <3>3. Value(k, b) \in redis => Value(k, b)' \in redis'
      BY <1>1, <3>2
    <3> QED
      BY <2>1, <2>2, <3>1, <3>3, Weighed
  <2> QED
    BY <2>3, <2>4
<1> QED
  BY <1>1, <1>2 DEF OnceInv

\* Steps that let no request past a check, and steps of no handler.
LEMMA OthersKeepOnce ==
  ASSUME Types, Types', OnceInv,
         UNCHANGED <<headers, sameValue, redis, enqueued, forgotten>>,
         \A h \in Handlers : \/ handler'[h] = handler[h]
                             \/ handler'[h].at \in {"idle", "key"}
  PROVE  OnceInv'
<1>1. ASSUME NEW b \in Batches, NEW k \in headers[b] PROVE Once(k, b)'
  <2>1. k \in Kinds /\ Once(k, b) /\ forgotten[b] \in Nat
    BY DEF Types, IntakeTypes, HistoryTypes, OnceInv
  <2>2. Past(k, b)' \subseteq Past(k, b)
    BY DEF Past, Beyond
  <2>3. Value(k, b) \in redis => Value(k, b)' \in redis'
    BY DEF Value
  <2>4. enqueued'[b] = enqueued[b] /\ forgotten'[b] >= forgotten[b]
    BY <2>1
  <2> QED
    BY <2>1, <2>2, <2>3, <2>4, Weighed
<1> QED
  BY <1>1 DEF OnceInv

\* Every step keeps every identifier to its count.
LEMMA StepKeepsOnce ==
  ASSUME Types, Types', OnceInv, [Next]_vars PROVE OnceInv'
<1>t. handler \in [Handlers -> {Idle} \cup Handling]
  BY DEF Types, IntakeTypes
<1>1. ASSUME NEW h \in Handlers, Handle(h) PROVE OnceInv'
  BY <1>1, ChecksKeepOnce, EnqueueKeepsOnce DEF Handle
<1>2. ASSUME NEW h \in Handlers, NEW b \in Batches, Request(h, b) PROVE OnceInv'
  <2>1. /\ UNCHANGED <<headers, sameValue, redis, enqueued, forgotten>>
        /\ handler' = [handler EXCEPT ![h] = [at |-> "key", batch |-> b]]
    BY <1>2 DEF Request
  <2>2. \A g \in Handlers : \/ handler'[g] = handler[g]
                            \/ handler'[g].at \in {"idle", "key"}
    BY <1>t, <2>1
  <2> QED
    BY <2>1, <2>2, OthersKeepOnce
<1>3. CASE Crash
  <2>1. /\ UNCHANGED <<headers, sameValue, redis, enqueued, forgotten>>
        /\ handler' = [h \in Handlers |-> Idle]
    BY <1>3 DEF Crash
  <2>2. \A g \in Handlers : handler'[g].at \in {"idle", "key"}
    BY <2>1 DEF Idle
  <2> QED
    BY <2>1, <2>2, OthersKeepOnce
<1>4. ASSUME UNCHANGED <<headers, sameValue, redis, enqueued, forgotten, handler>>
      PROVE  OnceInv'
  BY <1>4, OthersKeepOnce
<1>5. ASSUME NEW kind \in Kinds, NEW b \in Batches, Expire(kind, b) PROVE OnceInv'
  BY <1>5, ExpireKeepsOnce
<1>6. CASE \/ UNCHANGED vars
           \/ \E w \in Workers : Work(w)
           \/ Consume \/ AutoCommit
  <2>1. UNCHANGED <<headers, sameValue, redis, enqueued, forgotten, handler>>
    BY <1>6 DEF Work, Take, ProducePoint, Consume, Poll, Insert, AutoCommit, vars, intake
  <2> QED
    BY <1>4, <2>1
<1> QED
  BY <1>1, <1>2, <1>3, <1>5, <1>6 DEF Next

\* A batch that carries an identifier enters the channel once, and once more for each
\* time Redis could not tell it or has forgotten it, however many requests for it
\* overlap and whatever else goes on.
THEOREM IdentifiersLetInOnce == Spec => []EnqueuedOnce
<1>1. Init => OnceInv
  <2> SUFFICES ASSUME Init, NEW b \in Batches, NEW k \in headers[b] PROVE Once(k, b)
    BY DEF OnceInv
  <2>1. Past(k, b) = {}
    BY DEF Init, Past, Beyond, Idle
  <2>2. Cardinality(Past(k, b)) = 0
    BY <2>1, FS_EmptySet
  <2>3. Unseen(k, b) = 1
    BY DEF Init, Unseen
  <2>4. enqueued[b] = 0 /\ forgotten[b] = 0
    BY DEF Init
  <2> QED
    BY <2>2, <2>3, <2>4 DEF Once
<1>2. Types /\ Types' /\ OnceInv /\ [Next]_vars => OnceInv'
  BY StepKeepsOnce
<1>3. Types /\ OnceInv => EnqueuedOnce
  <2> SUFFICES ASSUME Types, OnceInv, NEW b \in Batches, headers[b] # {}
               PROVE  enqueued[b] <= 1 + forgotten[b]
    BY DEF EnqueuedOnce
  <2>1. PICK k \in headers[b] : Once(k, b)
    BY DEF OnceInv
  <2>2. Past(k, b) \subseteq Handlers
    BY DEF Past
  <2>3. Cardinality(Past(k, b)) \in Nat
    BY <2>2, PastCounted
  <2>4. Unseen(k, b) \in 0 .. 1
    BY DEF Unseen
  <2>5. enqueued[b] \in Nat /\ forgotten[b] \in Nat
    BY DEF Types, HistoryTypes
  <2> QED
    BY <2>1, <2>3, <2>4, <2>5 DEF Once
<1> QED
  BY <1>1, <1>2, <1>3, TypesInductive, PTL DEF Spec
=============================================================================
