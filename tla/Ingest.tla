-------------------------------- MODULE Ingest --------------------------------
(* The collector's path of a metrics batch: the HTTP handler with its two      *)
(* deduplications in Redis and the bounded channel (ingest/handler.go), the    *)
(* workers and the producer (produce/producer.go), and the consumer group that *)
(* writes raw-metrics to ClickHouse (consumer/consumer.go).  A client resends  *)
(* a batch when it is told to, and when no answer comes in time; requests for  *)
(* one batch may then overlap.  The rate limit is one more reason for the      *)
(* answer 429; decoding, validation and enrichment concern one request alone.  *)
EXTENDS Naturals, Sequences, FiniteSets, SequencesExt

CONSTANTS
  Batches,      \* the clients' batches, each with a client of its own
  HeaderSets,   \* which batches carry which identifiers, in each case to consider
  Points,       \* points of a batch, sent in this number
  Handlers,     \* request goroutines at a time
  Workers,      \* goroutines of the worker pool
  QueueSize,    \* capacity of batchChan
  MaxRequests,  \* bound on the requests for a batch
  Faults, MaxFaults

Kinds == {"Idempotency-Key", "X-Batch-Id"}

ASSUME IngestAssumption ==
  /\ HeaderSets \subseteq [Batches -> SUBSET Kinds]
  /\ IsFiniteSet(Handlers)
  /\ Points \in Nat \ {0} /\ QueueSize \in Nat \ {0}
  /\ MaxRequests \in Nat /\ MaxFaults \in Nat
  /\ Faults \subseteq {"redis", "expiry", "produce", "fetch", "insert", "crash"}

VARIABLES
  headers,    \* which of its two identifiers a client sends with its batch
  sameValue,  \* the batches that carry one value in both headers
  client,     \* what a client knows of its batch
  requests,   \* requests sent for a batch
  redis,      \* the values of the identifiers seen in the last five minutes
  handler,    \* the request a goroutine works on, and how far it is
  batchChan,
  worker,     \* the batch a worker produces, and its next point
  topic,      \* the records of raw-metrics
  position,   \* records the consumer has polled
  marked,     \* records that were polled before the last poll: may be committed
  committed,  \* the group's offset in the broker
  fetched,    \* the records of the last poll that are not in ClickHouse yet
  stored, dlq,   \* points in ClickHouse and in the dead-letter topic
  enqueued,   \* history: times a batch entered the channel
  forgotten,  \* history: checks that Redis could not make, and expired keys
  lost,       \* history: points dropped by a fault
  faults

intake == <<headers, sameValue, client, requests, redis, handler>>
pipe == <<batchChan, worker>>
consumer == <<position, marked, committed, fetched, stored, dlq>>
vars == <<intake, pipe, topic, consumer, enqueued, forgotten, lost, faults>>

Idle == [at |-> "idle"]
PointsOf(b) == {<<b, p>> : p \in 1 .. Points}
\* Both kinds live under one prefix in Redis: "batch:" and the value.
Value(kind, b) == IF b \in sameValue THEN <<"both", b>> ELSE <<kind, b>>
Fault(kind) == kind \in Faults /\ faults < MaxFaults /\ faults' = faults + 1

Init ==
  /\ headers \in HeaderSets
  /\ sameValue \in SUBSET {b \in Batches : headers[b] = Kinds}
  /\ client = [b \in Batches |-> "idle"]
  /\ requests = [b \in Batches |-> 0]
  /\ redis = {}
  /\ handler = [h \in Handlers |-> Idle]
  /\ batchChan = <<>> /\ worker = [w \in Workers |-> Idle]
  /\ topic = <<>>
  /\ position = 0 /\ marked = 0 /\ committed = 0 /\ fetched = <<>>
  /\ stored = {} /\ dlq = {}
  /\ enqueued = [b \in Batches |-> 0] /\ forgotten = [b \in Batches |-> 0]
  /\ lost = {} /\ faults = 0

-----------------------------------------------------------------------------
(* Clients and handlers *)

\* A first request, a retry after 429 or an error, or one after a timeout, whose
\* predecessor may still be under way.
Request(h, b) ==
  /\ handler[h] = Idle
  /\ client[b] \in {"idle", "waiting"} /\ requests[b] < MaxRequests
  /\ handler' = [handler EXCEPT ![h] = [at |-> "key", batch |-> b]]
  /\ client' = [client EXCEPT ![b] = "waiting"]
  /\ requests' = [requests EXCEPT ![b] = @ + 1]
  /\ UNCHANGED <<headers, sameValue, redis, pipe, topic, consumer, enqueued, forgotten, lost,
                 faults>>

\* 202 and 409 end the client's efforts; after anything else it may try again.
Answer(h, status) ==
  /\ handler' = [handler EXCEPT ![h] = Idle]
  /\ client' = [client EXCEPT ![handler[h].batch] =
                  IF @ = "done" \/ status \in {202, 409} THEN "done" ELSE "idle"]

\* IsDuplicate: SETNX with five minutes to live.  While Redis is away (or its
\* answer does not come) everything counts as new.
Check(h, kind, next, status) ==
  LET b == handler[h].batch
      id == Value(kind, b)
  IN  \/ /\ kind \notin headers[b] /\ next
         /\ UNCHANGED <<redis, forgotten, faults>>
      \/ /\ kind \in headers[b] /\ id \notin redis /\ next
         /\ redis' = redis \cup {id}
         /\ UNCHANGED <<forgotten, faults>>
      \/ /\ kind \in headers[b] /\ id \in redis /\ Answer(h, status)
         /\ UNCHANGED <<redis, forgotten, faults>>
      \/ /\ kind \in headers[b] /\ Fault("redis") /\ next
         /\ redis' \in {redis, redis \cup {id}}
         /\ forgotten' = [forgotten EXCEPT ![b] = @ + 1]

GoTo(h, stage) == handler' = [handler EXCEPT ![h].at = stage] /\ UNCHANGED client

\* Faulty: GET now and SET later, so that a second request may read in between
\* (here the value is never seen, the longest such delay).
CheckKeyLate(h) ==
  /\ handler[h].at = "key"
  /\ \/ GoTo(h, "batch id")
     \/ Value("Idempotency-Key", handler[h].batch) \in redis /\ Answer(h, 409)
  /\ UNCHANGED <<headers, sameValue, requests, redis, pipe, topic, consumer, enqueued,
                 forgotten, lost, faults>>

CheckKey(h) ==
  /\ handler[h].at = "key"
  /\ Check(h, "Idempotency-Key", GoTo(h, "batch id"), 409)
  /\ UNCHANGED <<headers, sameValue, requests, pipe, topic, consumer, enqueued, lost>>

CheckBatchId(h) ==
  /\ handler[h].at = "batch id"
  /\ Check(h, "X-Batch-Id", GoTo(h, "enqueue"), 202)
  /\ UNCHANGED <<headers, sameValue, requests, pipe, topic, consumer, enqueued, lost>>

\* Faulty: the room in the channel is not checked.
EnqueueUnchecked(h) ==
  /\ handler[h].at = "enqueue"
  /\ batchChan' = Append(batchChan, handler[h].batch)
  /\ enqueued' = [enqueued EXCEPT ![handler[h].batch] = @ + 1]
  /\ Answer(h, 202)
  /\ UNCHANGED <<headers, sameValue, requests, redis, worker, topic, consumer, forgotten,
                 lost, faults>>

\* Nothing waits for the producer: 202 says that the batch is in the channel.
Enqueue(h) ==
  /\ handler[h].at = "enqueue"
  /\ Len(batchChan) < QueueSize
  /\ batchChan' = Append(batchChan, handler[h].batch)
  /\ enqueued' = [enqueued EXCEPT ![handler[h].batch] = @ + 1]
  /\ Answer(h, 202)
  /\ UNCHANGED <<headers, sameValue, requests, redis, worker, topic, consumer, forgotten, lost,
                 faults>>

\* "server busy, retry later"; the identifiers stay in Redis.
Busy(h) ==
  /\ handler[h].at = "enqueue"
  /\ Len(batchChan) = QueueSize
  /\ Answer(h, 429)
  /\ UNCHANGED <<headers, sameValue, requests, redis, pipe, topic, consumer, enqueued, forgotten,
                 lost, faults>>

\* Five minutes have passed.
Expire(kind, b) ==
  /\ Fault("expiry") /\ kind \in headers[b] /\ Value(kind, b) \in redis
  /\ redis' = redis \ {Value(kind, b)}
  /\ forgotten' = [forgotten EXCEPT ![b] = @ + 1]
  /\ UNCHANGED <<headers, sameValue, client, requests, handler, pipe, topic, consumer,
                 enqueued, lost>>

-----------------------------------------------------------------------------
(* Workers *)

Take(w) ==
  /\ worker[w] = Idle /\ batchChan # <<>>
  /\ worker' = [worker EXCEPT ![w] = [at |-> "producing", batch |-> Head(batchChan), next |-> 1]]
  /\ batchChan' = Tail(batchChan)
  /\ UNCHANGED <<intake, topic, consumer, enqueued, forgotten, lost, faults>>

\* Faulty: the loop stops one point early.
ProducePointShort(w) ==
  /\ worker[w].at = "producing"
  /\ topic' = Append(topic, <<worker[w].batch, worker[w].next>>)
  /\ worker' = [worker EXCEPT ![w] =
                  IF @.next + 1 >= Points THEN Idle ELSE [@ EXCEPT !.next = @ + 1]]
  /\ UNCHANGED <<intake, batchChan, consumer, enqueued, forgotten, lost, faults>>

ProducePoint(w) ==
  /\ worker[w].at = "producing"
  /\ LET b == worker[w].batch
         p == worker[w].next
     IN  \/ /\ topic' = Append(topic, <<b, p>>)
            /\ worker' = [worker EXCEPT ![w] =
                            IF p = Points THEN Idle ELSE [@ EXCEPT !.next = p + 1]]
            /\ UNCHANGED <<lost, faults>>
         \/ \* The first point that fails takes the rest of the batch with it.
            /\ Fault("produce")
            /\ worker' = [worker EXCEPT ![w] = Idle]
            /\ lost' = lost \cup {<<b, q>> : q \in p .. Points}
            /\ UNCHANGED topic
  /\ UNCHANGED <<intake, batchChan, consumer, enqueued, forgotten>>

-----------------------------------------------------------------------------
(* The consumer *)

\* Faulty: greedy autocommit, which takes what this poll returns.
PollGreedy ==
  /\ fetched = <<>> /\ position < Len(topic)
  /\ position' \in position + 1 .. Len(topic)
  /\ marked' = position'
  /\ fetched' = SubSeq(topic, position + 1, position')
  /\ UNCHANGED <<intake, pipe, topic, committed, stored, dlq, enqueued, forgotten, lost,
                 faults>>

\* franz-go's autocommit takes what was polled before this poll.
Poll ==
  /\ fetched = <<>> /\ position < Len(topic)
  /\ marked' = position
  /\ position' \in position + 1 .. Len(topic)
  /\ LET records == SubSeq(topic, position + 1, position')
     IN  \/ fetched' = records /\ UNCHANGED <<lost, faults>>
         \/ \* An error on one partition: the records of the others go with it.
            /\ Fault("fetch")
            /\ lost' = lost \cup ToSet(records)
            /\ UNCHANGED fetched
  /\ UNCHANGED <<intake, pipe, topic, committed, stored, dlq, enqueued, forgotten>>

AutoCommit ==
  /\ committed < marked
  /\ committed' = marked
  /\ UNCHANGED <<intake, pipe, topic, position, marked, fetched, stored, dlq,
                 enqueued, forgotten, lost, faults>>

Insert ==
  /\ fetched # <<>>
  /\ fetched' = <<>>
  /\ \/ stored' = stored \cup ToSet(fetched) /\ UNCHANGED <<dlq, lost, faults>>
     \/ \* Each record is parked on its own, or dropped where that fails too.
        /\ Fault("insert")
        /\ \E parked \in SUBSET ToSet(fetched) :
             /\ dlq' = dlq \cup parked
             /\ lost' = lost \cup (ToSet(fetched) \ parked)
        /\ UNCHANGED stored
  /\ UNCHANGED <<intake, pipe, topic, position, marked, committed, enqueued,
                 forgotten>>

\* The process ends, by a crash or a shutdown, which waits for the handlers
\* but neither for the channel nor for the workers.
Crash ==
  /\ Fault("crash")
  /\ client' = [b \in Batches |->
                  IF client[b] = "waiting" THEN "idle" ELSE client[b]]
  /\ handler' = [h \in Handlers |-> Idle]
  /\ batchChan' = <<>>
  /\ worker' = [w \in Workers |-> Idle]
  /\ lost' = lost
       \cup UNION {PointsOf(batchChan[k]) : k \in DOMAIN batchChan}
       \cup UNION {{<<worker[w].batch, p>> : p \in worker[w].next .. Points} :
                     w \in {v \in Workers : worker[v].at = "producing"}}
  /\ position' = committed /\ marked' = committed /\ fetched' = <<>>
  /\ UNCHANGED <<headers, sameValue, requests, redis, topic, committed, stored, dlq, enqueued,
                 forgotten>>

-----------------------------------------------------------------------------

Handle(h) == CheckKey(h) \/ CheckBatchId(h) \/ Enqueue(h) \/ Busy(h)
Work(w) == Take(w) \/ ProducePoint(w)
Consume == Poll \/ Insert

Next ==
  \/ \E h \in Handlers : Handle(h) \/ \E b \in Batches : Request(h, b)
  \/ \E w \in Workers : Work(w)
  \/ Consume \/ AutoCommit
  \/ \E kind \in Kinds, b \in Batches : Expire(kind, b)
  \/ Crash

Spec == Init /\ [][Next]_vars

\* The goroutines of a process that lives run.  Clients and the autocommit timer
\* need not.
FairSpec ==
  /\ Spec
  /\ \A h \in Handlers : WF_vars(Handle(h))
  /\ \A w \in Workers : WF_vars(Work(w))
  /\ WF_vars(Consume)

-----------------------------------------------------------------------------
(* Properties *)

\* Types; the channel never holds more than its capacity, and the offsets are
\* in order: committed, marked, polled, produced.
TypeOK ==
  /\ headers \in [Batches -> SUBSET Kinds] /\ sameValue \subseteq Batches
  /\ client \in [Batches -> {"idle", "waiting", "done"}]
  /\ requests \in [Batches -> 0 .. MaxRequests]
  /\ redis \subseteq (Kinds \cup {"both"}) \X Batches
  /\ handler \in [Handlers -> {Idle} \cup
                     [batch : Batches, at : {"key", "batch id", "enqueue"}]]
  /\ batchChan \in Seq(Batches) /\ Len(batchChan) <= QueueSize
  /\ worker \in [Workers -> {Idle} \cup
                    [at : {"producing"}, batch : Batches, next : 1 .. Points]]
  /\ topic \in Seq(Batches \X (1 .. Points))
  /\ committed <= marked /\ marked <= position /\ position <= Len(topic)
  /\ fetched \in Seq(Batches \X (1 .. Points))
  /\ faults \in 0 .. MaxFaults

\* A batch that carries an identifier enters the channel once, however often it
\* is sent and however its requests overlap, and once more for each time Redis
\* lost or could not tell an identifier (SETNX comes before everything else).
EnqueuedOnce ==
  \A b \in Batches : headers[b] # {} => enqueued[b] <= 1 + forgotten[b]

\* The consumer's committed offset never passes a record it has not dealt with:
\* every record below it is stored, parked or lost by a fault.
CommittedIsDealtWith ==
  \A k \in 1 .. committed : topic[k] \in stored \cup dlq \cup lost

\* Every point of a batch that entered the channel ends in ClickHouse or in the
\* dead-letter topic, unless a fault that is on record took it.
Delivered ==
  \A b \in Batches : enqueued[b] > 0 ~> PointsOf(b) \subseteq stored \cup dlq \cup lost

\* handler.go:183: "server busy, retry later".  A client that went on until it was
\* answered as for a success, and of which no request is under way any more, has
\* its batch in the channel (its two headers being different).
AnsweredIsEnqueued ==
  \A b \in Batches \ sameValue :
    client[b] = "done" /\ (\A h \in Handlers : handler[h] = Idle \/ handler[h].batch # b)
      => enqueued[b] > 0
=============================================================================
