-------------------------------- MODULE Agent --------------------------------
(* The send loop of the C++ agent (main.cpp, grpc_client.cpp) over its local  *)
(* buffer, and the two calls of the collector's gRPC server (grpc_server.go)  *)
(* it ends in.  Each turn of the loop builds a batch, replays the backlog as  *)
(* one stream if the last send succeeded, sends the batch, and saves it if    *)
(* that failed.  The buffer is the one BatchQueue promises and RingBuffer     *)
(* delivers.  The collector may go away, calls and streams may break, and the *)
(* agent may be stopped or killed at any point of its loop.                   *)
(*                                                                            *)
(* A batch is its sequence number; the last number stands for every batch     *)
(* from there on, so that the loop never ends.  Retry delays are left out.    *)
EXTENDS Naturals, Sequences, FiniteSets, SequencesExt

CONSTANTS
  MaxBatches,   \* bound on the batches that are told apart
  EntrySize,    \* the size of each batch in the buffer
  Capacity,     \* the size of the buffer
  MaxTries,     \* turns of the connection loop (30 in the code)
  Faults,       \* the kinds of fault that may happen
  MaxFaults     \* bound on faults

Batches == 1 .. MaxBatches

ASSUME AgentAssumption ==
  /\ MaxBatches \in Nat \ {0} /\ MaxTries \in Nat \ {0}
  /\ Capacity \in Nat /\ MaxFaults \in Nat
  /\ EntrySize \in [Batches -> Nat \ {0}]
  /\ Faults \subseteq {"down", "break", "late", "produce", "stop", "kill"}

VARIABLES
  phase,                  \* where the loop is
  running, tries, seq,    \* g_running, the connection loop's i, g_batch_seq
  channel_, stub_,        \* what the client has built
  collector_connected,    \* whether the last send succeeded
  buffer, used, answer,   \* the local buffer, its bytes and its last answer
  stream, wire,           \* the replay stream and the messages under way in it
  backlog_batch,          \* what the batch that pop fills holds by now
  up,                     \* whether the collector can be reached
  produced,               \* history: batches whose points reached raw-metrics
  replayed,               \* history: the last batch that came out of a stream
  lost,                   \* history: batches dropped on purpose or by a fault
  faults

process == <<running, tries, channel_, stub_, collector_connected>>
local == <<buffer, used, answer>>
replay == <<stream, wire, backlog_batch, replayed>>
vars == <<phase, process, seq, local, replay, up, produced, lost, faults>>

Buffer == INSTANCE BatchQueue WITH queue <- buffer

Init ==
  /\ phase = "off" /\ running = FALSE /\ tries = 0 /\ seq = 0
  /\ channel_ = FALSE /\ stub_ = FALSE /\ collector_connected = FALSE
  /\ Buffer!Init
  /\ stream = "none" /\ wire = <<>> /\ backlog_batch = <<>>
  /\ up \in BOOLEAN
  /\ produced = {} /\ replayed = 0 /\ lost = {} /\ faults = 0

Fault(kind) == kind \in Faults /\ faults < MaxFaults /\ faults' = faults + 1

\* The batch of this turn is in the loop's hands and nowhere else.
InHand == IF phase \in {"drain", "draining", "finish", "send", "save", "evict",
                        "save again"}
          THEN {seq} ELSE {}

Points(messages) == UNION {ToSet(messages[k]) : k \in DOMAIN messages}

-----------------------------------------------------------------------------
(* Start and connection *)

\* A process starts on the file of the last one.  A buffer that is exactly full
\* and begins at offset 0 is taken for a new one (see RingBuffer).
Start ==
  /\ phase = "off"
  /\ phase' = "connecting" /\ running' = TRUE /\ tries' = 0
  /\ \/ UNCHANGED <<local, lost>>
     \/ used = Capacity /\ Buffer!Forget /\ lost' = lost \cup ToSet(buffer)
  /\ UNCHANGED <<channel_, stub_, collector_connected, seq, replay, up, produced,
                 faults>>

\* connect: the stub is built only by the call that creates the channel, and
\* only if the collector answers it in time.
Connect ==
  /\ phase = "connecting" /\ running /\ tries < MaxTries
  /\ channel_' = TRUE
  /\ \/ /\ ~channel_ /\ ~up
        /\ tries' = tries + 1
        /\ UNCHANGED <<stub_, phase>>
     \/ /\ channel_ \/ up
        /\ stub_' = (stub_ \/ ~channel_)
        /\ phase' = "health"
        /\ UNCHANGED tries
  /\ UNCHANGED <<running, collector_connected, seq, local, replay, up, produced,
                 lost, faults>>

HealthCheck ==
  /\ phase = "health"
  /\ IF stub_ /\ up
     THEN collector_connected' = TRUE /\ phase' = "build" /\ UNCHANGED tries
     ELSE tries' = tries + 1 /\ phase' = "connecting"
          /\ UNCHANGED collector_connected
  /\ UNCHANGED <<running, channel_, stub_, seq, local, replay, up, produced, lost,
                 faults>>

\* "WARNING: starting in offline mode -- data will buffer"
StartOffline ==
  /\ phase = "connecting" /\ (tries = MaxTries \/ ~running)
  /\ phase' = "build"
  /\ UNCHANGED <<process, seq, local, replay, up, produced, lost, faults>>

-----------------------------------------------------------------------------
(* A turn of the loop *)

Build ==
  /\ phase = "build" /\ running
  /\ seq' = IF seq < MaxBatches THEN seq + 1 ELSE seq
  /\ phase' = IF collector_connected /\ buffer # <<>> THEN "drain" ELSE "send"
  /\ UNCHANGED <<process, local, replay, up, produced, lost, faults>>

\* stream_backlog opens a stream; on a channel that is down the first Write fails.
DrainBegin ==
  /\ phase = "drain"
  /\ IF stub_
     THEN stream' = (IF up THEN "open" ELSE "broken") /\ phase' = "draining"
     ELSE phase' = "send" /\ UNCHANGED stream
  /\ UNCHANGED <<process, seq, local, wire, backlog_batch, replayed, up, produced,
                 lost, faults>>

DrainEmpty ==
  /\ phase = "draining" /\ Buffer!PopEmpty
  /\ phase' = "finish"
  /\ UNCHANGED <<process, seq, replay, up, produced, lost, faults>>

\* Faulty variant: a batch that could not be written goes back into the buffer.
DrainNextRequeues ==
  /\ phase = "draining" /\ buffer # <<>>
  /\ backlog_batch' = Append(backlog_batch, Head(buffer))
  /\ answer' = <<"popped", Head(buffer)>>
  /\ IF running /\ stream = "open"
     THEN /\ wire' = Append(wire, backlog_batch') /\ UNCHANGED phase
          /\ buffer' = Tail(buffer) /\ used' = used - EntrySize[Head(buffer)]
     ELSE /\ phase' = "finish" /\ UNCHANGED <<wire, used>>
          /\ buffer' = Append(Tail(buffer), Head(buffer))
  /\ UNCHANGED <<process, seq, stream, replayed, up, produced, lost, faults>>

\* pop appends to the metrics of the one backlog_batch of this drain, and what
\* is written is all of it.  A batch that is popped and not written is gone.
DrainNext ==
  /\ phase = "draining" /\ Buffer!Pop
  /\ backlog_batch' = Append(backlog_batch, Head(buffer))
  /\ IF running /\ stream = "open"
     THEN wire' = Append(wire, backlog_batch') /\ UNCHANGED <<phase, lost>>
     ELSE phase' = "finish" /\ lost' = lost \cup {Head(buffer)} /\ UNCHANGED wire
  /\ UNCHANGED <<process, seq, stream, replayed, up, produced, faults>>

\* Faulty variant: the loop goes on before the stream has ended.
DrainFinishEarly ==
  /\ phase = "finish"
  /\ phase' = "send" /\ backlog_batch' = <<>>
  /\ UNCHANGED <<process, seq, local, stream, wire, replayed, up, produced, lost,
                 faults>>

\* Finish waits for the collector's answer or the end of the stream.
DrainFinish ==
  /\ phase = "finish" /\ (wire = <<>> \/ stream = "broken")
  /\ phase' = "send" /\ stream' = "none" /\ backlog_batch' = <<>>
  /\ UNCHANGED <<process, seq, local, wire, replayed, up, produced, lost, faults>>

\* Faulty variant: a success does not end the offline mode.
SentOffline ==
  /\ phase = "send" /\ stub_ /\ up
  /\ \/ produced' = produced \cup {seq} /\ UNCHANGED <<lost, faults>>
     \/ Fault("produce") /\ lost' = lost \cup {seq} /\ UNCHANGED produced
  /\ phase' = "build"
  /\ UNCHANGED <<process, seq, local, replay, up>>

\* The answer is taken as a success whatever number of points it rejects.
Sent ==
  /\ phase = "send" /\ stub_ /\ up
  /\ \/ produced' = produced \cup {seq} /\ UNCHANGED <<lost, faults>>
     \/ Fault("produce") /\ lost' = lost \cup {seq} /\ UNCHANGED produced
  /\ collector_connected' = TRUE
  /\ phase' = "build"
  /\ UNCHANGED <<running, tries, channel_, stub_, seq, local, replay, up>>

\* Faulty variant: a call whose deadline passed is not saved.
SendFailsUnsaved ==
  /\ phase = "send"
  /\ \/ ~(stub_ /\ up) /\ phase' = "save" /\ UNCHANGED <<produced, faults>>
     \/ /\ Fault("late") /\ stub_ /\ up /\ produced' \in {produced, produced \cup {seq}}
        /\ phase' = "build"
  /\ collector_connected' = FALSE
  /\ UNCHANGED <<running, tries, channel_, stub_, seq, local, replay, up, lost>>

\* No stub, no collector, or a deadline that passes before or after the
\* collector has produced the points.
SendFails ==
  /\ phase = "send"
  /\ \/ ~(stub_ /\ up) /\ UNCHANGED <<produced, faults>>
     \/ Fault("late") /\ stub_ /\ up /\ produced' \in {produced, produced \cup {seq}}
  /\ collector_connected' = FALSE
  /\ phase' = "save"
  /\ UNCHANGED <<running, tries, channel_, stub_, seq, local, replay, up, lost>>

Save ==
  /\ phase = "save"
  /\ \/ Buffer!Push(seq) /\ phase' = "build"
     \/ Buffer!Refuse(seq) /\ phase' = "evict"
  /\ UNCHANGED <<process, seq, replay, up, produced, lost, faults>>

\* The oldest batch makes room, once.
Evict ==
  /\ phase = "evict"
  /\ \/ Buffer!Pop /\ lost' = lost \cup {Head(buffer)}
     \/ Buffer!PopEmpty /\ UNCHANGED lost
  /\ phase' = "save again"
  /\ UNCHANGED <<process, seq, replay, up, produced, faults>>

SaveAgain ==
  /\ phase = "save again"
  /\ \/ Buffer!Push(seq) /\ UNCHANGED lost
     \/ Buffer!Refuse(seq) /\ lost' = lost \cup {seq}
  /\ phase' = "build"
  /\ UNCHANGED <<process, seq, replay, up, produced, faults>>

\* The loop ends at its top, and with the process what the client had built.
Exit ==
  /\ phase = "build" /\ ~running
  /\ phase' = "off"
  /\ channel_' = FALSE /\ stub_' = FALSE /\ collector_connected' = FALSE
  /\ UNCHANGED <<running, tries, seq, local, replay, up, produced, lost, faults>>

-----------------------------------------------------------------------------
(* The collector *)

\* StreamMetrics takes a message and produces its points.
Receive ==
  /\ stream = "open" /\ wire # <<>>
  /\ wire' = Tail(wire)
  /\ replayed' = Last(Head(wire))
  /\ \/ produced' = produced \cup ToSet(Head(wire)) /\ UNCHANGED <<lost, faults>>
     \/ Fault("produce") /\ lost' = lost \cup ToSet(Head(wire)) /\ UNCHANGED produced
  /\ UNCHANGED <<phase, process, seq, local, stream, backlog_batch, up>>

-----------------------------------------------------------------------------
(* Faults *)

StreamEnds ==
  /\ stream' = IF stream = "open" THEN "broken" ELSE stream
  /\ wire' = <<>>
  /\ lost' = lost \cup Points(wire)

CollectorDown ==
  /\ Fault("down") /\ up
  /\ up' = FALSE
  /\ StreamEnds
  /\ UNCHANGED <<phase, process, seq, local, backlog_batch, replayed, produced>>

CollectorUp ==
  /\ ~up
  /\ up' = TRUE
  /\ UNCHANGED <<phase, process, seq, local, replay, produced, lost, faults>>

\* A network error, or the deadline of 120 seconds for the whole stream.
StreamBreaks ==
  /\ Fault("break") /\ stream = "open"
  /\ StreamEnds
  /\ UNCHANGED <<phase, process, seq, local, backlog_batch, replayed, up, produced>>

\* SIGINT or SIGTERM, at any point of the loop.
Stop ==
  /\ Fault("stop") /\ running
  /\ running' = FALSE
  /\ UNCHANGED <<phase, tries, channel_, stub_, collector_connected, seq, local,
                 replay, up, produced, lost>>

\* The process dies: the buffer's file stays, the batch in hand does not.
Kill ==
  /\ Fault("kill") /\ phase # "off"
  /\ phase' = "off" /\ running' = FALSE
  /\ channel_' = FALSE /\ stub_' = FALSE /\ collector_connected' = FALSE
  /\ stream' = "none" /\ wire' = <<>> /\ backlog_batch' = <<>>
  /\ lost' = lost \cup Points(wire) \cup InHand
  /\ UNCHANGED <<tries, seq, local, replayed, up, produced>>

-----------------------------------------------------------------------------

Loop ==
  \/ Connect \/ HealthCheck \/ StartOffline
  \/ Build \/ DrainBegin \/ DrainEmpty \/ DrainNext \/ DrainFinish
  \/ Sent \/ SendFails \/ Save \/ Evict \/ SaveAgain
  \/ Exit

Next ==
  \/ Loop
  \/ Start
  \/ Receive
  \/ CollectorDown \/ CollectorUp \/ StreamBreaks \/ Stop \/ Kill

Spec == Init /\ [][Next]_vars

\* The loop of a process that lives goes on, and the collector takes what is
\* sent to it.  Nobody has to start an agent, or to bring the collector back.
FairSpec == Spec /\ WF_vars(Loop) /\ WF_vars(Receive)

-----------------------------------------------------------------------------
(* Properties *)

Phases == {"off", "connecting", "health", "build", "drain", "draining", "finish",
           "send", "save", "evict", "save again"}

\* Types; a replay stream exists only while the loop drains.
TypeOK ==
  /\ phase \in Phases /\ running \in BOOLEAN /\ tries \in 0 .. MaxTries
  /\ seq \in 0 .. MaxBatches
  /\ channel_ \in BOOLEAN /\ stub_ \in BOOLEAN /\ collector_connected \in BOOLEAN
  /\ buffer \in Seq(Batches) /\ used \in 0 .. Capacity
  /\ stream \in {"none", "open", "broken"}
  /\ stream # "none" => phase \in {"draining", "finish"}
  /\ wire \in Seq(Seq(Batches)) /\ backlog_batch \in Seq(Batches)
  /\ up \in BOOLEAN
  /\ produced \subseteq Batches /\ replayed \in 0 .. MaxBatches
  /\ lost \subseteq Batches /\ faults \in 0 .. MaxFaults

\* No batch disappears without a cause: it is in the loop's hands, in the buffer,
\* in the stream or in the topic, unless it was evicted from a full buffer,
\* refused by the collector, or popped when the stream or the process ended.
Accounted ==
  1 .. seq \subseteq
    InHand \cup ToSet(buffer) \cup Points(wire) \cup produced \cup lost

\* The backlog reaches the collector in the order in which it was built, across
\* failed drains, evictions and restarts (batches carry their original time).
BacklogInOrder == [][replayed' >= replayed]_vars

\* While a client that has its stub can reach the collector, the backlog is
\* drained again and again, whatever broke before.
Drained == <>[](up /\ stub_ /\ running) => []<>(buffer = <<>>)

\* ring_buffer.h:32: "On reconnection, it drains the backlog".  The same promise
\* for an agent that merely runs while the collector is up.
DrainedOnReconnection == <>[](up /\ running) => []<>(buffer = <<>>)
=============================================================================
