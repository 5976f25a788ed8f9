------------------------------ MODULE AgentProofs ------------------------------
(* What holds of the agent's send loop for any number and any sizes of batches, *)
(* any capacity of the buffer and any number of faults: no batch disappears     *)
(* without a cause, and the backlog reaches the collector in order.             *)
EXTENDS Agent, TLAPS

Messages == Seq(Batches)

\* What a turn of the loop may move: the batches, as far as they are told apart.
Types ==
  /\ seq \in 0 .. MaxBatches /\ replayed \in 0 .. MaxBatches
  /\ InHand # {} => seq # 0
  /\ buffer \in Seq(Batches) /\ backlog_batch \in Messages
  /\ wire \in Seq(Messages) /\ \A k \in DOMAIN wire : wire[k] # <<>>

-----------------------------------------------------------------------------
(* Sequences.                                                                  *)

\* What joins a sequence at its end.
LEMMA SetOfAppend ==
  ASSUME NEW S, NEW s \in Seq(S), NEW x \in S
  PROVE  ToSet(Append(s, x)) = ToSet(s) \cup {x}
<1>1. /\ Append(s, x) \in Seq(S) /\ Len(Append(s, x)) = Len(s) + 1
      /\ \A i \in 1 .. Len(s) : Append(s, x)[i] = s[i]
      /\ Append(s, x)[Len(s) + 1] = x
  OBVIOUS
<1>2. ToSet(s) = {s[i] : i \in 1 .. Len(s)}
  BY DEF ToSet
<1>3. ToSet(Append(s, x)) = {Append(s, x)[i] : i \in 1 .. Len(s) + 1}
  BY <1>1 DEF ToSet
<1>4. 1 .. Len(s) + 1 = (1 .. Len(s)) \cup {Len(s) + 1}
  OBVIOUS
<1> QED
  BY <1>1, <1>2, <1>3, <1>4

\* What leaves a sequence at its head.
LEMMA SetOfTail ==
  ASSUME NEW S, NEW s \in Seq(S), s # <<>>
  PROVE  ToSet(s) = ToSet(Tail(s)) \cup {Head(s)}
<1>1. /\ Tail(s) \in Seq(S) /\ Len(Tail(s)) = Len(s) - 1 /\ Head(s) = s[1]
      /\ \A i \in 1 .. Len(s) - 1 : Tail(s)[i] = s[i + 1]
      /\ Len(s) \in Nat /\ Len(s) >= 1
  OBVIOUS
<1>2. ToSet(s) = {s[i] : i \in 1 .. Len(s)}
  BY DEF ToSet
<1>3. ToSet(Tail(s)) = {Tail(s)[i] : i \in 1 .. Len(s) - 1}
  <2>1. DOMAIN Tail(s) = 1 .. Len(s) - 1
    BY <1>1
  <2> QED
    BY <2>1 DEF ToSet
<1>4. ASSUME NEW i \in 1 .. Len(s), i # 1
      PROVE  i - 1 \in 1 .. Len(s) - 1 /\ (i - 1) + 1 = i
  BY <1>1, <1>4
<1>5. \A i \in 1 .. Len(s) - 1 : i + 1 \in 1 .. Len(s)
  BY <1>1
<1>6. 1 \in 1 .. Len(s)
  BY <1>1
<1>7. ASSUME NEW x \in ToSet(s) PROVE x \in ToSet(Tail(s)) \cup {Head(s)}
  <2>1. PICK i \in 1 .. Len(s) : x = s[i]
    BY <1>2, <1>7
  <2>2. CASE i = 1
    BY <1>1, <2>1, <2>2
  <2>3. CASE i # 1
    <3>1. i - 1 \in 1 .. Len(s) - 1 /\ (i - 1) + 1 = i
      BY <1>4, <2>3
    <3>2. Tail(s)[i - 1] = x
      BY <1>1, <2>1, <3>1
    <3> QED
      BY <1>3, <3>1, <3>2
  <2> QED
    BY <2>2, <2>3
<1>8. ToSet(Tail(s)) \subseteq ToSet(s)
  BY <1>1, <1>2, <1>3, <1>5
<1>9. Head(s) \in ToSet(s)
  BY <1>1, <1>2, <1>6
<1> QED
  BY <1>7, <1>8, <1>9

\* Points of the messages in a stream, when one joins it.
LEMMA PointsOfAppend ==
  ASSUME NEW w \in Seq(Messages), NEW m \in Messages
  PROVE  Points(Append(w, m)) = Points(w) \cup ToSet(m)
<1>1. ToSet(Append(w, m)) = ToSet(w) \cup {m}
  BY SetOfAppend
<1>2. ASSUME NEW v PROVE Points(v) = UNION {ToSet(n) : n \in ToSet(v)}
  BY DEF Points, ToSet
<1> QED
  BY <1>1, <1>2

\* And when the first of them arrives.
LEMMA PointsOfTail ==
  ASSUME NEW w \in Seq(Messages), w # <<>>
  PROVE  Points(w) = Points(Tail(w)) \cup ToSet(Head(w))
<1>1. ToSet(w) = ToSet(Tail(w)) \cup {Head(w)}
  BY SetOfTail
<1>2. ASSUME NEW v PROVE Points(v) = UNION {ToSet(n) : n \in ToSet(v)}
  BY DEF Points, ToSet
<1> QED
  BY <1>1, <1>2

-----------------------------------------------------------------------------
(* Types.                                                                      *)

\* A queue keeps its type when it is pushed to, popped or forgotten.
LEMMA QueueTypes ==
  ASSUME buffer \in Seq(Batches),
         \/ \E b \in Batches : buffer' = Append(buffer, b)
         \/ buffer # <<>> /\ buffer' = Tail(buffer)
         \/ buffer' = <<>> \/ buffer' = buffer
  PROVE  buffer' \in Seq(Batches)
<1>1. \A b \in Batches : Append(buffer, b) \in Seq(Batches)
  OBVIOUS
<1>2. buffer # <<>> => Tail(buffer) \in Seq(Batches)
  OBVIOUS
<1>3. <<>> \in Seq(Batches)
  OBVIOUS
<1> QED
  BY <1>1, <1>2, <1>3

\* A stream keeps its type when a message that is not empty joins, when the first
\* arrives and when it ends.
LEMMA WireTypes ==
  ASSUME wire \in Seq(Messages), \A k \in DOMAIN wire : wire[k] # <<>>,
         \/ \E m \in Messages : m # <<>> /\ wire' = Append(wire, m)
         \/ wire # <<>> /\ wire' = Tail(wire)
         \/ wire' = <<>> \/ wire' = wire
  PROVE  wire' \in Seq(Messages) /\ \A k \in DOMAIN wire' : wire'[k] # <<>>
<1>1. CASE wire' = <<>> \/ wire' = wire
  <2>1. DOMAIN <<>> = {} /\ <<>> \in Seq(Messages)
    OBVIOUS
  <2> QED
    BY <1>1, <2>1
<1>2. CASE wire # <<>> /\ wire' = Tail(wire)
  <2>1. /\ wire' \in Seq(Messages) /\ Len(wire') = Len(wire) - 1
        /\ \A k \in 1 .. Len(wire) - 1 : wire'[k] = wire[k + 1]
    BY <1>2
  <2>2. \A k \in 1 .. Len(wire) - 1 : k + 1 \in DOMAIN wire
    OBVIOUS
  <2> QED
    BY <2>1, <2>2
<1>3. ASSUME NEW m \in Messages, m # <<>>, wire' = Append(wire, m)
      PROVE  wire' \in Seq(Messages) /\ \A k \in DOMAIN wire' : wire'[k] # <<>>
  <2>1. /\ wire' \in Seq(Messages) /\ Len(wire') = Len(wire) + 1
        /\ \A k \in 1 .. Len(wire) : wire'[k] = wire[k]
        /\ wire'[Len(wire) + 1] = m
    BY <1>3
  <2> QED
    BY <1>3, <2>1
<1> QED
  BY <1>1, <1>2, <1>3

\* The batch in the loop's hands has a number.
LEMMA InHandIsBatch == Types => InHand \subseteq Batches
<1> SUFFICES ASSUME Types, NEW b \in InHand PROVE b \in Batches
  OBVIOUS
<1>1. b = seq
  BY DEF InHand
<1>2. seq # 0 /\ seq \in 0 .. MaxBatches
  BY DEF Types
<1>3. seq \in 1 .. MaxBatches
  BY <1>2, AgentAssumption
<1> QED
  BY <1>1, <1>3 DEF Batches

\* The steps that touch the buffer: whether they take the batch in hand or the head.
LEMMA BufferSteps ==
  ASSUME Types, Start \/ DrainEmpty \/ DrainNext \/ Save \/ Evict \/ SaveAgain
  PROVE  Types'
<1>s. phase \in {"save", "save again"} => seq \in Batches
  BY InHandIsBatch DEF InHand
<1>1. \/ \E b \in Batches : buffer' = Append(buffer, b)
      \/ buffer # <<>> /\ buffer' = Tail(buffer)
      \/ buffer' = <<>> \/ buffer' = buffer
  BY <1>s DEF Start, DrainEmpty, DrainNext, Save, Evict, SaveAgain, Buffer!Push,
     Buffer!Pop, Buffer!PopEmpty, Buffer!Refuse, Buffer!Forget, local
<1>2. buffer' \in Seq(Batches)
  BY <1>1, QueueTypes DEF Types
<1>3. seq' = seq /\ replayed' = replayed
  BY DEF Start, DrainEmpty, DrainNext, Save, Evict, SaveAgain, replay
<1>4. InHand' # {} => seq' # 0
  BY <1>3 DEF Types, InHand, Start, DrainEmpty, DrainNext, Save, Evict, SaveAgain
<1>5. CASE DrainNext
  <2>1. /\ Head(buffer) \in Batches
        /\ backlog_batch' = Append(backlog_batch, Head(buffer))
    BY <1>5 DEF Types, DrainNext, Buffer!Pop
  <2>2. backlog_batch' \in Messages /\ backlog_batch' # <<>>
    BY <2>1 DEF Types, Messages
  <2>3. wire' = Append(wire, backlog_batch') \/ wire' = wire
    BY <1>5 DEF DrainNext
  <2>4. wire' \in Seq(Messages) /\ \A k \in DOMAIN wire' : wire'[k] # <<>>
    BY <2>2, <2>3, WireTypes DEF Types
  <2> QED
    BY <1>2, <1>3, <1>4, <2>2, <2>4 DEF Types
<1>6. CASE ~DrainNext
  <2>1. backlog_batch' = backlog_batch /\ wire' = wire
    BY <1>6 DEF Start, DrainEmpty, Save, Evict, SaveAgain, replay
  <2> QED
    BY <1>2, <1>3, <1>4, <2>1 DEF Types
<1> QED
  BY <1>5, <1>6

\* The steps that touch the stream only.
LEMMA StreamSteps ==
  ASSUME Types, DrainFinish \/ Receive \/ CollectorDown \/ StreamBreaks \/ Kill
  PROVE  Types'
<1>1. (wire # <<>> /\ wire' = Tail(wire)) \/ wire' = <<>> \/ wire' = wire
  BY DEF DrainFinish, Receive, CollectorDown, StreamBreaks, Kill, StreamEnds
<1>2. wire' \in Seq(Messages) /\ \A k \in DOMAIN wire' : wire'[k] # <<>>
  BY <1>1, WireTypes DEF Types
<1>3. backlog_batch' \in Messages
  <2>1. backlog_batch' = backlog_batch \/ backlog_batch' = <<>>
    BY DEF DrainFinish, Receive, CollectorDown, StreamBreaks, Kill
  <2>2. <<>> \in Messages
    BY DEF Messages
  <2> QED
    BY <2>1, <2>2 DEF Types
<1>4. UNCHANGED <<seq, buffer>>
  BY DEF DrainFinish, Receive, CollectorDown, StreamBreaks, Kill, local
<1>5. InHand' # {} => seq' # 0
  BY <1>4 DEF Types, InHand, DrainFinish, Receive, CollectorDown, StreamBreaks, Kill
<1>6. replayed' \in 0 .. MaxBatches
  <2>1. CASE Receive
    <3>1. Head(wire) \in Messages /\ Head(wire) # <<>> /\ replayed' = Last(Head(wire))
      BY <2>1 DEF Types, Receive
    <3> DEFINE m == Head(wire)
    <3> HIDE DEF m
    <3>2. m \in Seq(Batches) /\ m # <<>> => m[Len(m)] \in Batches
      OBVIOUS
    <3>3. replayed' \in Batches
      BY <3>1, <3>2 DEF m, Last, Messages
    <3> QED
      BY <3>3, AgentAssumption DEF Batches
  <2>2. CASE ~Receive
    BY <2>2 DEF Types, DrainFinish, CollectorDown, StreamBreaks, Kill
  <2> QED
    BY <2>1, <2>2
<1> QED
  BY <1>2, <1>3, <1>4, <1>5, <1>6 DEF Types

\* All other steps move no batch; one of them numbers the next.
LEMMA OtherSteps ==
  ASSUME Types,
         \/ UNCHANGED vars
         \/ Connect \/ HealthCheck \/ StartOffline \/ Build \/ DrainBegin
         \/ Sent \/ SendFails \/ Exit \/ CollectorUp \/ Stop
  PROVE  /\ Types' /\ UNCHANGED <<buffer, wire, backlog_batch, replayed>>
         /\ seq' = seq \/ (Build /\ seq' = seq + 1)
<1>1. UNCHANGED <<buffer, wire, backlog_batch, replayed>>
  BY DEF Connect, HealthCheck, StartOffline, Build, DrainBegin, Sent, SendFails, Exit,
     CollectorUp, Stop, vars, local, replay
<1>2. seq' = seq \/ (Build /\ seq < MaxBatches /\ seq' = seq + 1)
  BY DEF Connect, HealthCheck, StartOffline, Build, DrainBegin, Sent, SendFails, Exit,
     CollectorUp, Stop, vars
<1>3. seq' \in 0 .. MaxBatches
  BY <1>2, AgentAssumption DEF Types
<1>4. InHand' # {} => seq' # 0
  <2>1. CASE Build
    BY <2>1, AgentAssumption DEF Build, Types
  <2>2. CASE ~Build
    BY <1>2, <2>2 DEF Types, InHand, Connect, HealthCheck, StartOffline, DrainBegin, Sent,
       SendFails, Exit, CollectorUp, Stop, vars
  <2> QED
    BY <2>1, <2>2
<1> QED
  BY <1>1, <1>2, <1>3, <1>4 DEF Types

\* The batches keep their numbers, and messages are never empty.
LEMMA TypesInductive == Spec => []Types
<1>1. Init => Types
  BY AgentAssumption DEF Init, Types, InHand, Messages, Buffer!Init
<1>2. Types /\ [Next]_vars => Types'
  BY BufferSteps, StreamSteps, OtherSteps DEF Next, Loop
<1> QED
  BY <1>1, <1>2, PTL DEF Spec

-----------------------------------------------------------------------------
(* Where a batch is.                                                           *)

Whereabouts ==
  InHand \cup ToSet(buffer) \cup Points(wire) \cup produced \cup lost

\* A batch that is pushed is in the buffer.
LEMMA Pushed ==
  ASSUME Types, NEW b \in Batches, Buffer!Push(b)
  PROVE  ToSet(buffer') = ToSet(buffer) \cup {b}
BY SetOfAppend DEF Types, Buffer!Push

\* One that is popped was its head.
LEMMA Popped ==
  ASSUME Types, Buffer!Pop
  PROVE  ToSet(buffer) = ToSet(buffer') \cup {Head(buffer)}
BY SetOfTail DEF Types, Buffer!Pop

\* A message that arrives was the first of the stream.
LEMMA Received ==
  ASSUME Types, wire # <<>>, wire' = Tail(wire)
  PROVE  Points(wire) = Points(wire') \cup ToSet(Head(wire))
BY PointsOfTail DEF Types

\* The batch that a drain pops goes into the stream, or is lost on record.
LEMMA DrainedIsSomewhere ==
  ASSUME Types, Types', DrainNext PROVE Whereabouts \subseteq Whereabouts'
<1>1. /\ buffer # <<>> /\ Head(buffer) \in Batches
      /\ backlog_batch' = Append(backlog_batch, Head(buffer))
  BY DEF Types, DrainNext, Buffer!Pop
<1>2. ToSet(buffer) = ToSet(buffer') \cup {Head(buffer)}
  BY Popped DEF DrainNext
<1>3. InHand' = InHand /\ produced' = produced
  BY DEF DrainNext, InHand
<1>4. CASE wire' = Append(wire, backlog_batch') /\ lost' = lost
  <2>1. Points(wire') = Points(wire) \cup ToSet(backlog_batch')
    <3>1. wire \in Seq(Messages) /\ backlog_batch' \in Messages
      BY DEF Types
    <3> QED
      BY <1>4, <3>1, PointsOfAppend
  <2>2. Head(buffer) \in ToSet(backlog_batch')
    BY <1>1, SetOfAppend DEF Types, Messages
  <2> QED
    BY <1>2, <1>3, <1>4, <2>1, <2>2 DEF Whereabouts
<1>5. CASE wire' = wire /\ lost' = lost \cup {Head(buffer)}
  BY <1>2, <1>3, <1>5 DEF Whereabouts
<1> QED
  BY <1>4, <1>5 DEF DrainNext

\* The batch in hand goes into the buffer, or it or the oldest is lost on record.
LEMMA SavedIsSomewhere ==
  ASSUME Types, Save \/ Evict \/ SaveAgain PROVE Whereabouts \subseteq Whereabouts'
<1>1. InHand = {seq} /\ seq \in Batches
  <2>1. InHand = {seq}
    BY DEF InHand, Save, Evict, SaveAgain
  <2> QED
    BY <2>1, InHandIsBatch
<1>2. wire' = wire /\ produced' = produced /\ lost \subseteq lost' /\ seq' = seq
  BY DEF Save, Evict, SaveAgain, replay
<1>3. CASE Buffer!Push(seq)
  BY <1>1, <1>2, <1>3, Pushed DEF Whereabouts
<1>4. CASE Save /\ phase' = "evict" /\ Buffer!Refuse(seq)
  <2>1. buffer' = buffer
    BY <1>4 DEF Buffer!Refuse
  <2>2. InHand' = InHand
    BY <1>1, <1>2, <1>4 DEF InHand
  <2> QED
    BY <1>2, <2>1, <2>2 DEF Whereabouts
<1>5. CASE SaveAgain /\ Buffer!Refuse(seq)
  BY <1>1, <1>2, <1>5 DEF Whereabouts, SaveAgain, Buffer!Refuse, Buffer!Push
<1>6. CASE Evict
  <2>1. InHand' = InHand
    BY <1>1, <1>2, <1>6 DEF InHand, Evict
  <2>2. CASE Buffer!Pop /\ lost' = lost \cup {Head(buffer)}
    BY <1>2, <2>1, <2>2, Popped DEF Whereabouts
  <2>3. CASE Buffer!PopEmpty
    BY <1>2, <2>1, <2>3 DEF Whereabouts, Buffer!PopEmpty
  <2> QED
    BY <1>6, <2>2, <2>3 DEF Evict
<1> QED
  BY <1>3, <1>4, <1>5, <1>6 DEF Save, SaveAgain

\* No step loses sight of a batch.
LEMMA NothingOutOfSight ==
  ASSUME Types, Types', [Next]_vars PROVE Whereabouts \subseteq Whereabouts'
<1>1. CASE DrainNext
  BY <1>1, DrainedIsSomewhere
<1>2. CASE Save \/ Evict \/ SaveAgain
  BY <1>2, SavedIsSomewhere
<1>3. CASE Start
  BY <1>3 DEF Whereabouts, InHand, Start, Buffer!Forget, local, replay
<1>4. CASE Receive
  <2>1. Points(wire) = Points(wire') \cup ToSet(Head(wire))
    BY <1>4, Received DEF Receive
  <2> QED
    BY <1>4, <2>1 DEF Whereabouts, InHand, Receive, local
<1>5. CASE CollectorDown \/ StreamBreaks
  BY <1>5 DEF Whereabouts, InHand, CollectorDown, StreamBreaks, StreamEnds, local
<1>6. CASE Kill
  BY <1>6 DEF Whereabouts, Kill, local
<1>7. CASE Sent
  BY <1>7 DEF Whereabouts, InHand, Sent, local, replay
<1>8. CASE SendFails
  BY <1>8 DEF Whereabouts, InHand, SendFails, local, replay
<1>9. CASE \/ UNCHANGED vars
           \/ Connect \/ HealthCheck \/ StartOffline \/ Build \/ DrainBegin \/ DrainEmpty
           \/ DrainFinish \/ Exit \/ CollectorUp \/ Stop
  <2>1. UNCHANGED <<buffer, wire, produced, lost>> /\ InHand \subseteq InHand'
    BY <1>9 DEF InHand, Connect, HealthCheck, StartOffline, Build, DrainBegin, DrainEmpty,
       DrainFinish, Exit, CollectorUp, Stop, vars, local, replay, Buffer!PopEmpty
  <2> QED
    BY <2>1 DEF Whereabouts
<1> QED
  BY <1>1, <1>2, <1>3, <1>4, <1>5, <1>6, <1>7, <1>8, <1>9 DEF Next, Loop

\* No batch disappears without a cause, whatever breaks, is stopped or killed, and
\* however long the agent runs: it is in hand, in the buffer, in the stream or in the
\* topic, or its loss is on record.
THEOREM NoneDisappears == Spec => []Accounted
<1>1. Init => Accounted
  BY DEF Init, Accounted
<1>2. Types /\ Types' /\ Accounted /\ [Next]_vars => Accounted'
  <2> SUFFICES ASSUME Types, Types', Accounted, [Next]_vars, NEW b \in 1 .. seq'
               PROVE  b \in Whereabouts'
    BY DEF Accounted, Whereabouts
  <2>1. Whereabouts \subseteq Whereabouts'
    BY NothingOutOfSight
  <2>2. 1 .. seq \subseteq Whereabouts
    BY DEF Accounted, Whereabouts
  <2>3. CASE Build /\ b = seq'
    BY <2>3 DEF Build, Whereabouts, InHand
  <2>4. CASE ~(Build /\ b = seq')
    <3>1. seq' = seq \/ (Build /\ seq' = seq + 1)
      BY OtherSteps DEF Next, Loop, Start, DrainEmpty, DrainNext, Save, Evict, SaveAgain,
         DrainFinish, Receive, CollectorDown, StreamBreaks, Kill
    <3>2. b \in 1 .. seq
      BY <2>4, <3>1 DEF Types
    <3> QED
      BY <2>1, <2>2, <3>2
  <2> QED
    BY <2>3, <2>4
<1> QED
  BY <1>1, <1>2, TypesInductive, PTL DEF Spec

-----------------------------------------------------------------------------
(* The order of the backlog.                                                   *)

\* From the last batch that arrived, over the newest batch of each message under way,
\* to the batches in the buffer and the one in hand, the numbers never fall.
OrderInv ==
  /\ replayed <= seq
  /\ \A i \in DOMAIN buffer : replayed <= buffer[i] /\ buffer[i] <= seq
  /\ \A i, j \in DOMAIN buffer : i <= j => buffer[i] <= buffer[j]
  /\ \A k \in DOMAIN wire : replayed <= Last(wire[k]) /\ Last(wire[k]) <= seq
  /\ \A k, l \in DOMAIN wire : k <= l => Last(wire[k]) <= Last(wire[l])
  /\ \A k \in DOMAIN wire, i \in DOMAIN buffer : Last(wire[k]) <= buffer[i]

\* The newest batch of a message is a batch.
LEMMA NewestIsBatch ==
  ASSUME NEW m \in Messages, m # <<>> PROVE Last(m) \in Batches
BY DEF Last, Messages

\* The places of a sequence after its head has left.
LEMMA TailPlaces ==
  ASSUME NEW S, NEW s \in Seq(S), s # <<>>
  PROVE  \A i \in DOMAIN Tail(s) :
           i \in Nat /\ i + 1 \in DOMAIN s /\ Tail(s)[i] = s[i + 1]
<1>1. /\ Len(Tail(s)) = Len(s) - 1 /\ Tail(s) \in Seq(S) /\ Len(s) \in Nat
      /\ \A i \in 1 .. Len(s) - 1 : Tail(s)[i] = s[i + 1]
  OBVIOUS
<1>2. DOMAIN Tail(s) = 1 .. Len(s) - 1
  BY <1>1
<1>3. DOMAIN s = 1 .. Len(s)
  OBVIOUS
<1> DEFINE n == Len(s)
<1> HIDE DEF n
<1>4. \A i \in 1 .. n - 1 : n \in Nat => i \in Nat /\ i + 1 \in 1 .. n
  OBVIOUS
<1> QED
  BY <1>1, <1>2, <1>3, <1>4 DEF n

\* And after something has joined it at its end.
LEMMA AppendPlaces ==
  ASSUME NEW S, NEW s \in Seq(S), NEW x \in S
  PROVE  \A i \in DOMAIN Append(s, x) :
           \/ i \in DOMAIN s /\ Append(s, x)[i] = s[i]
           \/ /\ i \notin DOMAIN s /\ Append(s, x)[i] = x
              /\ \A j \in DOMAIN s : ~ i <= j
<1>1. /\ Len(Append(s, x)) = Len(s) + 1 /\ Append(s, x) \in Seq(S) /\ Len(s) \in Nat
      /\ \A i \in 1 .. Len(s) : Append(s, x)[i] = s[i]
      /\ Append(s, x)[Len(s) + 1] = x
  OBVIOUS
<1>2. DOMAIN Append(s, x) = 1 .. Len(s) + 1
  BY <1>1
<1>3. DOMAIN s = 1 .. Len(s)
  OBVIOUS
<1> DEFINE n == Len(s)
<1> HIDE DEF n
<1>4. n \in Nat => \A i \in 1 .. n + 1 :
        i \in 1 .. n \/ (i = n + 1 /\ i \notin 1 .. n /\ \A j \in 1 .. n : ~ i <= j)
  OBVIOUS
<1> QED
  BY <1>1, <1>2, <1>3, <1>4 DEF n

\* The numbers of the batches that the order speaks of.
LEMMA OrderTypes ==
  ASSUME Types
  PROVE  /\ buffer \in Seq(Batches) /\ seq \in Nat /\ replayed \in Nat
         /\ \A i \in DOMAIN buffer : buffer[i] \in Nat
         /\ \A k \in DOMAIN wire : Last(wire[k]) \in Nat
<1>1. \A b \in Batches : b \in Nat
  BY AgentAssumption DEF Batches
<1>2. \A k \in DOMAIN wire : Last(wire[k]) \in Batches
  BY NewestIsBatch DEF Types
<1> QED
  BY <1>1, <1>2, AgentAssumption DEF Types

\* The same after a step.
LEMMA NextOrderTypes ==
  ASSUME Types'
  PROVE  /\ replayed' \in Nat
         /\ \A i \in DOMAIN buffer' : buffer'[i] \in Nat
         /\ \A k \in DOMAIN wire' : Last(wire'[k]) \in Nat
<1>1. \A b \in Batches : b \in Nat
  BY AgentAssumption DEF Batches
<1>2. \A k \in DOMAIN wire' : Last(wire'[k]) \in Batches
  BY NewestIsBatch DEF Types
<1> QED
  BY <1>1, <1>2, AgentAssumption DEF Types

\* A batch that joins the buffer at its end, or leaves it at its head, keeps the order
\* among what remains.
LEMMA BufferKeepsOrder ==
  ASSUME Types, Types', OrderInv, UNCHANGED <<replayed, seq, wire>>,
         \/ seq \in Batches /\ buffer' = Append(buffer, seq)
         \/ buffer # <<>> /\ buffer' = Tail(buffer)
         \/ buffer' = <<>> \/ buffer' = buffer
  PROVE  OrderInv'
<1>t. /\ buffer \in Seq(Batches) /\ seq \in Nat /\ replayed \in Nat
      /\ \A i \in DOMAIN buffer : buffer[i] \in Nat
      /\ \A k \in DOMAIN wire : Last(wire[k]) \in Nat
  BY OrderTypes
<1>1. CASE buffer' = <<>> \/ buffer' = buffer
  <2>1. DOMAIN <<>> = {}
    OBVIOUS
  <2> QED
    BY <1>1, <2>1 DEF OrderInv
<1>2. CASE buffer # <<>> /\ buffer' = Tail(buffer)
  <2>1. \A i \in DOMAIN buffer' :
          i \in Nat /\ i + 1 \in DOMAIN buffer /\ buffer'[i] = buffer[i + 1]
    BY <1>2, <1>t, TailPlaces
  <2>2. \A i, j \in DOMAIN buffer' : i <= j => i + 1 <= j + 1
    BY <2>1
  <2> QED
    BY <1>2, <2>1, <2>2 DEF OrderInv
<1>3. CASE seq \in Batches /\ buffer' = Append(buffer, seq)
  <2>1. \A i \in DOMAIN buffer' :
          \/ i \in DOMAIN buffer /\ buffer'[i] = buffer[i]
          \/ /\ i \notin DOMAIN buffer /\ buffer'[i] = seq
             /\ \A j \in DOMAIN buffer : ~ i <= j
    BY <1>3, <1>t, AppendPlaces
  <2>2. \A i \in DOMAIN buffer' : replayed <= buffer'[i] /\ buffer'[i] <= seq
    BY <1>t, <2>1 DEF OrderInv
  <2>3. ASSUME NEW i \in DOMAIN buffer', NEW j \in DOMAIN buffer', i <= j
        PROVE  buffer'[i] <= buffer'[j]
    <3>1. CASE j \in DOMAIN buffer
      BY <2>1, <2>3, <3>1 DEF OrderInv
    <3>2. CASE j \notin DOMAIN buffer
      BY <2>1, <2>2, <3>2
    <3> QED
      BY <3>1, <3>2
  <2>4. \A k \in DOMAIN wire, i \in DOMAIN buffer' : Last(wire[k]) <= buffer'[i]
    BY <2>1 DEF OrderInv
  <2>5. replayed <= seq /\ wire' = wire /\ UNCHANGED <<replayed, seq>>
    BY DEF OrderInv
  <2> QED
    BY <2>2, <2>3, <2>4, <2>5 DEF OrderInv
<1> QED
  BY <1>1, <1>2, <1>3

\* The newest batch of the message that a drain writes was the head of the buffer.
LEMMA DrainKeepsOrder ==
  ASSUME Types, Types', OrderInv, DrainNext PROVE OrderInv'
<1>1. /\ buffer # <<>> /\ buffer' = Tail(buffer) /\ UNCHANGED <<replayed, seq>>
      /\ backlog_batch' = Append(backlog_batch, Head(buffer))
      /\ wire' = Append(wire, backlog_batch') \/ wire' = wire
  BY DEF DrainNext, Buffer!Pop
<1>2. CASE wire' = wire
  BY <1>1, <1>2, BufferKeepsOrder
<1>3. CASE wire' = Append(wire, backlog_batch')
  <2>t. /\ buffer \in Seq(Batches) /\ seq \in Nat /\ replayed \in Nat
        /\ \A i \in DOMAIN buffer : buffer[i] \in Nat
        /\ wire \in Seq(Messages) /\ backlog_batch' \in Messages
    BY OrderTypes DEF Types
  <2> DEFINE new == backlog_batch'
             h == Head(buffer)
  <2>1. 1 \in DOMAIN buffer /\ h = buffer[1]
    BY <1>1, <2>t
  <2>2. Last(new) = h
    <3>1. h \in Batches /\ backlog_batch \in Seq(Batches)
      BY <1>1 DEF Types, Messages
    <3> HIDE DEF h
    <3>2. /\ Len(Append(backlog_batch, h)) = Len(backlog_batch) + 1
          /\ Append(backlog_batch, h)[Len(backlog_batch) + 1] = h
      BY <3>1
    <3> QED
      BY <1>1, <3>2 DEF Last, h
  <2>3. \A i \in DOMAIN buffer' :
          i \in Nat /\ i + 1 \in DOMAIN buffer /\ buffer'[i] = buffer[i + 1]
    BY <1>1, <2>t, TailPlaces
  <2>4. \A i, j \in DOMAIN buffer' : i <= j => i + 1 <= j + 1
    BY <2>3
  <2>5. \A i \in DOMAIN buffer' : h <= buffer'[i]
    <3>1. \A i \in DOMAIN buffer : 1 <= i
      BY <2>t
    <3> QED
      BY <2>1, <2>3, <3>1 DEF OrderInv
  <2>6. \A k \in DOMAIN wire' :
          \/ k \in DOMAIN wire /\ wire'[k] = wire[k]
          \/ /\ k \notin DOMAIN wire /\ wire'[k] = new
             /\ \A l \in DOMAIN wire : ~ k <= l
    BY <1>3, <2>t, AppendPlaces
  <2> HIDE DEF new, h
  <2>7. \A k \in DOMAIN wire : replayed <= Last(wire[k]) /\ Last(wire[k]) <= h
    BY <2>1 DEF OrderInv
  <2>8. replayed <= h /\ h <= seq /\ h \in Nat
    BY <2>1, <2>t DEF OrderInv
  <2>9. \A k \in DOMAIN wire' : replayed <= Last(wire'[k]) /\ Last(wire'[k]) <= h
    BY <2>2, <2>6, <2>7, <2>8
  <2>10. \A k, l \in DOMAIN wire' : k <= l => Last(wire'[k]) <= Last(wire'[l])
    <3> SUFFICES ASSUME NEW k \in DOMAIN wire', NEW l \in DOMAIN wire', k <= l
                 PROVE  Last(wire'[k]) <= Last(wire'[l])
      OBVIOUS
    <3>1. CASE l \in DOMAIN wire
      BY <2>6, <3>1 DEF OrderInv
    <3>2. CASE l \notin DOMAIN wire
      BY <2>2, <2>6, <2>9, <3>2
    <3> QED
      BY <3>1, <3>2
  <2>11. \A k \in DOMAIN wire' : Last(wire'[k]) \in Nat
    BY NextOrderTypes
  <2>12. \A i \in DOMAIN buffer' : buffer'[i] \in Nat
    BY NextOrderTypes
  <2>13. \A k \in DOMAIN wire', i \in DOMAIN buffer' : Last(wire'[k]) <= buffer'[i]
    BY <2>5, <2>8, <2>9, <2>11, <2>12
  <2>14. \A k \in DOMAIN wire' : Last(wire'[k]) <= seq
    BY <2>8, <2>9, <2>11, <2>t
  <2>15. /\ \A i \in DOMAIN buffer' : replayed <= buffer'[i] /\ buffer'[i] <= seq
         /\ \A i, j \in DOMAIN buffer' : i <= j => buffer'[i] <= buffer'[j]
    BY <2>3, <2>4 DEF OrderInv
  <2> QED
    BY <1>1, <2>9, <2>10, <2>13, <2>14, <2>15 DEF OrderInv
<1> QED
  BY <1>1, <1>2, <1>3

\* The message that arrives has the oldest of the batches that are still to come.
LEMMA ReceiveKeepsOrder ==
  ASSUME Types, Types', OrderInv, Receive PROVE OrderInv' /\ replayed <= replayed'
<1>t. wire \in Seq(Messages) /\ replayed \in Nat
  BY OrderTypes DEF Types
<1>1. /\ wire # <<>> /\ wire' = Tail(wire) /\ replayed' = Last(Head(wire))
      /\ UNCHANGED <<seq, buffer>>
  BY DEF Receive, local
<1>2. 1 \in DOMAIN wire /\ Head(wire) = wire[1]
  BY <1>1, <1>t
<1>3. \A k \in DOMAIN wire : 1 <= k
  BY <1>t
<1>4. \A k \in DOMAIN wire' :
        k \in Nat /\ k + 1 \in DOMAIN wire /\ wire'[k] = wire[k + 1]
  BY <1>1, <1>t, TailPlaces
<1>5. \A k, l \in DOMAIN wire' : k <= l => k + 1 <= l + 1
  BY <1>4
<1>6. replayed' = Last(wire[1])
  BY <1>1, <1>2
<1>7. /\ replayed <= replayed' /\ replayed' <= seq
      /\ \A i \in DOMAIN buffer : replayed' <= buffer[i]
      /\ \A k \in DOMAIN wire : replayed' <= Last(wire[k])
  BY <1>2, <1>3, <1>6 DEF OrderInv
<1>8. /\ \A k \in DOMAIN wire' : replayed' <= Last(wire'[k]) /\ Last(wire'[k]) <= seq
      /\ \A k, l \in DOMAIN wire' : k <= l => Last(wire'[k]) <= Last(wire'[l])
      /\ \A k \in DOMAIN wire', i \in DOMAIN buffer : Last(wire'[k]) <= buffer[i]
  BY <1>4, <1>5, <1>7 DEF OrderInv
<1> QED
  BY <1>1, <1>7, <1>8 DEF OrderInv

\* Every step keeps the order, and none takes back what has arrived.
LEMMA StepKeepsOrder ==
  ASSUME Types, Types', OrderInv, [Next]_vars
  PROVE  OrderInv' /\ replayed <= replayed'
<1>t. /\ replayed \in Nat /\ seq \in Nat
      /\ \A i \in DOMAIN buffer : buffer[i] \in Nat
      /\ \A k \in DOMAIN wire : Last(wire[k]) \in Nat
  BY OrderTypes
<1>1. CASE DrainNext
  <2>1. replayed' = replayed
    BY <1>1 DEF DrainNext
  <2> QED
    BY <1>1, <1>t, <2>1, DrainKeepsOrder
<1>2. CASE Receive
  BY <1>2, ReceiveKeepsOrder
<1>3. CASE Start \/ DrainEmpty \/ Save \/ Evict \/ SaveAgain
  <2>1. UNCHANGED <<replayed, seq, wire>>
    BY <1>3 DEF Start, DrainEmpty, Save, Evict, SaveAgain, replay
  <2>2. phase \in {"save", "save again"} => seq \in Batches
    BY InHandIsBatch DEF InHand
  <2>3. \/ seq \in Batches /\ buffer' = Append(buffer, seq)
        \/ buffer # <<>> /\ buffer' = Tail(buffer)
        \/ buffer' = <<>> \/ buffer' = buffer
    BY <1>3, <2>2 DEF Start, DrainEmpty, Save, Evict, SaveAgain, Buffer!Push,
       Buffer!Pop, Buffer!PopEmpty, Buffer!Refuse, Buffer!Forget, local
  <2> QED
    BY <1>t, <2>1, <2>3, BufferKeepsOrder
<1>4. CASE DrainFinish \/ CollectorDown \/ StreamBreaks \/ Kill
  <2>1. UNCHANGED <<replayed, seq, buffer>> /\ (wire' = wire \/ wire' = <<>>)
    BY <1>4 DEF DrainFinish, CollectorDown, StreamBreaks, StreamEnds, Kill, local
  <2>2. DOMAIN <<>> = {}
    OBVIOUS
  <2> QED
    BY <1>t, <2>1, <2>2 DEF OrderInv
<1>5. CASE \/ UNCHANGED vars
           \/ Connect \/ HealthCheck \/ StartOffline \/ Build \/ DrainBegin
           \/ Sent \/ SendFails \/ Exit \/ CollectorUp \/ Stop
  <2>1. /\ UNCHANGED <<buffer, wire, replayed>>
        /\ seq' = seq \/ seq' = seq + 1
    BY <1>5, OtherSteps
  <2>2. \A n \in Nat : n <= seq => n <= seq'
    BY <1>t, <2>1
  <2>3. /\ replayed <= seq'
        /\ \A i \in DOMAIN buffer : buffer[i] <= seq'
        /\ \A k \in DOMAIN wire : Last(wire[k]) <= seq'
    BY <1>t, <2>2 DEF OrderInv
  <2> QED
    BY <1>t, <2>1, <2>3 DEF OrderInv
<1> QED
  BY <1>1, <1>2, <1>3, <1>4, <1>5 DEF Next, Loop

\* The backlog reaches the collector in the order in which it was built, across any
\* number of failed drains, evictions and restarts.
THEOREM BacklogStaysInOrder == Spec => BacklogInOrder
<1>1. Init => OrderInv
  <2>1. DOMAIN <<>> = {}
    OBVIOUS
  <2> QED
    BY <2>1 DEF Init, OrderInv, Buffer!Init
<1>2. Types /\ Types' /\ OrderInv /\ [Next]_vars
        => OrderInv' /\ [replayed' >= replayed]_vars
  <2> SUFFICES ASSUME Types, Types', OrderInv, [Next]_vars
               PROVE  OrderInv' /\ replayed' >= replayed
    OBVIOUS
  <2>1. replayed \in Nat /\ replayed' \in Nat
    BY OrderTypes, NextOrderTypes
  <2> QED
    BY <2>1, StepKeepsOrder
<1> QED
  BY <1>1, <1>2, TypesInductive, PTL DEF Spec, BacklogInOrder

-----------------------------------------------------------------------------
(* What the buffer counts as used: the sizes of its batches, added up.  The sum *)
(* is stated by the partial sums t, since no recursive definition of it could   *)
(* be reasoned about here.                                                      *)

PartialSums(t, q) ==
  /\ t \in [0 .. Len(q) -> Nat] /\ t[0] = 0
  /\ \A i \in 1 .. Len(q) : t[i] = t[i - 1] + EntrySize[q[i]]
  /\ \A i, j \in 0 .. Len(q) : i <= j => t[i] <= t[j]

Adds(q, n) == \E t : PartialSums(t, q) /\ n = t[Len(q)]

\* The sizes of no batches.
LEMMA NothingAddsToZero == Adds(<<>>, 0)
<1> DEFINE t == [i \in 0 .. 0 |-> 0]
<1>1. PartialSums(t, <<>>)
  BY DEF PartialSums
<1>2. t[Len(<<>>)] = 0
  OBVIOUS
<1> QED
  BY <1>1, <1>2 DEF Adds

\* A batch that joins adds its size.
LEMMA AppendAdds ==
  ASSUME NEW q \in Seq(Batches), NEW b \in Batches, NEW n, Adds(q, n)
  PROVE  Adds(Append(q, b), n + EntrySize[b]) /\ n \in Nat
<1>1. PICK t : PartialSums(t, q) /\ n = t[Len(q)]
  BY DEF Adds
<1> DEFINE m == Len(q)
           size == EntrySize[b]
           r == Append(q, b)
           u == [i \in 0 .. m + 1 |-> IF i = m + 1 THEN n + size ELSE t[i]]
<1>2. /\ Len(r) = m + 1 /\ r[m + 1] = b /\ m \in Nat /\ size \in Nat
      /\ \A i \in 1 .. m : r[i] = q[i]
  BY AgentAssumption
<1>3. /\ t \in [0 .. m -> Nat] /\ t[0] = 0 /\ n = t[m]
      /\ \A i \in 1 .. m : t[i] = t[i - 1] + EntrySize[q[i]]
      /\ \A i, j \in 0 .. m : i <= j => t[i] <= t[j]
  BY <1>1 DEF PartialSums
<1> HIDE DEF r, m, size
<1>4. n \in Nat
  BY <1>2, <1>3
<1>5. u \in [0 .. m + 1 -> Nat] /\ u[0] = 0 /\ u[m + 1] = n + size
  BY <1>2, <1>3, <1>4
<1>6. \A i \in 0 .. m : u[i] = t[i]
  BY <1>2
<1>7. ASSUME NEW i \in 1 .. m + 1 PROVE u[i] = u[i - 1] + EntrySize[r[i]]
  <2>1. CASE i = m + 1
    <3>1. i - 1 = m /\ m \in 0 .. m
      BY <1>2, <2>1
    <3>2. u[i - 1] = n
      BY <1>3, <1>6, <3>1
    <3> QED
      BY <1>2, <1>5, <2>1, <3>2 DEF size
  <2>2. CASE i # m + 1
    <3>1. i \in 1 .. m /\ i \in 0 .. m /\ i - 1 \in 0 .. m
      BY <1>2, <2>2
    <3> QED
      BY <1>2, <1>3, <1>6, <3>1
  <2> QED
    BY <2>1, <2>2
<1>8. ASSUME NEW i \in 0 .. m + 1, NEW j \in 0 .. m + 1, i <= j PROVE u[i] <= u[j]
  <2>1. CASE j # m + 1
    <3>1. i \in 0 .. m /\ j \in 0 .. m
      BY <1>2, <1>8, <2>1
    <3> QED
      BY <1>3, <1>6, <1>8, <3>1
  <2>2. CASE j = m + 1 /\ i # m + 1
    <3>1. i \in 0 .. m /\ m \in 0 .. m /\ i <= m
      BY <1>2, <2>2
    <3>2. u[i] <= n /\ u[i] \in Nat
      BY <1>3, <1>6, <3>1
    <3> QED
      BY <1>2, <1>4, <1>5, <2>2, <3>2
  <2>3. CASE i = j
    BY <1>2, <1>4, <1>5, <2>3
  <2> QED
    BY <2>1, <2>2, <2>3
<1> HIDE DEF u
<1>9. PartialSums(u, r)
  BY <1>2, <1>5, <1>7, <1>8 DEF PartialSums
<1>10. Adds(r, n + size)
  BY <1>2, <1>5, <1>9 DEF Adds
<1> QED
  BY <1>4, <1>10 DEF r, size

\* One that leaves takes its size away, which had been added.
LEMMA TailAdds ==
  ASSUME NEW q \in Seq(Batches), q # <<>>, NEW n, Adds(q, n)
  PROVE  /\ Adds(Tail(q), n - EntrySize[Head(q)])
         /\ n \in Nat /\ n - EntrySize[Head(q)] \in Nat /\ n - EntrySize[Head(q)] <= n
<1>1. PICK t : PartialSums(t, q) /\ n = t[Len(q)]
  BY DEF Adds
<1> DEFINE m == Len(q) - 1
           size == EntrySize[Head(q)]
           r == Tail(q)
           u == [i \in 0 .. m |-> t[i + 1] - size]
<1>2. /\ Len(r) = m /\ m \in Nat /\ Len(q) = m + 1 /\ size \in Nat /\ Head(q) = q[1]
      /\ \A i \in 1 .. m : r[i] = q[i + 1]
  <2>1. Len(q) \in Nat /\ Len(q) # 0 /\ Head(q) = q[1] /\ Head(q) \in Batches
    OBVIOUS
  <2> QED
    BY <2>1, AgentAssumption
<1>3. /\ t \in [0 .. m + 1 -> Nat] /\ t[0] = 0 /\ n = t[m + 1]
      /\ \A i \in 1 .. m + 1 : t[i] = t[i - 1] + EntrySize[q[i]]
      /\ \A i, j \in 0 .. m + 1 : i <= j => t[i] <= t[j]
  BY <1>1, <1>2 DEF PartialSums
<1>4. t[1] = size
  <2>1. 1 \in 1 .. m + 1 /\ 1 - 1 = 0
    BY <1>2
  <2>2. t[1] = t[0] + EntrySize[q[1]]
    BY <1>3, <2>1
  <2> QED
    BY <1>2, <1>3, <2>2
<1> HIDE DEF r, m, size
<1>5. \A i \in 0 .. m : i + 1 \in 0 .. m + 1 /\ t[i + 1] \in Nat /\ t[i + 1] >= size
  <2> SUFFICES ASSUME NEW i \in 0 .. m
               PROVE  i + 1 \in 0 .. m + 1 /\ t[i + 1] \in Nat /\ t[i + 1] >= size
    OBVIOUS
  <2>1. i + 1 \in 0 .. m + 1 /\ 1 \in 0 .. m + 1 /\ 1 <= i + 1
    BY <1>2
  <2>2. t[1] <= t[i + 1] /\ t[i + 1] \in Nat
    BY <1>3, <2>1
  <2> QED
    BY <1>2, <1>4, <2>1, <2>2
<1>6. u \in [0 .. m -> Nat] /\ \A i \in 0 .. m : u[i] = t[i + 1] - size
  BY <1>2, <1>5
<1> HIDE DEF u
<1>7. u[0] = 0 /\ u[m] = n - size /\ n \in Nat /\ n >= size
  <2>1. 0 \in 0 .. m /\ m \in 0 .. m
    BY <1>2
  <2> QED
    BY <1>2, <1>3, <1>4, <1>5, <1>6, <2>1
<1>8. ASSUME NEW i \in 1 .. m PROVE u[i] = u[i - 1] + EntrySize[r[i]]
  <2>1. i \in 0 .. m /\ i - 1 \in 0 .. m /\ i + 1 \in 1 .. m + 1
        /\ (i - 1) + 1 = i /\ (i + 1) - 1 = i
    BY <1>2
  <2>2. t[i + 1] = t[i] + EntrySize[r[i]]
    BY <1>2, <1>3, <2>1
  <2>3. EntrySize[r[i]] \in Nat /\ t[i] \in Nat
    <3>1. r[i] \in Batches
      BY <1>2 DEF r
    <3>2. t[i] \in Nat
      BY <1>5, <2>1
    <3> QED
      BY <3>1, <3>2, AgentAssumption
  <2>4. u[i] = t[i + 1] - size /\ u[i - 1] = t[i] - size
    BY <1>6, <2>1
  <2> QED
    BY <1>2, <2>2, <2>3, <2>4
<1>9. ASSUME NEW i \in 0 .. m, NEW j \in 0 .. m, i <= j PROVE u[i] <= u[j]
  <2>1. i + 1 \in 0 .. m + 1 /\ j + 1 \in 0 .. m + 1 /\ i + 1 <= j + 1
    BY <1>2, <1>9
  <2>2. t[i + 1] <= t[j + 1] /\ t[i + 1] \in Nat /\ t[j + 1] \in Nat
    BY <1>3, <2>1
  <2>3. u[i] = t[i + 1] - size /\ u[j] = t[j + 1] - size
    BY <1>6
  <2> QED
    BY <1>2, <2>2, <2>3
<1>10. PartialSums(u, r)
  BY <1>2, <1>6, <1>7, <1>8, <1>9 DEF PartialSums
<1>11. Adds(r, n - size)
  BY <1>2, <1>7, <1>10 DEF Adds
<1> QED
  BY <1>2, <1>7, <1>11 DEF r, size

\* The bytes in use stay within the capacity: a pop takes away what its push added.
LEMMA BytesInductive == Spec => [](Adds(buffer, used) /\ used \in 0 .. Capacity)
<1> DEFINE Bytes == Adds(buffer, used) /\ used \in 0 .. Capacity
<1>1. Init => Bytes
  BY NothingAddsToZero, AgentAssumption DEF Init, Buffer!Init
<1>2. Types /\ Bytes /\ [Next]_vars => Bytes'
  <2> SUFFICES ASSUME Types, Bytes, [Next]_vars PROVE Bytes'
    OBVIOUS
  <2>1. CASE UNCHANGED <<buffer, used>>
    BY <2>1
  <2>2. ASSUME NEW b \in Batches, Buffer!Push(b) PROVE Bytes'
    <3>1. /\ buffer' = Append(buffer, b) /\ used' = used + EntrySize[b]
          /\ used + EntrySize[b] <= Capacity
      BY <2>2 DEF Buffer!Push, Buffer!Fits
    <3>2. Adds(buffer', used')
      BY <3>1, AppendAdds DEF Types
    <3>3. EntrySize[b] \in Nat
      BY AgentAssumption
    <3> QED
      BY <3>1, <3>2, <3>3, AgentAssumption
  <2>3. ASSUME Buffer!Pop PROVE Bytes'
    <3>1. buffer # <<>> /\ buffer' = Tail(buffer)
          /\ used' = used - EntrySize[Head(buffer)]
      BY <2>3 DEF Buffer!Pop
    <3>2. Adds(buffer', used') /\ used' \in Nat /\ used' <= used
      BY <3>1, TailAdds DEF Types
    <3> QED
      BY <3>2, AgentAssumption
  <2>4. ASSUME Buffer!Forget PROVE Bytes'
    BY <2>4, NothingAddsToZero, AgentAssumption DEF Buffer!Forget
  <2>5. phase \in {"save", "save again"} => seq \in Batches
    BY InHandIsBatch DEF InHand
  <2>6. CASE Start \/ DrainEmpty \/ DrainNext \/ Save \/ Evict \/ SaveAgain
    <3>1. \/ \E b \in Batches : Buffer!Push(b)
          \/ Buffer!Pop \/ Buffer!Forget \/ UNCHANGED <<buffer, used>>
      BY <2>5, <2>6 DEF Start, DrainEmpty, DrainNext, Save, Evict, SaveAgain, local,
         Buffer!PopEmpty, Buffer!Refuse
    <3> QED
      BY <2>1, <2>2, <2>3, <2>4, <3>1
  <2>7. CASE \/ UNCHANGED vars \/ Connect \/ HealthCheck \/ StartOffline \/ Build
             \/ DrainBegin \/ DrainFinish \/ Sent \/ SendFails \/ Exit \/ Receive
             \/ CollectorDown \/ CollectorUp \/ StreamBreaks \/ Stop \/ Kill
    <3>1. UNCHANGED <<buffer, used>>
      BY <2>7 DEF Connect, HealthCheck, StartOffline, Build, DrainBegin, DrainFinish,
         Sent, SendFails, Exit, Receive, CollectorDown, CollectorUp, StreamBreaks, Stop,
         Kill, vars, local
    <3> QED
      BY <2>1, <3>1
  <2> QED
    BY <2>6, <2>7 DEF Next, Loop
<1> QED
  BY <1>1, <1>2, TypesInductive, PTL DEF Spec

-----------------------------------------------------------------------------
(* Where the loop is, and what it has built.                                   *)

LoopTypes ==
  /\ phase \in Phases /\ running \in BOOLEAN
  /\ tries \in 0 .. MaxTries /\ (phase = "health" => tries < MaxTries)
  /\ channel_ \in BOOLEAN /\ stub_ \in BOOLEAN /\ collector_connected \in BOOLEAN
  /\ stream \in {"none", "open", "broken"}
  /\ stream # "none" => phase \in {"draining", "finish"}
  /\ up \in BOOLEAN /\ faults \in 0 .. MaxFaults

\* The connection loop counts to its limit.
LEMMA TriesCount ==
  0 \in 0 .. MaxTries /\ \A i \in 0 .. MaxTries : i < MaxTries => i + 1 \in 0 .. MaxTries
<1>1. MaxTries \in Nat
  BY AgentAssumption
<1> QED
  BY <1>1

\* Faults are counted to their bound.
LEMMA FaultsCount ==
  ASSUME faults \in 0 .. MaxFaults, NEW kind, Fault(kind) PROVE faults' \in 0 .. MaxFaults
<1>1. MaxFaults \in Nat
  BY AgentAssumption
<1> QED
  BY <1>1 DEF Fault

\* A turn of the connection loop is counted before its limit is looked at again, and
\* a stream is over when the drain is.
LEMMA StepKeepsLoop == LoopTypes /\ [Next]_vars => LoopTypes'
<1> SUFFICES ASSUME LoopTypes, [Next]_vars PROVE LoopTypes'
  OBVIOUS
<1> USE DEF LoopTypes, Phases
<1>f. ASSUME NEW kind, Fault(kind) PROVE faults' \in 0 .. MaxFaults
  BY <1>f, FaultsCount
<1>1. CASE Start
  <2>1. tries' \in 0 .. MaxTries /\ phase' = "connecting" /\ running' = TRUE
    BY <1>1, TriesCount DEF Start
  <2>2. stream = "none" /\ UNCHANGED <<channel_, stub_, collector_connected, stream, up, faults>>
    BY <1>1 DEF Start, replay
  <2> QED
    BY <2>1, <2>2
<1>2. CASE Connect
  <2>1. /\ tries' \in 0 .. MaxTries /\ phase' \in {"connecting", "health"}
        /\ phase' = "health" => tries' < MaxTries
        /\ channel_' \in BOOLEAN /\ stub_' \in BOOLEAN
    BY <1>2, TriesCount DEF Connect
  <2>2. stream = "none" /\ UNCHANGED <<running, collector_connected, stream, up, faults>>
    BY <1>2 DEF Connect, replay
  <2> QED
    BY <2>1, <2>2
<1>3. CASE HealthCheck
  <2>1. /\ tries' \in 0 .. MaxTries /\ phase' \in {"connecting", "build"}
        /\ collector_connected' \in BOOLEAN
    BY <1>3, TriesCount DEF HealthCheck
  <2>2. stream = "none" /\ UNCHANGED <<running, channel_, stub_, stream, up, faults>>
    BY <1>3 DEF HealthCheck, replay
  <2> QED
    BY <2>1, <2>2
<1>4. CASE StartOffline \/ Build \/ DrainEmpty \/ DrainNext \/ Save \/ Evict \/ SaveAgain
  BY <1>4 DEF StartOffline, Build, DrainEmpty, DrainNext, Save, Evict, SaveAgain,
     process, replay
<1>5. CASE DrainBegin \/ DrainFinish
  BY <1>5 DEF DrainBegin, DrainFinish, process
<1>6. CASE Sent
  <2>1. faults' \in 0 .. MaxFaults
    BY <1>6, <1>f DEF Sent
  <2> QED
    BY <1>6, <2>1 DEF Sent, replay
<1>7. CASE SendFails
  <2>1. faults' \in 0 .. MaxFaults
    BY <1>7, <1>f DEF SendFails
  <2> QED
    BY <1>7, <2>1 DEF SendFails, replay
<1>8. CASE Exit
  BY <1>8 DEF Exit, replay
<1>9. CASE Receive
  <2>1. faults' \in 0 .. MaxFaults
    BY <1>9, <1>f DEF Receive
  <2> QED
    BY <1>9, <2>1 DEF Receive, process
<1>10. CASE CollectorDown \/ StreamBreaks
  <2>1. faults' \in 0 .. MaxFaults
    BY <1>10, <1>f DEF CollectorDown, StreamBreaks
  <2> QED
    BY <1>10, <2>1 DEF CollectorDown, StreamBreaks, StreamEnds, process
<1>11. CASE CollectorUp \/ UNCHANGED vars
  BY <1>11 DEF CollectorUp, vars, process, replay
<1>12. CASE Stop \/ Kill
  <2>1. faults' \in 0 .. MaxFaults
    BY <1>12, <1>f DEF Stop, Kill
  <2> QED
    BY <1>12, <2>1 DEF Stop, Kill, replay
<1> QED
  BY <1>1, <1>2, <1>3, <1>4, <1>5, <1>6, <1>7, <1>8, <1>9, <1>10, <1>11, <1>12
     DEF Next, Loop

\* What is produced or lost on record is a batch.
LEMMA StepKeepsRecords ==
  Types /\ produced \cup lost \subseteq Batches /\ [Next]_vars
    => produced' \cup lost' \subseteq Batches
<1> SUFFICES ASSUME Types, produced \subseteq Batches, lost \subseteq Batches, [Next]_vars
             PROVE  produced' \subseteq Batches /\ lost' \subseteq Batches
  OBVIOUS
<1>1. InHand \subseteq Batches
  BY InHandIsBatch
<1>2. \A m \in Messages : ToSet(m) \subseteq Batches
  BY DEF Messages, ToSet
<1>3. Points(wire) \subseteq Batches
  BY <1>2 DEF Types, Points
<1>4. wire # <<>> => ToSet(Head(wire)) \subseteq Batches
  BY <1>2 DEF Types
<1>5. /\ ToSet(buffer) \subseteq Batches
      /\ buffer # <<>> => Head(buffer) \in Batches
  BY DEF Types, ToSet
<1>6. CASE Start
  BY <1>5, <1>6 DEF Start
<1>7. CASE DrainNext \/ Evict
  BY <1>5, <1>7 DEF DrainNext, Evict, Buffer!Pop
<1>8. CASE Sent \/ SendFails \/ SaveAgain
  BY <1>1, <1>8 DEF Sent, SendFails, SaveAgain, InHand
<1>9. CASE Receive
  BY <1>4, <1>9 DEF Receive
<1>10. CASE CollectorDown \/ StreamBreaks \/ Kill
  BY <1>1, <1>3, <1>10 DEF CollectorDown, StreamBreaks, StreamEnds, Kill
<1>11. CASE \/ UNCHANGED vars \/ Connect \/ HealthCheck \/ StartOffline \/ Build
            \/ DrainBegin \/ DrainEmpty \/ DrainFinish \/ Save \/ Exit \/ CollectorUp
            \/ Stop
  BY <1>11 DEF Connect, HealthCheck, StartOffline, Build, DrainBegin, DrainEmpty,
     DrainFinish, Save, Exit, CollectorUp, Stop, vars
<1> QED
  BY <1>6, <1>7, <1>8, <1>9, <1>10, <1>11 DEF Next, Loop

\* The agent's variables keep their types for any capacity, sizes, tries and faults;
\* the bytes in use never exceed the capacity and never fall below nothing, and a
\* replay stream exists only while the loop drains.
THEOREM TypesHold == Spec => []TypeOK
<1> DEFINE Records == produced \cup lost \subseteq Batches
<1>1. Init => LoopTypes /\ Records
  <2>1. 0 \in 0 .. MaxFaults
    BY AgentAssumption
  <2> QED
    BY <2>1, TriesCount DEF Init, LoopTypes, Phases
<1>2. Spec => []LoopTypes
  BY <1>1, StepKeepsLoop, PTL DEF Spec
<1>r. Types /\ Records /\ [Next]_vars => Records'
  BY StepKeepsRecords
<1>3. Spec => []Records
  <2> HIDE DEF Records
  <2> QED
    BY <1>1, <1>r, TypesInductive, PTL DEF Spec
<1>4. Types /\ Adds(buffer, used) /\ used \in 0 .. Capacity /\ LoopTypes /\ Records => TypeOK
  BY DEF Types, LoopTypes, TypeOK, Messages
<1> QED
  BY <1>2, <1>3, <1>4, TypesInductive, BytesInductive, PTL
=============================================================================
