--------------------------- MODULE LiveSessionProofs --------------------------
(* What holds of a live session for any number of agents and of restarts: an    *)
(* event has one holder, a decision is in the journal, and nothing that comes   *)
(* late takes the session back to comparing variants.  Last, what its lock file *)
(* achieves.                                                                    *)
EXTENDS LiveSession, FiniteSetTheorems, TLAPS

EventTypes == {"generate", "mount", "accept", "discard"}
Events == [type : EventTypes, ready : BOOLEAN, by : SUBSET Agents]
Phases ==
  {"none", "generate_requested", "variants_ready", "generating", "cycling",
   "agent_error", "accept_requested", "discard_requested", "carbonize_required",
   "completed", "discarded"}
Snaps ==
  [phase : Phases, pending : EventTypes \cup {"none"}, ready : BOOLEAN,
   canceled : BOOLEAN, done : BOOLEAN]
Places == {"idle", "preparing", "working", "carbonizing", "cleaning"}
Tabs ==
  [ui : {"picking", "generating", "mounting", "cycling", "handled"},
   online : BOOLEAN, sent : BOOLEAN]

Types ==
  /\ snap \in Snaps
  /\ queue \in Seq(Events)
  /\ agents \in [Agents -> [at : Places, on : EventTypes \cup {"none"}]]
  /\ tab \in Tabs
  /\ count \in [events : Nat, bounced : BOOLEAN, erred : BOOLEAN]

-----------------------------------------------------------------------------
(* The operators on the snapshot and on the queue.                             *)

\* Whatever the journal records, the snapshot derived from it is well formed.
LEMMA SnapTypes ==
  ASSUME NEW s \in Snaps
  PROVE  /\ \A ready \in BOOLEAN : Generated(s, ready) \in Snaps
         /\ \A c \in BOOLEAN : Finished(s, c) \in Snaps
         /\ \A source : Failed(s, source) \in Snaps
         /\ MountFailure(s) \in Snaps
         /\ \A ui \in {"generating", "cycling"} : Progress(s, ui) \in Snaps
         /\ \A type \in Decisions : Decided(s, type) \in Snaps
         /\ \A phase \in Phases : Concluded(s, phase) \in Snaps
<1> USE DEF Snaps, Phases, EventTypes
<1>1. \A ready \in BOOLEAN : Generated(s, ready) \in Snaps
  BY DEF Generated
<1>2. \A c \in BOOLEAN : Finished(s, c) \in Snaps
  BY DEF Finished
<1>3. \A source : Failed(s, source) \in Snaps
  BY DEF Failed
<1>4. MountFailure(s) \in Snaps
  BY DEF MountFailure
<1>5. \A ui \in {"generating", "cycling"} : Progress(s, ui) \in Snaps
  BY DEF Progress
<1>6. \A type \in Decisions : Decided(s, type) \in Snaps
  BY DEF Decided, Decisions
<1>7. \A phase \in Phases : Concluded(s, phase) \in Snaps
  BY DEF Concluded
<1> QED
  BY <1>1, <1>2, <1>3, <1>4, <1>5, <1>6, <1>7

\* Taking an event off the queue leaves the others, each at a place of its own.
LEMMA WithoutIsPart ==
  ASSUME NEW q \in Seq(Events), NEW type
  PROVE  /\ Without(q, type) \in Seq(Events)
         /\ \A i \in DOMAIN Without(q, type) : \E k \in DOMAIN q :
              Without(q, type)[i] = q[k]
         /\ \A i, j \in DOMAIN Without(q, type) :
              i # j => \E k, l \in DOMAIN q :
                         /\ k # l
                         /\ Without(q, type)[i] = q[k]
                         /\ Without(q, type)[j] = q[l]
<1>1. CASE ~\E i \in DOMAIN q : q[i].type = type
  <2>1. Without(q, type) = q
    BY <1>1 DEF Without
  <2> QED
    BY <2>1
<1>2. CASE \E i \in DOMAIN q : q[i].type = type
  <2> DEFINE n == CHOOSE i \in DOMAIN q : q[i].type = type
             W == RemoveAt(q, n)
  <2>1. Without(q, type) = W
    BY <1>2 DEF Without
  <2>2. n \in 1..Len(q)
    BY <1>2
  <2> HIDE DEF n
  <2>3. /\ W \in Seq(Events)
        /\ Len(W) = Len(q) - 1
        /\ \A i \in 1..Len(W) : W[i] = q[IF i < n THEN i ELSE i + 1]
    <3> DEFINE before == SubSeq(q, 1, n - 1)
               after == SubSeq(q, n + 1, Len(q))
    <3>1. /\ before \in Seq(Events) /\ Len(before) = n - 1
          /\ \A i \in 1..(n - 1) : before[i] = q[i]
      BY <2>2
    <3>2. /\ after \in Seq(Events) /\ Len(after) = Len(q) - n
          /\ \A i \in 1..(Len(q) - n) : after[i] = q[n + i]
      BY <2>2
    <3>3. W = before \o after
      BY DEF W, RemoveAt
    <3> HIDE DEF before, after
    <3>4. W \in Seq(Events) /\ Len(W) = Len(q) - 1
      BY <2>2, <3>1, <3>2, <3>3
    <3>5. ASSUME NEW i \in 1..Len(W), i < n PROVE W[i] = q[i]
      BY <2>2, <3>1, <3>2, <3>3, <3>4, <3>5
    <3>6. ASSUME NEW i \in 1..Len(W), ~(i < n) PROVE W[i] = q[i + 1]
      <4>1. W[i] = after[i - (n - 1)]
        BY <2>2, <3>1, <3>2, <3>3, <3>4, <3>6
      <4>2. i - (n - 1) \in 1..(Len(q) - n) /\ n + (i - (n - 1)) = i + 1
        BY <2>2, <3>4, <3>6
      <4> QED
        BY <3>2, <4>1, <4>2
    <3> QED
      BY <3>4, <3>5, <3>6
  <2> HIDE DEF W
  <2>4. ASSUME NEW i \in DOMAIN W PROVE \E k \in DOMAIN q : W[i] = q[k]
    BY <2>2, <2>3
  <2>5. ASSUME NEW i \in DOMAIN W, NEW j \in DOMAIN W, i # j
        PROVE  \E k, l \in DOMAIN q : k # l /\ W[i] = q[k] /\ W[j] = q[l]
    <3> DEFINE at(x) == IF x < n THEN x ELSE x + 1
    <3>1. at(i) \in DOMAIN q /\ at(j) \in DOMAIN q /\ at(i) # at(j)
      BY <2>2, <2>3, <2>5
    <3>2. W[i] = q[at(i)] /\ W[j] = q[at(j)]
      BY <2>3
    <3> QED
      BY <3>1, <3>2
  <2> QED
    BY <2>1, <2>3, <2>4, <2>5
<1> QED
  BY <1>1, <1>2

\* What Append does to a sequence, place by place.
LEMMA AppendAdds ==
  ASSUME NEW S, NEW q \in Seq(S), NEW e \in S
  PROVE  /\ Append(q, e) \in Seq(S)
         /\ Len(Append(q, e)) = Len(q) + 1
         /\ \A i \in 1..Len(q) : Append(q, e)[i] = q[i]
         /\ Append(q, e)[Len(q) + 1] = e
OBVIOUS

\* An event is appended with nobody to hold it, or is on the queue already.
LEMMA EnqueueAdds ==
  ASSUME NEW q \in Seq(Events), NEW type \in EventTypes
  PROVE  /\ Enqueue(q, type) \in Seq(Events)
         /\ \/ Enqueue(q, type) = q
            \/ /\ \A i \in DOMAIN q : q[i].type # type
               /\ Enqueue(q, type) = Append(q, Entry(type, FALSE))
               /\ Len(Enqueue(q, type)) = Len(q) + 1
               /\ \A i \in 1..Len(q) : Enqueue(q, type)[i] = q[i]
               /\ Enqueue(q, type)[Len(q) + 1] = Entry(type, FALSE)
<1>1. Entry(type, FALSE) \in Events
  BY DEF Entry, Events
<1>2. CASE \E i \in DOMAIN q : q[i].type = type
  BY <1>2 DEF Enqueue
<1>3. CASE \A i \in DOMAIN q : q[i].type # type
  <2>1. Enqueue(q, type) = Append(q, Entry(type, FALSE))
    BY <1>3 DEF Enqueue
  <2>2. /\ Append(q, Entry(type, FALSE)) \in Seq(Events)
        /\ Len(Append(q, Entry(type, FALSE))) = Len(q) + 1
        /\ \A i \in 1..Len(q) : Append(q, Entry(type, FALSE))[i] = q[i]
        /\ Append(q, Entry(type, FALSE))[Len(q) + 1] = Entry(type, FALSE)
    BY <1>1, AppendAdds
  <2> QED
    BY <1>3, <2>1, <2>2
<1> QED
  BY <1>2, <1>3

\* What gives each place of a queue an event is a queue of the same length.
LEMMA Rewritten ==
  ASSUME NEW q \in Seq(Events), NEW f \in [DOMAIN q -> Events]
  PROVE  f \in Seq(Events) /\ Len(f) = Len(q)
OBVIOUS

\* A lease changes nothing of an event but who holds it.
LEMMA LeaseTypes ==
  ASSUME Types, NEW i \in DOMAIN queue, NEW a \in Agents
  PROVE  Lease(i, a) \in Seq(Events)
<1>1. queue[i] \in Events
  BY DEF Types
<1>2. [queue[i] EXCEPT !.by = @ \cup {a}] \in Events
  BY <1>1 DEF Events
<1>3. Lease(i, a) = [queue EXCEPT ![i] = [queue[i] EXCEPT !.by = @ \cup {a}]]
  BY DEF Lease, Types
<1> QED
  BY <1>2, <1>3 DEF Types

\* A reload and a message of the server leave the page in one of its states.
LEMMA TabTypes ==
  ASSUME Types
  PROVE  /\ Offline \in Tabs
         /\ \A reply : Hears(reply) \in Tabs
<1>1. Offline \in Tabs
  BY DEF Types, Tabs, Offline
<1>2. ASSUME NEW reply PROVE Hears(reply) \in Tabs
  BY DEF Types, Tabs, Hears, Active
<1> QED
  BY <1>1, <1>2

\* What an answer leaves of the queue, the journal and the page is well formed.
LEMMA AnswerTypes ==
  ASSUME Types, NEW source, NEW next \in Snaps, NEW reply,
         Answer(source, next, reply)
  PROVE  queue' \in Seq(Events) /\ snap' \in Snaps /\ tab' \in Tabs
BY WithoutIsPart, TabTypes DEF Types, Answer

\* Every variable keeps its type, for any number of agents and of faults.
LEMMA StepKeepsTypes ==
  ASSUME Types, [Next]_vars PROVE Types'
<1> USE DEF Types
<1>s. /\ EventTypes = {"generate", "mount"} \cup Decisions
      /\ "generate" \in EventTypes /\ "mount" \in EventTypes
      /\ \A type \in Decisions : type \in EventTypes
      /\ {"completed", "discarded"} \subseteq Phases
  BY DEF EventTypes, Decisions, Phases
<1>w. \A q \in Seq(Events), type \in EventTypes :
        Without(q, type) \in Seq(Events) /\ Enqueue(q, type) \in Seq(Events)
  BY WithoutIsPart, EnqueueAdds
<1>1. ASSUME Go PROVE Types'
  <2>1. snap' \in Snaps
    BY <1>1, SnapTypes DEF Go
  <2>2. queue' \in Seq(Events)
    BY <1>1, <1>s, <1>w DEF Go
  <2>3. tab' \in Tabs
    BY <1>1 DEF Go, Tabs
  <2> QED
    BY <1>1, <2>1, <2>2, <2>3 DEF Go
<1>2. ASSUME VariantsArrive \/ Mounted \/ SendCheckpoint PROVE Types'
  <2>1. tab' \in Tabs
    BY <1>2 DEF VariantsArrive, Mounted, SendCheckpoint, Tabs
  <2> QED
    BY <1>2, <2>1 DEF VariantsArrive, Mounted, SendCheckpoint
<1>3. ASSUME MountFailed PROVE Types'
  <2>1. snap' \in Snaps /\ queue' \in Seq(Events)
    BY <1>3, <1>s, <1>w, SnapTypes DEF MountFailed
  <2>2. tab' \in Tabs
    BY <1>3 DEF MountFailed, Tabs
  <2> QED
    BY <1>3, <2>1, <2>2 DEF MountFailed
<1>4. ASSUME LateCheckpoint PROVE Types'
  <2>1. snap' \in Snaps
    BY <1>4, SnapTypes DEF LateCheckpoint
  <2>2. tab' \in Tabs
    BY <1>4, TabTypes DEF LateCheckpoint, Tabs
  <2> QED
    BY <1>4, <2>1, <2>2 DEF LateCheckpoint
<1>5. ASSUME Checkpoint PROVE Types'
  <2>1. snap' \in Snaps
    BY <1>5, SnapTypes DEF Checkpoint
  <2>2. tab' \in Tabs
    BY <1>5 DEF Checkpoint, Tabs
  <2> QED
    BY <1>5, <2>1, <2>2 DEF Checkpoint
<1>6. ASSUME NEW type \in Decisions, Decide(type) PROVE Types'
  <2>1. snap' \in Snaps
    BY <1>6, SnapTypes DEF Decide
  <2>2. queue' \in Seq(Events)
    BY <1>6, <1>s, <1>w DEF Decide
  <2>3. tab' \in Tabs
    BY <1>6 DEF Decide, Tabs
  <2> QED
    BY <1>6, <2>1, <2>2, <2>3 DEF Decide
<1>7. ASSUME DiscardOrphaned PROVE Types'
  <2>1. snap' \in Snaps
    BY <1>7, <1>s, SnapTypes DEF DiscardOrphaned, Decisions
  <2>2. queue' \in Seq(Events)
    BY <1>7, <1>s, <1>w DEF DiscardOrphaned
  <2>3. tab' \in Tabs
    BY <1>7 DEF DiscardOrphaned, Tabs
  <2> QED
    BY <1>7, <2>1, <2>2, <2>3 DEF DiscardOrphaned
<1>8. ASSUME Disconnect \/ Connect PROVE Types'
  <2>1. tab' \in Tabs
    BY <1>8, TabTypes DEF Disconnect, Connect, Tabs
  <2> QED
    BY <1>8, <2>1 DEF Disconnect, Connect
<1>9. ASSUME NEW a \in Agents, Poll(a) PROVE Types'
  <2>1. PICK i \in Available :
          /\ queue' = Lease(i, a)
          /\ agents' = [agents EXCEPT ![a] =
               [at |-> IF queue[i].type = "generate" /\ ~queue[i].ready
                         THEN "preparing" ELSE "working",
                on |-> queue[i].type]]
    BY <1>9 DEF Poll
  <2>2. i \in DOMAIN queue
    BY DEF Available
  <2>3. queue' \in Seq(Events)
    BY <2>1, <2>2, LeaseTypes
  <2>6. queue[i] \in Events
    BY <2>2
  <2>4. queue[i].type \in EventTypes
    BY <2>6 DEF Events
  <2>5. agents' \in [Agents -> [at : Places, on : EventTypes \cup {"none"}]]
    BY <2>1, <2>4 DEF Places
  <2> QED
    BY <1>9, <2>3, <2>5 DEF Poll
<1>10. ASSUME NEW a \in Agents, Prepared(a) PROVE Types'
  <2>1. snap' \in Snaps
    BY <1>10, SnapTypes DEF Prepared
  <2>5. ASSUME NEW i \in DOMAIN queue PROVE queue'[i] \in Events
    <3>1. queue[i] \in Events
      OBVIOUS
    <3>2. [queue[i] EXCEPT !.ready = TRUE, !.by = @ \cup {a}] \in Events
      BY <3>1 DEF Events
    <3> QED
      BY <1>10, <3>1, <3>2 DEF Prepared
  <2>2. queue' \in [DOMAIN queue -> Events]
    BY <1>10, <2>5 DEF Prepared
  <2>3. queue' \in Seq(Events)
    BY <2>2, Rewritten
  <2>4. agents' \in [Agents -> [at : Places, on : EventTypes \cup {"none"}]]
    BY <1>10 DEF Prepared, Places
  <2> QED
    BY <1>10, <2>1, <2>3, <2>4 DEF Prepared
<1>11. ASSUME NEW a \in Agents,
              ReplyDone(a) \/ ReplyError(a) \/ Promoted(a) \/ Reverted(a)
                \/ DecisionFails(a) \/ Complete(a)
       PROVE  Types'
  <2>1. /\ \A c \in BOOLEAN : Finished(snap, c) \in Snaps
        /\ \A source : Failed(snap, source) \in Snaps
        /\ Concluded(snap, "completed") \in Snaps
        /\ Concluded(snap, "discarded") \in Snaps
    BY <1>s, SnapTypes
  <2>2. \E source, reply : \E next \in Snaps : Answer(source, next, reply)
    <3>1. CASE ReplyDone(a)
      BY <2>1, <3>1 DEF ReplyDone
    <3>2. CASE ReplyError(a)
      BY <2>1, <3>2 DEF ReplyError
    <3>3. CASE Promoted(a)
      BY <2>1, <3>3 DEF Promoted
    <3>4. CASE Reverted(a)
      BY <2>1, <3>4 DEF Reverted
    <3>5. CASE DecisionFails(a)
      BY <2>1, <3>5 DEF DecisionFails
    <3>6. CASE Complete(a)
      BY <2>1, <3>6 DEF Complete
    <3> QED
      BY <1>11, <3>1, <3>2, <3>3, <3>4, <3>5, <3>6
  <2>3. queue' \in Seq(Events) /\ snap' \in Snaps /\ tab' \in Tabs
    BY <2>2, AnswerTypes
  <2>4. agents' \in [Agents -> [at : Places, on : EventTypes \cup {"none"}]]
    <3>1. /\ Idle \in [at : Places, on : EventTypes \cup {"none"}]
          /\ \A at \in Places :
               [agents[a] EXCEPT !.at = at]
                 \in [at : Places, on : EventTypes \cup {"none"}]
      BY DEF Idle, Places
    <3>2. \/ agents' = [agents EXCEPT ![a] = Idle]
          \/ \E at \in Places :
               agents' = [agents EXCEPT ![a] = [agents[a] EXCEPT !.at = at]]
      BY <1>11 DEF ReplyDone, ReplyError, Promoted, Reverted, DecisionFails,
         Complete, Places
    <3> QED
      BY <3>1, <3>2
  <2>5. count' \in [events : Nat, bounced : BOOLEAN, erred : BOOLEAN]
    BY <1>11 DEF ReplyDone, ReplyError, Promoted, Reverted, DecisionFails, Complete
  <2> QED
    BY <2>3, <2>4, <2>5
<1>12. ASSUME NEW a \in Agents, CleanedUp(a) \/ AgentEnds(a) PROVE Types'
  BY <1>12 DEF CleanedUp, AgentEnds, Idle, Places
<1>13. ASSUME NEW a \in Agents, Bounce(a) PROVE Types'
  <2>1. queue' \in Seq(Events)
    <3> DEFINE source == Inferred("done")
    <3>1. queue' = Without(queue, source)
      BY <1>13 DEF Bounce
    <3> HIDE DEF source
    <3> QED
      BY <3>1, WithoutIsPart
  <2>2. count' \in [events : Nat, bounced : BOOLEAN, erred : BOOLEAN]
    <3>1. count' = [count EXCEPT !.bounced = TRUE, !.events = count.events + 1]
      BY <1>13 DEF Bounce
    <3>2. count \in [events : Nat, bounced : BOOLEAN, erred : BOOLEAN]
      OBVIOUS
    <3>3. count.events + 1 \in Nat
      BY <3>2
    <3> HIDE DEF Types
    <3> QED
      BY <3>1, <3>2, <3>3
  <2>3. UNCHANGED <<snap, agents, tab>>
    BY <1>13 DEF Bounce
  <2> QED
    BY <2>1, <2>2, <2>3
<1>14. ASSUME LeaseExpires PROVE Types'
  <2>1. PICK i \in DOMAIN queue : queue' = [queue EXCEPT ![i].by = {}]
    BY <1>14 DEF LeaseExpires
  <2>2. queue[i] \in Events
    OBVIOUS
  <2>5. [queue[i] EXCEPT !.by = {}] \in Events
    BY <2>2 DEF Events
  <2>3. queue' \in [DOMAIN queue -> Events]
    BY <2>1, <2>5
  <2>4. queue' \in Seq(Events)
    BY <2>3, Rewritten
  <2> QED
    BY <1>14, <2>4 DEF LeaseExpires
<1>15. ASSUME Restart PROVE Types'
  <2>1. snap.pending # "none" => Entry(snap.pending, snap.ready) \in Events
    BY DEF Snaps, Entry, Events
  <2>2. queue' \in Seq(Events)
    BY <1>15, <2>1 DEF Restart
  <2>3. tab' \in Tabs
    BY <1>15, TabTypes DEF Restart, Tabs
  <2>4. agents' \in [Agents -> [at : Places, on : EventTypes \cup {"none"}]]
    BY <1>15 DEF Restart, Idle, Places
  <2> QED
    BY <1>15, <2>2, <2>3, <2>4 DEF Restart
<1>16. CASE UNCHANGED vars
  BY <1>16 DEF vars
<1> QED
  BY <1>1, <1>2, <1>3, <1>4, <1>5, <1>6, <1>7, <1>8, <1>9, <1>10, <1>11, <1>12,
     <1>13, <1>14, <1>15, <1>16 DEF Next, Browser, Agent, Works

\* Every variable keeps its type, for any number of agents and of faults.
THEOREM TypesHold == Spec => []Types
<1>1. Init => Types
  BY DEF Init, Types, Snaps, Phases, EventTypes, Places, Tabs, Idle
<1>2. Types /\ [Next]_vars => Types'
  BY StepKeepsTypes
<1> QED
  BY <1>1, <1>2, PTL DEF Spec

-----------------------------------------------------------------------------
(* A decision is final.                                                        *)

Undecided == {"variants_ready", "generating", "cycling"}
FenceInv == snap.canceled => snap.phase \notin Undecided

\* A decision of the user, with or without an agent to carry it out.
LEMMA DecidingCancels ==
  ASSUME NEW s \in Snaps, NEW type \in Decisions
  PROVE  /\ Decided(s, type).canceled
         /\ Decided(s, type).phase \in {"accept_requested", "discard_requested"}
         /\ Decided(s, type).pending = type
         /\ Decided(s, type) \in Snaps
BY SnapTypes DEF Decided, Snaps

\* What a reply makes of the snapshot.
LEMMA AnswerSnap ==
  ASSUME NEW source, NEW next, NEW reply, Answer(source, next, reply)
  PROVE  snap' = snap \/ snap' = next
BY DEF Answer

\* A reply to anything makes of the snapshot what one of the operations does.
LEMMA ReplySnap ==
  ASSUME NEW a \in Agents,
         ReplyDone(a) \/ ReplyError(a) \/ Promoted(a) \/ Reverted(a)
           \/ DecisionFails(a) \/ Complete(a)
  PROVE  \/ snap' = snap
         \/ \E c \in BOOLEAN : snap' = Finished(snap, c)
         \/ \E source : snap' = Failed(snap, source)
         \/ \E phase \in {"completed", "discarded"} : snap' = Concluded(snap, phase)
<1>1. CASE ReplyDone(a)
  BY <1>1, AnswerSnap DEF ReplyDone
<1>2. CASE ReplyError(a)
  BY <1>2, AnswerSnap DEF ReplyError
<1>3. CASE Promoted(a)
  BY <1>3, AnswerSnap DEF Promoted
<1>4. CASE Reverted(a)
  BY <1>4, AnswerSnap DEF Reverted
<1>5. CASE DecisionFails(a)
  BY <1>5, AnswerSnap DEF DecisionFails
<1>6. CASE Complete(a)
  BY <1>6, AnswerSnap DEF Complete
<1> QED
  BY <1>1, <1>2, <1>3, <1>4, <1>5, <1>6

\* A decided session stays decided in every step, and leaves the phases after the
\* decision for none before it.
LEMMA StepKeepsDecision ==
  ASSUME Types, snap.canceled, [Next]_vars
  PROVE  /\ snap'.canceled
         /\ \/ snap'.phase = snap.phase
            \/ snap'.phase \notin Undecided
<1> USE DEF Undecided
<1>t. snap \in Snaps
  BY DEF Types
<1>1. CASE Go
  BY <1>t, <1>1 DEF Go, Generated, Snaps
<1>2. CASE MountFailed
  BY <1>t, <1>2 DEF MountFailed, MountFailure, Snaps
<1>3. CASE LateCheckpoint \/ Checkpoint
  <2>1. \E ui \in {"generating", "cycling"} : snap' = Progress(snap, ui)
    BY <1>3 DEF LateCheckpoint, Checkpoint
  <2>2. snap' = snap
    BY <2>1 DEF Progress, Fenced
  <2> QED
    BY <2>2
<1>4. ASSUME NEW type \in Decisions, Decide(type)
      PROVE  snap'.canceled /\ snap'.phase \notin Undecided
  BY <1>t, <1>4, DecidingCancels DEF Decide
<1>5. CASE DiscardOrphaned
  BY <1>t, <1>5 DEF DiscardOrphaned, Concluded, Decided, Snaps
<1>6. ASSUME NEW a \in Agents, Prepared(a)
      PROVE  snap'.canceled /\ snap'.phase \notin Undecided
  BY <1>t, <1>6 DEF Prepared, Generated, Snaps
<1>7. ASSUME NEW a \in Agents,
             ReplyDone(a) \/ ReplyError(a) \/ Promoted(a) \/ Reverted(a)
               \/ DecisionFails(a) \/ Complete(a)
      PROVE  /\ snap'.canceled
             /\ snap'.phase = snap.phase \/ snap'.phase \notin Undecided
  <2>1. \/ snap' = snap
        \/ \E c \in BOOLEAN : snap' = Finished(snap, c)
        \/ \E source : snap' = Failed(snap, source)
        \/ \E phase \in {"completed", "discarded"} : snap' = Concluded(snap, phase)
    BY <1>7, ReplySnap
  <2>2. CASE snap' = snap
    BY <2>2
  <2>3. CASE \E c \in BOOLEAN : snap' = Finished(snap, c)
    BY <1>t, <2>3 DEF Finished, Fenced, Snaps
  <2>4. CASE \E source : snap' = Failed(snap, source)
    BY <1>t, <2>4 DEF Failed, Snaps
  <2>5. CASE \E phase \in {"completed", "discarded"} :
               snap' = Concluded(snap, phase)
    BY <1>t, <2>5 DEF Concluded, Snaps
  <2> QED
    BY <2>1, <2>2, <2>3, <2>4, <2>5
<1>8. ASSUME UNCHANGED snap PROVE snap'.canceled /\ snap'.phase = snap.phase
  BY <1>8
<1> QED
  BY <1>1, <1>2, <1>3, <1>4, <1>5, <1>6, <1>7, <1>8 DEF Next, Browser, Agent, Works,
     VariantsArrive, Mounted, SendCheckpoint, Disconnect, Connect, Poll, CleanedUp,
     AgentEnds, Bounce, LeaseExpires, Restart, vars

\* What is decided before it was decided was in no phase of comparing variants
\* afterwards: the step that decides leaves those phases.
LEMMA StepKeepsFence ==
  ASSUME Types, FenceInv, [Next]_vars PROVE FenceInv'
<1>t. snap \in Snaps
  BY DEF Types
<1>1. CASE snap.canceled
  BY <1>1, StepKeepsDecision DEF FenceInv
<1>2. CASE ~snap.canceled
  <2>1. ASSUME NEW type \in Decisions, Decide(type) PROVE FenceInv'
    BY <1>t, <2>1, DecidingCancels DEF Decide, FenceInv, Undecided
  <2>2. CASE DiscardOrphaned
    BY <2>2 DEF DiscardOrphaned, FenceInv, Undecided, Concluded, Decided, Types,
       Snaps
  <2>3. CASE Go \/ MountFailed \/ LateCheckpoint \/ Checkpoint
             \/ \E a \in Agents : Prepared(a)
    BY <1>t, <1>2, <2>3 DEF Go, MountFailed, LateCheckpoint, Checkpoint, Prepared,
       Generated, MountFailure, Progress, FenceInv, Snaps
  <2>4. ASSUME NEW a \in Agents,
               ReplyDone(a) \/ ReplyError(a) \/ Promoted(a) \/ Reverted(a)
                 \/ DecisionFails(a) \/ Complete(a)
        PROVE  FenceInv'
    <3>1. \/ snap' = snap
          \/ \E c \in BOOLEAN : snap' = Finished(snap, c)
          \/ \E source : snap' = Failed(snap, source)
          \/ \E phase \in {"completed", "discarded"} :
               snap' = Concluded(snap, phase)
      BY <2>4, ReplySnap
    <3> QED
      BY <1>t, <1>2, <3>1 DEF Finished, Failed, Concluded, FenceInv, Snaps
  <2>5. CASE UNCHANGED snap
    BY <1>2, <2>5 DEF FenceInv
  <2> QED
    BY <2>1, <2>2, <2>3, <2>4, <2>5 DEF Next, Browser, Agent, Works,
       VariantsArrive, Mounted, SendCheckpoint, Disconnect, Connect, Poll, CleanedUp,
       AgentEnds, Bounce, LeaseExpires, Restart, vars
<1> QED
  BY <1>1, <1>2

\* After a decision nothing that comes late, from an agent or from the page, takes
\* the session back to comparing variants, for any number of agents.
THEOREM DecisionsAreFenced == Spec => DecisionFences
<1>1. Init => FenceInv
  BY DEF Init, FenceInv
<1>2. Types /\ FenceInv /\ [Next]_vars => FenceInv'
  BY StepKeepsFence
<1>3. Types /\ FenceInv /\ [Next]_vars =>
        (snap.canceled =>
           snap'.canceled /\ snap'.phase \notin {"variants_ready", "generating",
                                                 "cycling"})
  BY StepKeepsDecision DEF FenceInv, Undecided
<1> QED
  BY <1>1, <1>2, <1>3, TypesHold, PTL DEF Spec, DecisionFences

-----------------------------------------------------------------------------
(* A decision on the queue is in the journal.                                  *)

Held ==
  /\ snap.canceled
  /\ snap.pending \in Decisions \cup {"generate"} \/ snap.phase \in Answered
DecisionQueued == \E i \in DOMAIN queue : queue[i].type \in Decisions

HeldInv ==
  /\ DecisionQueued => Held
  /\ snap.pending \in Decisions => snap.canceled

Quiet ==
  VariantsArrive \/ Mounted \/ SendCheckpoint \/ Disconnect \/ Connect
    \/ \E a \in Agents : CleanedUp(a) \/ AgentEnds(a)

\* The steps that touch neither the snapshot nor the queue.
LEMMA QuietSteps == ASSUME Quiet PROVE UNCHANGED <<snap, queue>>
BY DEF Quiet, VariantsArrive, Mounted, SendCheckpoint, Disconnect, Connect,
   CleanedUp, AgentEnds

\* Once the journal holds a decision, every later entry leaves it there, tells that
\* the decision was answered, or is the generation that overwrites it.
LEMMA HeldStays ==
  ASSUME Types, Held, [Next]_vars PROVE Held'
<1> USE DEF Held, Answered, Decisions
<1>t. snap \in Snaps
  BY DEF Types
<1>1. CASE Go
  BY <1>t, <1>1 DEF Go, Generated, Snaps
<1>2. CASE MountFailed
  BY <1>t, <1>2 DEF MountFailed, MountFailure, Snaps
<1>3. CASE LateCheckpoint \/ Checkpoint
  <2>1. \E ui \in {"generating", "cycling"} : snap' = Progress(snap, ui)
    BY <1>3 DEF LateCheckpoint, Checkpoint
  <2>2. snap' = snap
    BY <2>1 DEF Progress, Fenced
  <2> QED
    BY <2>2
<1>4. ASSUME NEW type \in Decisions, Decide(type) PROVE Held'
  BY <1>t, <1>4, DecidingCancels DEF Decide
<1>5. CASE DiscardOrphaned
  BY <1>t, <1>5 DEF DiscardOrphaned, Concluded, Decided, Snaps
<1>6. ASSUME NEW a \in Agents, Prepared(a) PROVE Held'
  BY <1>t, <1>6 DEF Prepared, Generated, Snaps
<1>7. ASSUME NEW a \in Agents,
             ReplyDone(a) \/ ReplyError(a) \/ Promoted(a) \/ Reverted(a)
               \/ DecisionFails(a) \/ Complete(a)
      PROVE  Held'
  <2>1. \/ snap' = snap
        \/ \E c \in BOOLEAN : snap' = Finished(snap, c)
        \/ \E source : snap' = Failed(snap, source)
        \/ \E phase \in {"completed", "discarded"} : snap' = Concluded(snap, phase)
    BY <1>7, ReplySnap
  <2>2. CASE snap' = snap
    BY <2>2
  <2>3. CASE \E c \in BOOLEAN : snap' = Finished(snap, c)
    BY <1>t, <2>3 DEF Finished, Fenced, Snaps
  <2>4. CASE \E source : snap' = Failed(snap, source)
    BY <1>t, <2>4 DEF Failed, Snaps
  <2>5. CASE \E phase \in {"completed", "discarded"} :
               snap' = Concluded(snap, phase)
    BY <1>t, <2>5 DEF Concluded, Snaps
  <2> QED
    BY <2>1, <2>2, <2>3, <2>4, <2>5
<1>8. ASSUME UNCHANGED snap PROVE Held'
  BY <1>8
<1> QED
  BY <1>1, <1>2, <1>3, <1>4, <1>5, <1>6, <1>7, <1>8, QuietSteps DEF Next,
     Browser, Agent, Works, Poll, Bounce, LeaseExpires, Restart, vars, Quiet

\* What is on the queue after an event was taken off was on it before.
LEMMA WithoutKeepsTypes ==
  ASSUME Types, NEW source, queue' = Without(queue, source), DecisionQueued'
  PROVE  DecisionQueued
<1>1. PICK i \in DOMAIN Without(queue, source) :
        Without(queue, source)[i].type \in Decisions
  BY DEF DecisionQueued
<1>2. PICK k \in DOMAIN queue : Without(queue, source)[i] = queue[k]
  BY WithoutIsPart DEF Types
<1> QED
  BY <1>1, <1>2 DEF DecisionQueued

\* Each answer to an agent takes one event off the queue.
LEMMA ReplyQueue ==
  ASSUME NEW a \in Agents,
         ReplyDone(a) \/ ReplyError(a) \/ Promoted(a) \/ Reverted(a)
           \/ DecisionFails(a) \/ Complete(a) \/ Bounce(a)
  PROVE  \E source : queue' = Without(queue, source)
BY DEF ReplyDone, ReplyError, Promoted, Reverted, DecisionFails, Complete, Bounce,
   Answer

\* A decision comes to the queue when the user takes it, or from the journal.
LEMMA DecisionComes ==
  ASSUME Types, HeldInv, [Next]_vars, DecisionQueued'
  PROVE  DecisionQueued \/ Held'
<1>t. queue \in Seq(Events) /\ snap \in Snaps
  BY DEF Types
<1>1. ASSUME NEW type \in {"generate", "mount"}, queue' = Enqueue(queue, type)
      PROVE  DecisionQueued
  <2>1. type \in EventTypes /\ type \notin Decisions
    BY DEF EventTypes, Decisions
  <2>2. CASE Enqueue(queue, type) = queue
    BY <1>1, <2>2 DEF DecisionQueued
  <2>3. CASE /\ Len(Enqueue(queue, type)) = Len(queue) + 1
             /\ \A i \in 1..Len(queue) : Enqueue(queue, type)[i] = queue[i]
             /\ Enqueue(queue, type)[Len(queue) + 1] = Entry(type, FALSE)
    <3>1. PICK i \in DOMAIN queue' : queue'[i].type \in Decisions
      BY DEF DecisionQueued
    <3>2. queue' \in Seq(Events)
      BY <1>t, <1>1, <2>1, EnqueueAdds
    <3>3. queue'[Len(queue) + 1].type = type
      BY <1>1, <2>3 DEF Entry
    <3>4. i \in 1..(Len(queue) + 1)
      BY <1>1, <2>3, <3>1, <3>2
    <3>5. i \in 1..Len(queue)
      BY <1>t, <2>1, <3>1, <3>3, <3>4
    <3> QED
      BY <1>t, <1>1, <2>3, <3>1, <3>5 DEF DecisionQueued
  <2> QED
    BY <1>t, <2>1, <2>2, <2>3, EnqueueAdds
<1>2. CASE Go \/ MountFailed
  BY <1>1, <1>2 DEF Go, MountFailed
<1>3. ASSUME NEW type \in Decisions, Decide(type) PROVE Held'
  BY <1>t, <1>3, DecidingCancels DEF Decide, Held
<1>4. CASE DiscardOrphaned
  BY <1>4, WithoutKeepsTypes DEF DiscardOrphaned
<1>5. ASSUME NEW a \in Agents, Poll(a) PROVE DecisionQueued
  <2>1. PICK i \in Available : queue' = Lease(i, a)
    BY <1>5 DEF Poll
  <2>2. DOMAIN queue' = DOMAIN queue
    BY <2>1 DEF Lease
  <2>3. i \in DOMAIN queue /\ queue[i] \in Events
    BY <1>t DEF Available
  <2>4. \A j \in DOMAIN queue : queue'[j].type = queue[j].type
    BY <1>t, <2>1, <2>3 DEF Lease, Events
  <2> QED
    BY <2>2, <2>4 DEF DecisionQueued
<1>6. ASSUME NEW a \in Agents, Prepared(a) PROVE DecisionQueued
  <2>1. DOMAIN queue' = DOMAIN queue
    BY <1>6 DEF Prepared
  <2>2. ASSUME NEW j \in DOMAIN queue PROVE queue'[j].type = queue[j].type
    <3>1. queue[j] \in Events
      BY <1>t
    <3> QED
      BY <1>6, <3>1 DEF Prepared, Events
  <2> QED
    BY <2>1, <2>2 DEF DecisionQueued
<1>7. ASSUME NEW a \in Agents,
             ReplyDone(a) \/ ReplyError(a) \/ Promoted(a) \/ Reverted(a)
               \/ DecisionFails(a) \/ Complete(a) \/ Bounce(a)
      PROVE  DecisionQueued
  BY <1>7, ReplyQueue, WithoutKeepsTypes
<1>8. CASE LeaseExpires
  <2>1. PICK i \in DOMAIN queue : queue' = [queue EXCEPT ![i].by = {}]
    BY <1>8 DEF LeaseExpires
  <2>2. DOMAIN queue' = DOMAIN queue /\ queue[i] \in Events
    BY <1>t, <2>1
  <2>3. \A j \in DOMAIN queue : queue'[j].type = queue[j].type
    BY <1>t, <2>1, <2>2 DEF Events
  <2> QED
    BY <2>2, <2>3 DEF DecisionQueued
<1>9. CASE Restart
  <2>1. queue' = <<>> \/ queue' = <<Entry(snap.pending, snap.ready)>>
    BY <1>9 DEF Restart
  <2>2. snap.pending \in Decisions
    BY <2>1 DEF DecisionQueued, Entry
  <2> QED
    BY <1>9, <2>2 DEF Restart, HeldInv, Held
<1>10. ASSUME UNCHANGED queue PROVE DecisionQueued
  BY <1>10 DEF DecisionQueued
<1> QED
  BY <1>2, <1>3, <1>4, <1>5, <1>6, <1>7, <1>8, <1>9, <1>10, QuietSteps DEF Next,
     Browser, Agent, Works, LateCheckpoint, Checkpoint, vars, Quiet

\* A decision is pending only of a session that has been decided.
LEMMA PendingIsDecided ==
  ASSUME Types, HeldInv, [Next]_vars, snap'.pending \in Decisions
  PROVE  snap'.canceled
<1>t. snap \in Snaps
  BY DEF Types
<1>1. CASE snap.canceled
  BY <1>1, StepKeepsDecision
<1>2. CASE ~snap.canceled
  <2> USE DEF Decisions
  <2>0. snap.pending \notin Decisions
    BY <1>2 DEF HeldInv
  <2>1. ASSUME NEW type \in Decisions, Decide(type) PROVE snap'.canceled
    BY <1>t, <2>1, DecidingCancels DEF Decide
  <2>2. CASE DiscardOrphaned
    BY <1>t, <2>2 DEF DiscardOrphaned, Concluded, Decided, Snaps
  <2>3. CASE Go \/ MountFailed \/ LateCheckpoint \/ Checkpoint
             \/ \E a \in Agents : Prepared(a)
    BY <1>t, <2>0, <2>3 DEF Go, MountFailed, LateCheckpoint, Checkpoint, Prepared,
       Generated, MountFailure, Progress, Snaps
  <2>4. ASSUME NEW a \in Agents,
               ReplyDone(a) \/ ReplyError(a) \/ Promoted(a) \/ Reverted(a)
                 \/ DecisionFails(a) \/ Complete(a)
        PROVE  FALSE
    <3>1. \/ snap' = snap
          \/ \E c \in BOOLEAN : snap' = Finished(snap, c)
          \/ \E source : snap' = Failed(snap, source)
          \/ \E phase \in {"completed", "discarded"} :
               snap' = Concluded(snap, phase)
      BY <2>4, ReplySnap
    <3> QED
      BY <1>t, <2>0, <3>1 DEF Finished, Failed, Concluded, Snaps
  <2>5. CASE UNCHANGED snap
    BY <2>0, <2>5
  <2> QED
    BY <2>1, <2>2, <2>3, <2>4, <2>5, QuietSteps DEF Next, Browser, Agent, Works,
       Poll, Bounce, LeaseExpires, Restart, vars, Quiet
<1> QED
  BY <1>1, <1>2

\* A decision that waits for an agent is in the journal too, is answered, or was
\* overwritten by a preflight, however many agents poll and whatever restarts.
THEOREM DecisionsAreDurable == Spec => []DecisionDurable
<1>1. Init => HeldInv
  BY DEF Init, HeldInv, DecisionQueued, Decisions
<1>2. Types /\ HeldInv /\ [Next]_vars => HeldInv'
  BY HeldStays, DecisionComes, PendingIsDecided DEF HeldInv
<1>3. HeldInv => DecisionDurable
  BY DEF HeldInv, Held, DecisionQueued, DecisionDurable, Overwritten
<1> QED
  BY <1>1, <1>2, <1>3, TypesHold, PTL DEF Spec

-----------------------------------------------------------------------------
(* An event has one holder.  The generation alone can be leased twice, by the   *)
(* poll and again after the preflight: it is there that the agent that prepares *)
(* must be the one that holds it.                                               *)

Unique ==
  \A i, j \in DOMAIN queue : queue[i].type = queue[j].type => i = j
Sole == \A i \in DOMAIN queue : \A a, b \in queue[i].by : a = b
Claimed ==
  \A i \in DOMAIN queue, a \in Agents :
    agents[a].at = "preparing" /\ queue[i].type = "generate" => queue[i].by = {a}
Picking ==
  tab.ui = "picking" =>
    queue = <<>> /\ snap.pending = "none" /\ \A a \in Agents : agents[a] = Idle

LeaseInv == Unique /\ Sole /\ Claimed /\ Picking

\* Taking an event off the queue gives no agent and no event anything to share.
LEMMA WithoutKeepsLeases ==
  ASSUME Types, LeaseInv, NEW source, queue' = Without(queue, source),
         \A a \in Agents : agents'[a].at = "preparing" =>
           agents[a].at = "preparing"
  PROVE  Unique' /\ Sole' /\ Claimed'
<1>t. queue \in Seq(Events)
  BY DEF Types
<1>1. \A i \in DOMAIN queue' : \E k \in DOMAIN queue : queue'[i] = queue[k]
  BY <1>t, WithoutIsPart
<1>2. \A i, j \in DOMAIN queue' :
        i # j => \E k, l \in DOMAIN queue :
                   k # l /\ queue'[i] = queue[k] /\ queue'[j] = queue[l]
  BY <1>t, WithoutIsPart
<1>3. Unique'
  BY <1>2 DEF LeaseInv, Unique
<1>4. Sole'
  BY <1>1 DEF LeaseInv, Sole
<1>5. Claimed'
  BY <1>1 DEF LeaseInv, Claimed
<1> QED
  BY <1>3, <1>4, <1>5

\* An event is queued unleased and once, and a generation when no agent prepares one.
LEMMA EnqueueKeepsLeases ==
  ASSUME NEW q \in Seq(Events), NEW type \in EventTypes,
         queue' = Enqueue(q, type),
         \A i, j \in DOMAIN q : q[i].type = q[j].type => i = j,
         \A i \in DOMAIN q : \A a, b \in q[i].by : a = b,
         \A i \in DOMAIN q, a \in Agents :
           agents'[a].at = "preparing" /\ q[i].type = "generate" => q[i].by = {a},
         \/ type # "generate"
         \/ \A a \in Agents : agents'[a].at # "preparing"
  PROVE  Unique' /\ Sole' /\ Claimed'
<1>1. CASE Enqueue(q, type) = q
  BY <1>1 DEF Unique, Sole, Claimed
<1>2. CASE /\ \A i \in DOMAIN q : q[i].type # type
           /\ Len(Enqueue(q, type)) = Len(q) + 1
           /\ \A i \in 1..Len(q) : Enqueue(q, type)[i] = q[i]
           /\ Enqueue(q, type)[Len(q) + 1] = Entry(type, FALSE)
  <2>1. queue' \in Seq(Events) /\ Len(queue') = Len(q) + 1
    BY <1>2, EnqueueAdds
  <2>2. DOMAIN queue' = DOMAIN q \cup {Len(q) + 1}
    BY <2>1
  <2>3. /\ queue'[Len(q) + 1].type = type
        /\ queue'[Len(q) + 1].by = {}
    BY <1>2 DEF Entry
  <2>4. \A i \in DOMAIN q : queue'[i] = q[i] /\ q[i].type # type
    BY <1>2
  <2>5. Unique'
    BY <2>2, <2>3, <2>4 DEF Unique
  <2>6. Sole'
    BY <2>2, <2>3, <2>4 DEF Sole
  <2>7. Claimed'
    BY <2>2, <2>3, <2>4 DEF Claimed
  <2> QED
    BY <2>5, <2>6, <2>7
<1> QED
  BY <1>1, <1>2, EnqueueAdds

\* Before the user has asked for variants there is nothing to do.
LEMMA StepKeepsPicking ==
  ASSUME Types, Picking, [Next]_vars PROVE Picking'
<1> SUFFICES ASSUME tab'.ui = "picking" PROVE Picking'
  BY DEF Picking
<1>t. tab \in Tabs
  BY DEF Types
<1>h. \A reply : Hears(reply).ui = tab.ui \/ Hears(reply).ui # "picking"
  BY <1>t DEF Hears, Tabs
<1>1. CASE tab.ui # "picking"
  <2>1. ~Go
    BY <1>1 DEF Go
  <2>2. ~(VariantsArrive \/ Mounted \/ MountFailed \/ SendCheckpoint \/ Checkpoint)
    BY <1>1, <1>t DEF VariantsArrive, Mounted, MountFailed, SendCheckpoint,
       Checkpoint, Tabs
  <2>3. ~LateCheckpoint
    <3>1. LateCheckpoint => tab'.ui = Hears("done").ui \/ tab'.ui = tab.ui
      BY <1>t, TabTypes DEF LateCheckpoint, Tabs, Types
    <3> QED
      BY <1>1, <1>h, <3>1
  <2>4. \A type \in Decisions : ~Decide(type)
    BY <1>1, <1>t DEF Decide, Tabs
  <2>5. ~(DiscardOrphaned \/ Disconnect \/ Connect)
    BY <1>1, <1>t DEF DiscardOrphaned, Disconnect, Connect, Offline, Tabs
  <2>6. \A a \in Agents :
          ~(ReplyDone(a) \/ ReplyError(a) \/ Promoted(a) \/ Reverted(a)
              \/ DecisionFails(a) \/ Complete(a))
    <3>1. ASSUME NEW a \in Agents,
                 ReplyDone(a) \/ ReplyError(a) \/ Promoted(a) \/ Reverted(a)
                   \/ DecisionFails(a) \/ Complete(a)
          PROVE  \E reply : tab' = Hears(reply)
      BY <3>1 DEF ReplyDone, ReplyError, Promoted, Reverted, DecisionFails,
         Complete, Answer
    <3> QED
      BY <1>1, <1>h, <3>1
  <2>7. ~Restart
    BY <1>1, <1>t DEF Restart, Offline, Tabs
  <2>8. tab' # tab
    BY <1>1
  <2> QED
    BY <2>1, <2>2, <2>3, <2>4, <2>5, <2>6, <2>7, <2>8 DEF Next, Browser, Agent,
       Works, Poll, Prepared, CleanedUp, Bounce, AgentEnds, LeaseExpires, vars
<1>2. CASE tab.ui = "picking"
  <2>0. /\ queue = <<>> /\ snap.pending = "none"
        /\ \A a \in Agents : agents[a] = Idle
    BY <1>2 DEF Picking
  <2>1. ~Go
    BY <1>t DEF Go, Tabs
  <2>2. ~(VariantsArrive \/ Mounted \/ MountFailed \/ SendCheckpoint \/ Checkpoint
          \/ DiscardOrphaned \/ \E type \in Decisions : Decide(type))
    BY <1>2 DEF VariantsArrive, Mounted, MountFailed, SendCheckpoint, Checkpoint,
       DiscardOrphaned, Decide, Active
  <2>3. ASSUME LateCheckpoint PROVE Picking'
    <3>1. snap'.pending = "none"
      BY <2>0, <2>3 DEF LateCheckpoint, Progress, Types, Snaps
    <3> QED
      BY <2>0, <2>3, <3>1 DEF LateCheckpoint, Picking
  <2>4. \A a \in Agents : ~(Works(a) \/ Bounce(a) \/ AgentEnds(a))
    <3> SUFFICES ASSUME NEW a \in Agents PROVE ~(Works(a) \/ Bounce(a) \/ AgentEnds(a))
      OBVIOUS
    <3>1. agents[a].at = "idle"
      BY <2>0 DEF Idle
    <3>2. ~Poll(a)
      BY <2>0 DEF Poll, Available
    <3>3. ~(Prepared(a) \/ ReplyDone(a) \/ ReplyError(a) \/ DecisionFails(a))
      BY <3>1 DEF Prepared, ReplyDone, ReplyError, DecisionFails
    <3>4. ~(Promoted(a) \/ Reverted(a))
      <4>1. ASSUME NEW type, agents[a] = [at |-> "working", on |-> type] PROVE FALSE
        <5>1. agents[a].at = "working"
          BY <4>1
        <5> QED
          BY <3>1, <5>1
      <4>2. Promoted(a) => agents[a] = [at |-> "working", on |-> "accept"]
        BY DEF Promoted
      <4>3. Reverted(a) => agents[a] = [at |-> "working", on |-> "discard"]
        BY DEF Reverted
      <4> QED
        BY <4>1, <4>2, <4>3
    <3>5. ~(Complete(a) \/ CleanedUp(a) \/ Bounce(a) \/ AgentEnds(a))
      BY <3>1 DEF Complete, CleanedUp, Bounce, AgentEnds
    <3> QED
      BY <3>2, <3>3, <3>4, <3>5 DEF Works
  <2>5. ~LeaseExpires
    BY <2>0 DEF LeaseExpires
  <2>6. ASSUME Restart PROVE Picking'
    BY <2>0, <2>6 DEF Restart, Picking
  <2>7. ASSUME UNCHANGED <<snap, queue, agents>> PROVE Picking'
    BY <2>0, <2>7 DEF Picking
  <2> QED
    BY <2>1, <2>2, <2>3, <2>4, <2>5, <2>6, <2>7 DEF Next, Browser, Agent,
       Disconnect, Connect, vars
<1> QED
  BY <1>1, <1>2

\* No step gives an event a second holder.
LEMMA StepKeepsLeases ==
  ASSUME Types, LeaseInv, [Next]_vars PROVE LeaseInv'
<1>t. /\ queue \in Seq(Events)
      /\ agents \in [Agents -> [at : Places, on : EventTypes \cup {"none"}]]
      /\ \A i \in DOMAIN queue : queue[i] \in Events
  BY DEF Types
<1>p. Picking'
  BY StepKeepsPicking DEF LeaseInv
<1> SUFFICES Unique' /\ Sole' /\ Claimed'
  BY <1>p DEF LeaseInv
<1>1. CASE Go
  <2>1. \A a \in Agents : agents'[a].at # "preparing"
    BY <1>1 DEF Go, LeaseInv, Picking, Idle
  <2>2. "generate" \in EventTypes /\ queue' = Enqueue(queue, "generate")
    BY <1>1 DEF Go, EventTypes
  <2> QED
    BY <1>t, <2>1, <2>2, EnqueueKeepsLeases DEF LeaseInv, Unique, Sole, Claimed
<1>2. CASE MountFailed
  <2>1. "mount" \in EventTypes /\ queue' = Enqueue(queue, "mount")
    BY <1>2 DEF MountFailed, EventTypes
  <2>2. agents' = agents
    BY <1>2 DEF MountFailed
  <2> QED
    BY <1>t, <2>1, <2>2, EnqueueKeepsLeases DEF LeaseInv, Unique, Sole, Claimed
<1>3. ASSUME NEW type \in Decisions, Decide(type) PROVE Unique' /\ Sole' /\ Claimed'
  <2> DEFINE q == Without(queue, "generate")
  <2>1. /\ q \in Seq(Events)
        /\ \A i \in DOMAIN q : \E k \in DOMAIN queue : q[i] = queue[k]
        /\ \A i, j \in DOMAIN q :
             i # j => \E k, l \in DOMAIN queue :
                        k # l /\ q[i] = queue[k] /\ q[j] = queue[l]
    BY <1>t, WithoutIsPart
  <2>2. queue' = Enqueue(q, type) /\ agents' = agents
    BY <1>3 DEF Decide
  <2>3. type \in EventTypes /\ type # "generate"
    BY <1>3 DEF Decisions, EventTypes
  <2> HIDE DEF q
  <2>4. \A i, j \in DOMAIN q : q[i].type = q[j].type => i = j
    BY <2>1 DEF LeaseInv, Unique
  <2>5. \A i \in DOMAIN q : \A a, b \in q[i].by : a = b
    BY <2>1 DEF LeaseInv, Sole
  <2>6. \A i \in DOMAIN q, a \in Agents :
          agents'[a].at = "preparing" /\ q[i].type = "generate" => q[i].by = {a}
    BY <2>1, <2>2 DEF LeaseInv, Claimed
  <2> QED
    BY <2>1, <2>2, <2>3, <2>4, <2>5, <2>6, EnqueueKeepsLeases
<1>4. CASE DiscardOrphaned
  BY <1>4, WithoutKeepsLeases DEF DiscardOrphaned
\* The event is free, so no agent prepares it, and the agent that polls is alone.
<1>5. ASSUME NEW a \in Agents, Poll(a) PROVE Unique' /\ Sole' /\ Claimed'
  <2>1. PICK i \in Available :
          /\ queue' = Lease(i, a)
          /\ agents' = [agents EXCEPT ![a] =
               [at |-> IF queue[i].type = "generate" /\ ~queue[i].ready
                         THEN "preparing" ELSE "working",
                on |-> queue[i].type]]
    BY <1>5 DEF Poll
  <2>2. i \in DOMAIN queue /\ queue[i] \in Events /\ queue[i].by = {}
    BY <1>t DEF Available
  <2>3. /\ DOMAIN queue' = DOMAIN queue
        /\ queue'[i].by = {a}
        /\ \A j \in DOMAIN queue : /\ queue'[j].type = queue[j].type
                                   /\ j # i => queue'[j] = queue[j]
    BY <1>t, <2>1, <2>2 DEF Lease, Events
  <2>4. /\ \A b \in Agents : b # a => agents'[b] = agents[b]
        /\ agents'[a].at = "preparing" => queue[i].type = "generate"
    BY <1>t, <2>1
  <2>5. Unique'
    BY <2>3 DEF LeaseInv, Unique
  <2>6. Sole'
    BY <2>2, <2>3 DEF LeaseInv, Sole
  <2>7. Claimed'
    BY <2>2, <2>3, <2>4 DEF LeaseInv, Claimed, Unique
  <2> QED
    BY <2>5, <2>6, <2>7
\* The generation that is leased again is held by the agent that prepared it.
<1>6. ASSUME NEW a \in Agents, Prepared(a) PROVE Unique' /\ Sole' /\ Claimed'
  <2>1. /\ agents[a].at = "preparing"
        /\ agents' = [agents EXCEPT ![a].at = "working"]
        /\ DOMAIN queue' = DOMAIN queue
    BY <1>6 DEF Prepared
  <2>2. ASSUME NEW j \in DOMAIN queue
        PROVE  queue'[j].type = queue[j].type /\ queue'[j].by = queue[j].by
    <3>1. queue[j] \in Events
      BY <1>t
    <3>2. queue[j].type = "generate" => queue[j].by = {a}
      BY <2>1 DEF LeaseInv, Claimed
    <3> QED
      BY <1>6, <3>1, <3>2 DEF Prepared, Events
  <2>3. \A b \in Agents : agents'[b].at = "preparing" => agents[b].at = "preparing"
    BY <1>t, <2>1
  <2> QED
    BY <2>1, <2>2, <2>3 DEF LeaseInv, Unique, Sole, Claimed
<1>7. ASSUME NEW a \in Agents,
             ReplyDone(a) \/ ReplyError(a) \/ Promoted(a) \/ Reverted(a)
               \/ DecisionFails(a) \/ Complete(a) \/ Bounce(a)
      PROVE  Unique' /\ Sole' /\ Claimed'
  <2>1. PICK source : queue' = Without(queue, source)
    BY <1>7, ReplyQueue
  <2>2. \/ agents' = agents \/ agents' = [agents EXCEPT ![a] = Idle]
        \/ agents' = [agents EXCEPT ![a].at = "carbonizing"]
        \/ agents' = [agents EXCEPT ![a].at = "cleaning"]
    BY <1>7 DEF ReplyDone, ReplyError, Promoted, Reverted, DecisionFails, Complete,
       Bounce
  <2>3. \A b \in Agents : agents'[b].at = "preparing" => agents[b].at = "preparing"
    BY <1>t, <2>2 DEF Idle
  <2> QED
    BY <2>1, <2>3, WithoutKeepsLeases
<1>8. ASSUME NEW a \in Agents, CleanedUp(a) \/ AgentEnds(a)
      PROVE  Unique' /\ Sole' /\ Claimed'
  <2>1. queue' = queue /\ agents' = [agents EXCEPT ![a] = Idle]
    BY <1>8 DEF CleanedUp, AgentEnds
  <2>2. \A b \in Agents : agents'[b].at = "preparing" => agents[b].at = "preparing"
    BY <1>t, <2>1 DEF Idle
  <2> QED
    BY <2>1, <2>2 DEF LeaseInv, Unique, Sole, Claimed
\* A lease that is claimed does not expire while its holder prepares.
<1>9. CASE LeaseExpires
  <2>1. PICK i \in DOMAIN queue : /\ \A a \in queue[i].by : agents[a].at # "preparing"
                                  /\ queue' = [queue EXCEPT ![i].by = {}]
    BY <1>9 DEF LeaseExpires
  <2>2. queue[i] \in Events /\ agents' = agents
    BY <1>t, <1>9 DEF LeaseExpires
  <2>3. /\ DOMAIN queue' = DOMAIN queue
        /\ queue'[i].by = {}
        /\ \A j \in DOMAIN queue : /\ queue'[j].type = queue[j].type
                                   /\ j # i => queue'[j] = queue[j]
    BY <1>t, <2>1, <2>2 DEF Events
  <2>4. Unique'
    BY <2>3 DEF LeaseInv, Unique
  <2>5. Sole'
    BY <2>3 DEF LeaseInv, Sole
  <2>6. Claimed'
    BY <2>1, <2>2, <2>3 DEF LeaseInv, Claimed
  <2> QED
    BY <2>4, <2>5, <2>6
<1>10. CASE Restart
  <2>1. \A a \in Agents : agents'[a].at # "preparing"
    BY <1>10 DEF Restart, Idle
  <2>2. queue' = <<>> \/ queue' = <<Entry(snap.pending, snap.ready)>>
    BY <1>10 DEF Restart
  <2>3. Unique' /\ Sole'
    BY <2>2 DEF Unique, Sole, Entry
  <2> QED
    BY <2>1, <2>3 DEF Claimed
<1>11. ASSUME UNCHANGED <<queue, agents>> PROVE Unique' /\ Sole' /\ Claimed'
  BY <1>11 DEF LeaseInv, Unique, Sole, Claimed
<1> QED
  BY <1>1, <1>2, <1>3, <1>4, <1>5, <1>6, <1>7, <1>8, <1>9, <1>10, <1>11 DEF Next,
     Browser, Agent, Works, LateCheckpoint, Checkpoint, VariantsArrive, Mounted,
     SendCheckpoint, Disconnect, Connect, vars

\* An event is in the hands of one agent at a time, for any number of agents.
THEOREM OneHolder == Spec => []OneLeaseholder
<1>1. Init => LeaseInv
  BY DEF Init, LeaseInv, Unique, Sole, Claimed, Picking
<1>2. Types /\ LeaseInv /\ [Next]_vars => LeaseInv'
  BY StepKeepsLeases
<1>3. LeaseInv => OneLeaseholder
  <2> SUFFICES ASSUME LeaseInv, NEW i \in DOMAIN queue
               PROVE  Cardinality(queue[i].by) <= 1
    BY DEF OneLeaseholder
  <2>1. CASE queue[i].by = {}
    BY <2>1, FS_EmptySet
  <2>2. CASE queue[i].by # {}
    <3>1. PICK a : queue[i].by = {a}
      BY <2>2 DEF LeaseInv, Sole
    <3>2. Cardinality({a}) = 1
      BY FS_Singleton
    <3> QED
      BY <3>1, <3>2
  <2> QED
    BY <2>1, <2>2
<1> QED
  BY <1>1, <1>2, <1>3, TypesHold, PTL DEF Spec

-----------------------------------------------------------------------------
(* The lock that accepting and discarding take on a source file.  As long as no  *)
(* process ends and none is stalled it excludes, for any number of processes:   *)
(* whoever is past the creation of the file owns the file there is, and nobody  *)
(* is about to sweep it.                                                        *)

CONSTANTS Procs, Stallers
VARIABLES lock, pc, seen, stalled
Lock == INSTANCE SourceLock

LockPlaces ==
  {"idle", "clear", "check", "stat", "sweep", "open", "write", "section", "release",
   "unlink", "done", "exited"}

LockTypes ==
  /\ lock \in [owner : SUBSET Procs, readable : BOOLEAN]
  /\ pc \in [Procs -> LockPlaces]
  /\ seen \in [Procs -> SUBSET Procs]

Inside == {"write", "section", "release", "unlink"}

LockInv ==
  /\ \A p \in Procs : pc[p] \in Inside => lock.owner = {p}
  /\ \A p \in Procs : pc[p] # "sweep"

\* The lock file names processes only, and so does what clearStaleLock read in it.
LEMMA LockTypesHold == Lock!Spec => []LockTypes
<1>1. Lock!Init => LockTypes
  BY DEF Lock!Init, LockTypes, LockPlaces, Lock!NoLock
<1>2. LockTypes /\ [Lock!Next]_(Lock!vars) => LockTypes'
  <2> SUFFICES ASSUME LockTypes, [Lock!Next]_(Lock!vars) PROVE LockTypes'
    OBVIOUS
  <2> USE DEF LockTypes, LockPlaces, Lock!Goto, Lock!Step
  <2>1. ASSUME NEW p \in Procs, Lock!Call(p) PROVE LockTypes'
    BY <2>1 DEF Lock!Call
  <2>2. ASSUME NEW p \in Procs, Lock!ReadLock(p) PROVE LockTypes'
    BY <2>2 DEF Lock!ReadLock
  <2>3. ASSUME NEW p \in Procs, Lock!CheckPid(p) PROVE LockTypes'
    BY <2>3 DEF Lock!CheckPid
  <2>4. ASSUME NEW p \in Procs, Lock!CheckAge(p) PROVE LockTypes'
    BY <2>4 DEF Lock!CheckAge
  <2>5. ASSUME NEW p \in Procs, Lock!Sweep(p) PROVE LockTypes'
    BY <2>5 DEF Lock!Sweep, Lock!NoLock
  <2>6. ASSUME NEW p \in Procs, Lock!Create(p) PROVE LockTypes'
    BY <2>6 DEF Lock!Create, Lock!LockOf
  <2>7. ASSUME NEW p \in Procs, Lock!Exists(p) PROVE LockTypes'
    BY <2>7 DEF Lock!Exists
  <2>8. ASSUME NEW p \in Procs, Lock!Write(p) PROVE LockTypes'
    BY <2>8 DEF Lock!Write, Lock!Mine
  <2>15. ASSUME NEW p \in Procs, Lock!WriteFails(p) PROVE LockTypes'
    BY <2>15 DEF Lock!WriteFails
  <2>9. ASSUME NEW p \in Procs, Lock!Finish(p) PROVE LockTypes'
    BY <2>9 DEF Lock!Finish
  <2>10. ASSUME NEW p \in Procs, Lock!ReadOwn(p) PROVE LockTypes'
    BY <2>10 DEF Lock!ReadOwn
  <2>11. ASSUME NEW p \in Procs, Lock!Unlink(p) PROVE LockTypes'
    BY <2>11 DEF Lock!Unlink, Lock!NoLock
  <2>12. ASSUME NEW p \in Procs, Lock!Exit(p) PROVE LockTypes'
    BY <2>12 DEF Lock!Exit
  <2>13. ASSUME NEW p \in Procs, Lock!Stall(p) PROVE LockTypes'
    BY <2>13 DEF Lock!Stall
  <2>14. CASE UNCHANGED Lock!vars
    BY <2>14 DEF Lock!vars
  <2> QED
    BY <2>1, <2>2, <2>3, <2>4, <2>5, <2>6, <2>7, <2>8, <2>9, <2>10, <2>11, <2>12,
       <2>13, <2>14, <2>15 DEF Lock!Next, Lock!Process
<1> QED
  BY <1>1, <1>2, PTL DEF Lock!Spec

\* One step keeps the owner of the file the only one inside, if all live before it.
LEMMA StepKeepsLock ==
  ASSUME LockTypes, Lock!AllLive, LockInv, [Lock!Next]_(Lock!vars) PROVE LockInv'
<1> USE DEF LockTypes, LockInv, Inside, Lock!Goto, Lock!Step
<1>1. ASSUME NEW p \in Procs, Lock!Call(p) PROVE LockInv'
  BY <1>1 DEF Lock!Call
<1>2. ASSUME NEW p \in Procs, Lock!ReadLock(p) PROVE LockInv'
  BY <1>2 DEF Lock!ReadLock
\* The pid that was read is that of a live process.
<1>3. ASSUME NEW p \in Procs, Lock!CheckPid(p) PROVE LockInv'
  BY <1>3 DEF Lock!CheckPid, Lock!AllLive
<1>4. ASSUME NEW p \in Procs, Lock!CheckAge(p) PROVE LockInv'
  BY <1>4 DEF Lock!CheckAge, Lock!AllLive
<1>5. ASSUME NEW p \in Procs, Lock!Sweep(p) PROVE LockInv'
  BY <1>5 DEF Lock!Sweep
\* The file does not exist, so nobody is inside.
<1>6. ASSUME NEW p \in Procs, Lock!Create(p) PROVE LockInv'
  <2>1. \A q \in Procs : pc[q] \notin Inside
    BY <1>6 DEF Lock!Create, Lock!NoLock
  <2> QED
    BY <1>6, <2>1 DEF Lock!Create, Lock!LockOf
<1>7. ASSUME NEW p \in Procs, Lock!Exists(p) PROVE LockInv'
  BY <1>7 DEF Lock!Exists
<1>8. ASSUME NEW p \in Procs, Lock!Write(p) PROVE LockInv'
  <2>1. lock'.owner = lock.owner
    BY <1>8 DEF Lock!Write
  <2> QED
    BY <1>8, <2>1 DEF Lock!Write
<1>15. ASSUME NEW p \in Procs, Lock!WriteFails(p) PROVE LockInv'
  BY <1>15 DEF Lock!WriteFails
<1>9. ASSUME NEW p \in Procs, Lock!Finish(p) PROVE LockInv'
  BY <1>9 DEF Lock!Finish
<1>10. ASSUME NEW p \in Procs, Lock!ReadOwn(p) PROVE LockInv'
  BY <1>10 DEF Lock!ReadOwn
\* The file that goes is the own one, so nobody else is inside.
<1>11. ASSUME NEW p \in Procs, Lock!Unlink(p) PROVE LockInv'
  <2>1. \A q \in Procs : pc[q] \in Inside => q = p
    BY <1>11 DEF Lock!Unlink
  <2> QED
    BY <1>11, <2>1 DEF Lock!Unlink
<1>12. ASSUME NEW p \in Procs, Lock!Exit(p) PROVE LockInv'
  BY <1>12 DEF Lock!Exit
<1>13. ASSUME NEW p \in Procs, Lock!Stall(p) PROVE LockInv'
  BY <1>13 DEF Lock!Stall
<1>14. CASE UNCHANGED Lock!vars
  BY <1>14 DEF Lock!vars
<1> QED
  BY <1>1, <1>2, <1>3, <1>4, <1>5, <1>6, <1>7, <1>8, <1>9, <1>10, <1>11, <1>12,
     <1>13, <1>14, <1>15 DEF Lock!Next, Lock!Process

\* withSourceLockSync keeps two writers out of one source file as long as no
\* process ends while others use the lock and no creator of a lock is stalled for a
\* minute, whatever the number of processes and however they overlap.
THEOREM LiveProcessesExclude == Lock!Spec => Lock!ExclusiveWhileAllLive
<1>1. Lock!Init => LockInv
  BY DEF Lock!Init, LockInv, Inside
<1>2. LockTypes /\ Lock!AllLive /\ LockInv /\ [Lock!Next]_(Lock!vars) => LockInv'
  BY StepKeepsLock
<1>3. LockInv => Lock!MutualExclusion
  BY DEF LockInv, Lock!MutualExclusion, Inside
<1> QED
  BY <1>1, <1>2, <1>3, LockTypesHold, PTL DEF Lock!Spec, Lock!ExclusiveWhileAllLive
=============================================================================
