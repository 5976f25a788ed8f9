------------------------------ MODULE LiveSession -----------------------------
(* One variant session of the live editing tool in .agents/skills/impeccable:   *)
(* the browser asks for variants, compares them and accepts one or discards     *)
(* them; the server keeps a journal on disk and a queue of events in memory,    *)
(* which it leases to the coding agents that poll for work; the agents write    *)
(* the source files and reply.  An agent may end or outlive its lease, the      *)
(* server may restart, the page may reload at any time, and the response to a   *)
(* request may be lost.  The snapshot stands for the journal it is derived from. *)
EXTENDS Naturals, Sequences, FiniteSets, SequencesExt

CONSTANTS
  Agents,
  MaxEvents   \* bound: decisions of the user, restarts of the server, agents that
              \* end and publications that fail, in all

ASSUME LiveSessionAssumption ==
  /\ IsFiniteSet(Agents) /\ MaxEvents \in Nat

VARIABLES
  snap,     \* the snapshot of the session store
  queue,    \* pendingEvents; by: the agents that hold an unexpired lease
  agents,   \* what each agent does, and for which event
  tab,      \* the browser: its state, whether it has the event stream, and whether
            \* a checkpoint that says it is generating is on its way
  count     \* how often what is bounded has happened, and history: whether an agent
            \* reported an error, and whether a publication did not compile
vars == <<snap, queue, agents, tab, count>>

Decisions == {"accept", "discard"}
Active == {"generating", "mounting", "cycling"}
FencedPhases ==
  {"accept_requested", "discard_requested", "carbonize_required", "completed",
   "discarded"}
CompletedPhases == {"completed", "discarded"}
Idle == [at |-> "idle", on |-> "none"]

Init ==
  /\ snap = [phase |-> "none", pending |-> "none", ready |-> FALSE,
             canceled |-> FALSE, done |-> FALSE]
  /\ queue = <<>>
  /\ agents = [a \in Agents |-> Idle]
  /\ tab = [ui |-> "picking", online |-> TRUE, sent |-> FALSE]
  /\ count = [events |-> 0, bounced |-> FALSE, erred |-> FALSE]

-----------------------------------------------------------------------------
(* The session store: what each kind of event does to the snapshot.            *)

Fenced(s) == s.canceled \/ s.phase \in FencedPhases

Generated(s, ready) ==
  [s EXCEPT !.phase = "generate_requested", !.pending = "generate", !.ready = ready]

Finished(s, carbonize) ==
  IF Fenced(s) /\ ~(carbonize /\ s.phase = "accept_requested")
    THEN s
    ELSE [s EXCEPT !.phase = IF carbonize THEN "carbonize_required"
                                          ELSE "variants_ready",
                   !.done = TRUE, !.pending = "none"]

Failed(s, source) ==
  IF s.canceled /\ source = "generate"
    THEN s ELSE [s EXCEPT !.phase = "agent_error", !.pending = "none"]

\* Mutants: a failure takes the place of a decision; a checkpoint is not fenced.
MountFailureClobbers(s) == [s EXCEPT !.pending = "mount"]
ProgressUnfenced(s, ui) == [s EXCEPT !.phase = ui]

MountFailure(s) == IF s.pending = "none" THEN [s EXCEPT !.pending = "mount"] ELSE s
Progress(s, ui) == IF Fenced(s) THEN s ELSE [s EXCEPT !.phase = ui]

Decided(s, type) ==
  [s EXCEPT !.phase = IF type = "accept" THEN "accept_requested"
                                         ELSE "discard_requested",
            !.canceled = TRUE, !.pending = type]
Concluded(s, phase) == [s EXCEPT !.phase = phase, !.pending = "none"]

\* Mutant: the phase tells whether the generation has completed.
MissedByPhase(s) == s.phase = "variants_ready"
\* missedCompletionFromSnapshot, and the same test of recoverMissedGenerationCompletion.
Missed(s) == s.done /\ ~Fenced(s)

-----------------------------------------------------------------------------
(* The queue of the server.                                                    *)

Queued(type) == \E i \in DOMAIN queue : queue[i].type = type
Entry(type, ready) == [type |-> type, ready |-> ready, by |-> {}]
Enqueue(q, type) ==
  IF \E i \in DOMAIN q : q[i].type = type THEN q ELSE Append(q, Entry(type, FALSE))
\* An event of a type is queued once at most, so whichever is the first.
Without(q, type) ==
  IF \E i \in DOMAIN q : q[i].type = type
    THEN RemoveAt(q, CHOOSE i \in DOMAIN q : q[i].type = type)
    ELSE q

Priority(type) ==
  CASE type \in Decisions -> 0 [] type = "generate" -> 2 [] type = "mount" -> 3
\* selectAvailablePendingEvent
Available ==
  LET free == {i \in DOMAIN queue : queue[i].by = {}}
  IN  {i \in free : \A j \in free :
         \/ Priority(queue[i].type) < Priority(queue[j].type)
         \/ Priority(queue[i].type) = Priority(queue[j].type) /\ i <= j}

\* inferSourceEventType: an error is put down to whichever event is leased.
FirstLeased ==
  LET leased == SelectSeq(queue, LAMBDA e : e.by # {})
  IN  IF leased = <<>> THEN "generate" ELSE Head(leased).type
Inferred(reply) ==
  CASE reply = "done" /\ ~Queued("generate") /\ Queued("mount") -> "mount"
    [] reply = "complete" /\ Queued("accept") -> "accept"
    [] reply = "complete" /\ ~Queued("accept") /\ ~Queued("generate") ->
         IF queue = <<>> THEN "none" ELSE Head(queue).type
    [] reply = "error" -> FirstLeased
    [] OTHER -> "generate"

-----------------------------------------------------------------------------
(* The browser.                                                                *)

Hears(reply) ==
  CASE ~tab.online -> tab
    [] tab.online /\ reply = "done" /\ tab.ui = "generating" ->
         [tab EXCEPT !.ui = "mounting"]
    [] tab.online /\ reply \in {"error", "discarded"} /\ tab.ui \in Active ->
         [tab EXCEPT !.ui = "handled"]
    [] OTHER -> tab

Go ==
  /\ tab.ui = "picking"
  /\ tab' = [tab EXCEPT !.ui = "generating"]
  /\ snap' = Generated(snap, FALSE)
  /\ queue' = Enqueue(queue, "generate")
  /\ UNCHANGED <<agents, count>>

\* Hot reloading shows the first variants while the agent still writes.
VariantsArrive ==
  /\ tab.online /\ tab.ui = "generating"
  /\ \E a \in Agents : agents[a] = [at |-> "working", on |-> "generate"]
  /\ tab' = [tab EXCEPT !.ui = "cycling"]
  /\ UNCHANGED <<snap, queue, agents, count>>

Mounted ==
  /\ tab.ui = "mounting"
  /\ tab' = [tab EXCEPT !.ui = "cycling"]
  /\ UNCHANGED <<snap, queue, agents, count>>

\* A published component does not load.
MountFailed ==
  /\ tab.ui \in {"mounting", "cycling"} /\ count.events < MaxEvents
  /\ tab' = [tab EXCEPT !.ui = IF @ = "mounting" THEN "generating" ELSE @]
  /\ snap' = MountFailure(snap)
  /\ queue' = Enqueue(queue, "mount")
  /\ count' = [count EXCEPT !.events = @ + 1]
  /\ UNCHANGED agents

\* A checkpoint of a page that waits may be overtaken by what happens meanwhile.
SendCheckpoint ==
  /\ tab.ui \in {"generating", "mounting"}
  /\ tab' = [tab EXCEPT !.sent = TRUE]
  /\ UNCHANGED <<snap, queue, agents, count>>

LateCheckpoint ==
  /\ tab.sent
  /\ snap' = Progress(snap, "generating")
  /\ tab' = [(IF Missed(snap) THEN Hears("done") ELSE tab) EXCEPT !.sent = FALSE]
  /\ UNCHANGED <<queue, agents, count>>

Checkpoint ==
  /\ tab.ui = "cycling"
  /\ snap' = Progress(snap, "cycling")
  /\ tab' = [tab EXCEPT !.sent = FALSE]
  /\ UNCHANGED <<queue, agents, count>>

\* The event is durable and the generation retired before the response, which a
\* reload of the page may lose: then the page shows the variants as before.
Decide(type) ==
  /\ tab.ui \in (IF type = "accept" THEN {"cycling"} ELSE Active)
  /\ count.events < MaxEvents
  /\ snap' = Decided(snap, type)
  /\ queue' = Enqueue(Without(queue, "generate"), type)
  /\ \E ui \in {"handled", tab.ui} : tab' = [tab EXCEPT !.ui = ui]
  /\ count' = [count EXCEPT !.events = @ + 1]
  /\ UNCHANGED agents

\* The wrapper is gone from the source: nothing for an agent to do.
DiscardOrphaned ==
  /\ tab.ui = "cycling" /\ count.events < MaxEvents
  /\ snap' = Concluded(Decided(snap, "discard"), "discarded")
  /\ queue' = Without(queue, "generate")
  /\ tab' = [tab EXCEPT !.ui = "handled"]
  /\ count' = [count EXCEPT !.events = @ + 1]
  /\ UNCHANGED agents

Offline == [tab EXCEPT !.online = FALSE, !.ui = IF @ = "mounting" THEN "generating"
                                                                 ELSE @]
Disconnect == tab.online /\ tab' = Offline /\ UNCHANGED <<snap, queue, agents, count>>

Connect ==
  /\ ~tab.online
  /\ tab' = [tab EXCEPT !.online = TRUE,
                        !.ui = IF @ = "generating" /\ Missed(snap) THEN "mounting"
                                                                   ELSE @]
  /\ UNCHANGED <<snap, queue, agents, count>>

-----------------------------------------------------------------------------
(* The agents and the server.                                                  *)

Lease(i, a) == [queue EXCEPT ![i].by = @ \cup {a}]

\* Mutant: a generation is claimed when its preflight is over.
PollUnclaimed(a) ==
  /\ agents[a] = Idle
  /\ \E i \in Available :
       LET prepare == queue[i].type = "generate" /\ ~queue[i].ready
       IN  /\ queue' = IF prepare THEN queue ELSE Lease(i, a)
           /\ agents' = [agents EXCEPT ![a] =
                [at |-> IF prepare THEN "preparing" ELSE "working",
                 on |-> queue[i].type]]
  /\ UNCHANGED <<snap, tab, count>>

\* The entry is claimed before the preflight of a generation is awaited.
Poll(a) ==
  /\ agents[a] = Idle
  /\ \E i \in Available :
       /\ queue' = Lease(i, a)
       /\ agents' = [agents EXCEPT ![a] =
            [at |-> IF queue[i].type = "generate" /\ ~queue[i].ready
                      THEN "preparing" ELSE "working",
             on |-> queue[i].type]]
  /\ UNCHANGED <<snap, tab, count>>

\* After the preflight the lease is stamped anew, and the generation is written to
\* the journal once more and handed over, whatever the user has decided meanwhile.
Prepared(a) ==
  /\ agents[a].at = "preparing"
  /\ agents' = [agents EXCEPT ![a].at = "working"]
  /\ queue' = [i \in DOMAIN queue |->
                 IF queue[i].type = "generate"
                   THEN [queue[i] EXCEPT !.ready = TRUE, !.by = @ \cup {a}]
                   ELSE queue[i]]
  /\ snap' = Generated(snap, TRUE)
  /\ UNCHANGED <<tab, count>>

\* A reply takes the event of that type off the queue, and is journaled unless
\* there was none and the session is over.
Answer(source, next, reply) ==
  LET acknowledged == Queued(source)
  IN  /\ queue' = Without(queue, source)
      /\ snap' = IF ~acknowledged /\ snap.phase \in CompletedPhases
                   THEN snap ELSE next
      /\ tab' = Hears(reply)

\* A generation that outlived its lease or was retired is answered all the same.
ReplyDone(a) ==
  /\ agents[a].at = "working" /\ agents[a].on \in {"generate", "mount"}
  /\ Answer(Inferred("done"), Finished(snap, FALSE), "done")
  /\ agents' = [agents EXCEPT ![a] = Idle]
  /\ UNCHANGED count

ReplyError(a) ==
  /\ agents[a].at = "working" /\ agents[a].on \in {"generate", "mount"}
  /\ LET source == Inferred("error")
     IN  Answer(source, Failed(snap, IF Queued(source) THEN source ELSE "none"),
                "error")
  /\ agents' = [agents EXCEPT ![a] = Idle]
  /\ count' = [count EXCEPT !.erred = TRUE]

\* What was published does not compile: the event is off the queue already, and
\* the agent is told to reply again.
Bounce(a) ==
  /\ agents[a].at = "working" /\ agents[a].on \in {"generate", "mount"}
  /\ count.events < MaxEvents
  /\ queue' = Without(queue, Inferred("done"))
  /\ count' = [count EXCEPT !.bounced = TRUE, !.events = @ + 1]
  /\ UNCHANGED <<snap, agents, tab>>

\* The poll script has run live-accept.mjs and reports what became of it.
Promoted(a) ==
  /\ agents[a] = [at |-> "working", on |-> "accept"]
  /\ \/ /\ Answer("accept", Concluded(snap, "completed"), "complete")
        /\ agents' = [agents EXCEPT ![a] = Idle]
     \/ /\ Answer("accept", Finished(snap, TRUE), "agent_done")
        /\ agents' = [agents EXCEPT ![a].at = "carbonizing"]
     \/ /\ Answer("accept", Finished(snap, FALSE), "agent_done")
        /\ agents' = [agents EXCEPT ![a].at = "cleaning"]
  /\ UNCHANGED count

Reverted(a) ==
  /\ agents[a] = [at |-> "working", on |-> "discard"]
  /\ Answer("discard", Concluded(snap, "discarded"), "discarded")
  /\ agents' = [agents EXCEPT ![a] = Idle]
  /\ UNCHANGED count

\* The source is locked, the markers are gone, or the other decision came first.
DecisionFails(a) ==
  /\ agents[a].at = "working" /\ agents[a].on \in Decisions
  /\ LET type == agents[a].on
     IN  Answer(type, Failed(snap, IF Queued(type) THEN type ELSE "none"), "error")
  /\ agents' = [agents EXCEPT ![a] = Idle]
  /\ UNCHANGED count

\* live-complete.mjs after the carbonize cleanup; its reply names no event type.
Complete(a) ==
  /\ agents[a].at = "carbonizing"
  /\ Answer(Inferred("complete"), Concluded(snap, "completed"), "complete")
  /\ agents' = [agents EXCEPT ![a] = Idle]
  /\ UNCHANGED count

CleanedUp(a) ==
  /\ agents[a].at = "cleaning"
  /\ agents' = [agents EXCEPT ![a] = Idle]
  /\ UNCHANGED <<snap, queue, tab, count>>

\* The server waits ten minutes; the preflight, fifteen seconds at most, is over.
LeaseExpires ==
  /\ \E i \in DOMAIN queue :
       /\ queue[i].by # {}
       /\ \A a \in queue[i].by : agents[a].at # "preparing"
       /\ queue' = [queue EXCEPT ![i].by = {}]
  /\ UNCHANGED <<snap, agents, tab, count>>

AgentEnds(a) ==
  /\ agents[a].at \notin {"idle", "preparing"} /\ count.events < MaxEvents
  /\ agents' = [agents EXCEPT ![a] = Idle]
  /\ count' = [count EXCEPT !.events = @ + 1]
  /\ UNCHANGED <<snap, queue, tab>>

\* Mutant: a session that has been decided is not restored.
RestartUnfenced ==
  /\ count.events < MaxEvents
  /\ queue' = IF snap.pending = "none" \/ snap.phase \in FencedPhases
                THEN <<>> ELSE <<Entry(snap.pending, snap.ready)>>
  /\ agents' = [a \in Agents |->
                  IF \/ agents[a].at = "preparing"
                     \/ agents[a].at = "working" /\ agents[a].on \in Decisions
                    THEN Idle ELSE agents[a]]
  /\ tab' = [Offline EXCEPT !.sent = FALSE]
  /\ count' = [count EXCEPT !.events = @ + 1]
  /\ UNCHANGED snap

\* The queue is rebuilt from the journal; what the poll script was about to report
\* goes to the old server.
Restart ==
  /\ count.events < MaxEvents
  /\ queue' = IF snap.pending = "none" \/ snap.phase \in CompletedPhases
                THEN <<>> ELSE <<Entry(snap.pending, snap.ready)>>
  /\ agents' = [a \in Agents |->
                  IF \/ agents[a].at = "preparing"
                     \/ agents[a].at = "working" /\ agents[a].on \in Decisions
                    THEN Idle ELSE agents[a]]
  /\ tab' = [Offline EXCEPT !.sent = FALSE]
  /\ count' = [count EXCEPT !.events = @ + 1]
  /\ UNCHANGED snap

Browser ==
  \/ Go \/ VariantsArrive \/ Mounted \/ MountFailed \/ SendCheckpoint
  \/ LateCheckpoint \/ Checkpoint \/ DiscardOrphaned \/ Disconnect \/ Connect
  \/ \E type \in Decisions : Decide(type)
Works(a) ==
  \/ Poll(a) \/ Prepared(a) \/ ReplyDone(a) \/ ReplyError(a) \/ Promoted(a)
  \/ Reverted(a) \/ DecisionFails(a) \/ Complete(a) \/ CleanedUp(a)
Agent == \E a \in Agents : Works(a) \/ Bounce(a) \/ AgentEnds(a)
Next == Browser \/ Agent \/ LeaseExpires \/ Restart

\* Agents go on polling and answer what they were given, unless they end; timers
\* fire, the page reconnects, and is not reloaded each time before it has imported
\* what was published.  Nobody has to decide.
Fairness ==
  /\ \A a \in Agents : WF_vars(Works(a))
  /\ WF_vars(LeaseExpires) /\ WF_vars(Connect) /\ SF_vars(Mounted \/ MountFailed)
Spec == Init /\ [][Next]_vars /\ Fairness

-----------------------------------------------------------------------------
(* Properties.                                                                 *)

Answered == {"carbonize_required", "completed", "discarded", "agent_error"}
\* The preflight ended after the decision and wrote its generation over it.
Overwritten == snap.canceled /\ snap.pending = "generate"

\* An event is in the hands of one agent at a time, as long as leases last.
OneLeaseholder == \A i \in DOMAIN queue : Cardinality(queue[i].by) <= 1

\* What the user has decided and no agent has carried out is in the journal too:
\* a restart does not lose it.
DecisionDurable ==
  \A i \in DOMAIN queue : queue[i].type \in Decisions =>
    snap.pending \in Decisions \/ snap.phase \in Answered \/ Overwritten

\* After a decision neither a late reply of an agent nor a late checkpoint of the
\* page takes the session back to comparing variants.
DecisionFences ==
  [][snap.canceled =>
       snap'.canceled /\ snap'.phase \notin {"variants_ready", "generating",
                                             "cycling"}]_vars

\* A decision is carried out, or the page is told that it failed, or an agent has
\* been told to clean up by hand.
DecisionAnswered ==
  (\E type \in Decisions : Queued(type)) ~>
    \/ snap.phase \in Answered \/ Overwritten
    \/ \E a \in Agents : agents[a].at = "cleaning"

\* A page that waits for variants gets to see them, whatever reloads, restarts and
\* agents that end, unless an agent reported an error, the user decided otherwise,
\* or a publication was bounced.
GoAnswered ==
  tab.ui \in {"generating", "mounting"} ~>
    \/ tab.ui \in {"cycling", "handled"}
    \/ snap.canceled \/ count.erred \/ count.bounced
=============================================================================
