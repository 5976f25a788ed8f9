------------------------------ MODULE Incidents ------------------------------
(* The orchestrator's incidents: the consumer of anomaly-detected that creates *)
(* and completes them (AnomalyEventConsumer.java), the requests and the        *)
(* healing loop that change them (IncidentController.java,                     *)
(* IncidentCommandService.java), and the state machine that guards one of the  *)
(* requests (StateMachineConfig.java).  There is no version column: whoever    *)
(* saves an incident writes the whole row from what it read, and two such      *)
(* writers may overlap.                                                        *)
EXTENDS Naturals, Sequences, FiniteSets, SequencesExt

CONSTANTS
  Anomalies,    \* anomaly ids, one record of the topic each
  Consumers,    \* listener threads, of any number of replicas
  Sessions,     \* requests and healing callbacks under way at a time
  MaxCommands,  \* bound on the requests and callbacks
  Faults, MaxFaults

ASSUME IncidentsAssumption ==
  /\ IsFiniteSet(Consumers)
  /\ MaxCommands \in Nat /\ MaxFaults \in Nat
  /\ Faults \subseteq {"redis", "expiry", "redeliver", "database", "crash"}

VARIABLES
  row,       \* the incidents table; an id is an anomaly and a number
  timeline,  \* the state_changed events of an incident
  pending,   \* undelivered copies of an anomaly's record
  marked,    \* the anomalies Redis has seen in the last 24 hours
  intake,    \* the record a consumer works on, and how far it is
  session,   \* the command a session carries out, and the row it has read
  commands,  \* commands begun
  blind,     \* history: checks Redis could not make, and expired marks
  raced,     \* history: anomalies that two consumers were creating at a time
  stale,     \* history: incidents written from an outdated copy
  unfinished,\* history: anomalies whose processing a fault cut short
  faults

table == <<row, timeline, stale>>
topic == <<pending, marked, blind, raced, unfinished>>
requests == <<session, commands>>
vars == <<table, topic, intake, requests, faults>>

\* Faulty: the machine lets a resolved incident be taken up again.
MachineReopens == {
  <<"DETECTED",      "TRIAGE",              "TRIAGED">>,
  <<"RESOLVED",      "START_INVESTIGATION", "INVESTIGATING">> }

\* StateMachineConfig's transitions.
Machine == {
  <<"DETECTED",      "TRIAGE",              "TRIAGED">>,
  <<"TRIAGED",       "START_INVESTIGATION", "INVESTIGATING">>,
  <<"INVESTIGATING", "HEAL",                "HEALING">>,
  <<"INVESTIGATING", "ESCALATE",            "ESCALATED">>,
  <<"HEALING",       "VALIDATE",            "VALIDATING">>,
  <<"HEALING",       "ROLLBACK",            "ROLLED_BACK">>,
  <<"VALIDATING",    "RESOLVE",             "RESOLVED">>,
  <<"VALIDATING",    "ROLLBACK",            "ROLLED_BACK">>,
  <<"ESCALATED",     "START_INVESTIGATION", "INVESTIGATING">> }
States == {"DETECTED", "TRIAGED", "INVESTIGATING", "HEALING", "VALIDATING",
           "RESOLVED", "ROLLED_BACK", "ESCALATED"}
Final == {"RESOLVED", "ROLLED_BACK"}
Allowed(from, to) == \E t \in Machine : t[1] = from /\ t[3] = to

\* No more than one for each consumer: see CheckDatabase.
Ids == Anomalies \X (1 .. Cardinality(Consumers))
Absent == [state |-> "absent"]
NewRow == [state |-> "DETECTED", resolvedAt |-> FALSE, assigned |-> FALSE,
           rootCause |-> FALSE, note |-> {}]
Exists(id) == row[id] # Absent
Of(a) == {id \in Ids : id[1] = a /\ Exists(id)}
Idle == [at |-> "idle"]
Fault(kind) == kind \in Faults /\ faults < MaxFaults /\ faults' = faults + 1

Init ==
  /\ row = [id \in Ids |-> Absent]
  /\ timeline = [id \in Ids |-> <<>>]
  /\ pending = [a \in Anomalies |-> 1] /\ marked = {}
  /\ intake = [c \in Consumers |-> Idle]
  /\ session = [s \in Sessions |-> Idle] /\ commands = 0
  /\ blind = [a \in Anomalies |-> 0]
  /\ raced = {} /\ stale = {} /\ unfinished = {} /\ faults = 0

\* incidentRepository.save of a copy read earlier: every column is written.
Save(id, seen, new) ==
  /\ row' = [row EXCEPT ![id] = new]
  /\ stale' = IF row[id] = seen THEN stale ELSE stale \cup {id}

-----------------------------------------------------------------------------
(* Requests and healing callbacks *)

Begin(s, id, op, to) ==
  /\ session[s] = Idle /\ commands < MaxCommands /\ Exists(id)
  /\ session' = [session EXCEPT ![s] =
                   [at |-> "commit", id |-> id, op |-> op, to |-> to, seen |-> row[id]]]
  /\ commands' = commands + 1
  /\ UNCHANGED <<table, topic, intake, faults>>

\* PATCH /transition: an event that the machine does not accept here is answered
\* 400.  The session stays open for the request, so updateState works on the copy
\* that was checked.
BeginTransition(s, id) ==
  \E t \in Machine : t[1] = row[id].state /\ Begin(s, id, "transition", t[3])

BeginAssign(s, id) == Begin(s, id, "assign", "none")

\* POST /resolve and /escalate, and the healing loop's conclusions: no machine.
BeginDirect(s, id) ==
  \/ Begin(s, id, "resolve", "RESOLVED")
  \/ Begin(s, id, "escalate", "ESCALATED")
  \/ \E to \in Final \cup {"ESCALATED"} : Begin(s, id, "healing", to)

\* Faulty: nobody sets the time.
UpdateStateUntimed(seen, to) == [seen EXCEPT !.state = to]

UpdateState(seen, to) ==
  [seen EXCEPT !.state = to, !.resolvedAt = @ \/ to = "RESOLVED"]

Changed(seen, op, to) ==
  CASE op = "assign"  -> [seen EXCEPT !.assigned = TRUE]
    [] op = "resolve" -> [UpdateState(seen, to) EXCEPT !.note = {"resolution"}]
    [] OTHER          -> UpdateState(seen, to)

\* Faulty: updateState reads the row anew, so the check was of another copy.
CommitRereads(s) ==
  /\ session[s] # Idle
  /\ LET r == session[s]
         now == row[r.id]
     IN  /\ Save(r.id, now, Changed(now, r.op, r.to))
         /\ timeline' = [timeline EXCEPT ![r.id] =
                           IF r.op = "assign" THEN @
                           ELSE Append(@, [op |-> r.op, from |-> now.state, to |-> r.to])]
  /\ session' = [session EXCEPT ![s] = Idle]
  /\ UNCHANGED <<topic, intake, commands, faults>>

\* Faulty: the healing loop writes the state without an event.
CommitUnrecorded(s) ==
  /\ session[s] # Idle
  /\ LET r == session[s] IN
       /\ Save(r.id, r.seen, Changed(r.seen, r.op, r.to))
       /\ timeline' = [timeline EXCEPT ![r.id] =
                         IF r.op \in {"assign", "healing"} THEN @
                         ELSE Append(@, [op |-> r.op, from |-> r.seen.state, to |-> r.to])]
  /\ session' = [session EXCEPT ![s] = Idle]
  /\ UNCHANGED <<topic, intake, commands, faults>>

\* The transaction writes the row and the timeline, or nothing.
Commit(s) ==
  /\ session[s] # Idle
  /\ LET r == session[s] IN
       /\ Save(r.id, r.seen, Changed(r.seen, r.op, r.to))
       /\ timeline' = [timeline EXCEPT ![r.id] =
                         IF r.op = "assign" THEN @
                         ELSE Append(@, [op |-> r.op, from |-> r.seen.state, to |-> r.to])]
  /\ session' = [session EXCEPT ![s] = Idle]
  /\ UNCHANGED <<topic, intake, commands, faults>>

-----------------------------------------------------------------------------
(* The consumer of anomaly-detected *)

Step(c, at) == intake' = [intake EXCEPT ![c].at = at]
\* The listener returns, normally or after an exception it swallows, and the
\* record's offset is committed.
Return(c) == intake' = [intake EXCEPT ![c] = Idle]
\* Any exception of the database ends in the catch at the bottom.
Fail(c) ==
  /\ Fault("database") /\ Return(c)
  /\ unfinished' = unfinished \cup {intake[c].anomaly}

Deliver(c, a) ==
  /\ intake[c] = Idle /\ pending[a] > 0
  /\ pending' = [pending EXCEPT ![a] = @ - 1]
  /\ intake' = [intake EXCEPT ![c] = [at |-> "redis", anomaly |-> a]]
  /\ UNCHANGED <<table, marked, blind, raced, unfinished, requests, faults>>

\* Faulty: an exception of Redis is left to the catch at the bottom.
CheckRedisThrows(c) ==
  /\ intake[c].at = "redis"
  /\ LET a == intake[c].anomaly IN
       \/ /\ a \notin marked /\ Step(c, "database")
          /\ marked' = marked \cup {a}
          /\ UNCHANGED <<blind, faults>>
       \/ a \in marked /\ Return(c) /\ UNCHANGED <<marked, blind, faults>>
       \/ /\ Fault("redis") /\ Return(c)
          /\ blind' = [blind EXCEPT ![a] = @ + 1]
          /\ UNCHANGED marked
  /\ UNCHANGED <<table, pending, raced, unfinished, requests>>

\* SETNX for 24 hours; when Redis fails the database is asked alone.
CheckRedis(c) ==
  /\ intake[c].at = "redis"
  /\ LET a == intake[c].anomaly IN
       \/ /\ a \notin marked /\ Step(c, "database")
          /\ marked' = marked \cup {a}
          /\ UNCHANGED <<blind, faults>>
       \/ a \in marked /\ Return(c) /\ UNCHANGED <<marked, blind, faults>>
       \/ /\ Fault("redis") /\ Step(c, "database")
          /\ marked' \in {marked, marked \cup {a}}
          /\ blind' = [blind EXCEPT ![a] = @ + 1]
  /\ UNCHANGED <<table, pending, raced, unfinished, requests>>

\* Faulty: Redis is trusted alone.
CheckDatabaseSkipped(c) ==
  /\ intake[c].at = "database" /\ Cardinality(Of(intake[c].anomaly)) < 2
  /\ Step(c, "create")
  /\ UNCHANGED <<table, topic, requests, faults>>

\* existsByAnomalyId; nothing keeps a second consumer out until Create.
CheckDatabase(c) ==
  /\ intake[c].at = "database"
  /\ LET a == intake[c].anomaly
         others == {d \in Consumers \ {c} : intake[d].at = "create" /\ intake[d].anomaly = a}
     IN  \/ Of(a) # {} /\ Return(c) /\ UNCHANGED <<raced, unfinished, faults>>
         \/ /\ Of(a) = {} /\ Step(c, "create")
            /\ raced' = IF others = {} THEN raced ELSE raced \cup {a}
            /\ UNCHANGED <<unfinished, faults>>
         \/ Fail(c) /\ UNCHANGED raced
  /\ UNCHANGED <<table, pending, marked, blind, requests>>

\* createIncident; the consumer keeps the object.
Create(c) ==
  /\ intake[c].at = "create"
  /\ LET a == intake[c].anomaly
         id == <<a, Cardinality(Of(a)) + 1>>
     IN  \/ /\ row' = [row EXCEPT ![id] = NewRow]
            /\ intake' = [intake EXCEPT ![c] =
                            [at |-> "enrich", anomaly |-> a, id |-> id, seen |-> NewRow]]
            /\ UNCHANGED <<unfinished, faults>>
         \/ Fail(c) /\ UNCHANGED row
  /\ UNCHANGED <<timeline, stale, pending, marked, blind, raced, requests>>

\* The analyzer has answered, or has not for three seconds: the object goes back
\* into the table.  A patch for a linked repository calls for a pull request, which
\* reads the row anew.
Enrich(c) ==
  /\ intake[c].at = "enrich"
  /\ LET r == intake[c]
         new == [r.seen EXCEPT !.rootCause = TRUE]
     IN  \/ /\ Save(r.id, r.seen, new)
            /\ Return(c) \/ intake' = [intake EXCEPT ![c].at = "pull request",
                                                    ![c].seen = new]
            /\ UNCHANGED <<unfinished, faults>>
         \/ Fail(c) /\ UNCHANGED <<row, stale>>
  /\ UNCHANGED <<timeline, pending, marked, blind, raced, requests>>

\* createRemediationPullRequest reads, talks to GitHub, and saves or gives up.
PullRequest(c) ==
  \/ /\ intake[c].at = "pull request"
     /\ intake' = [intake EXCEPT ![c].at = "github", ![c].seen = row[intake[c].id]]
     /\ UNCHANGED <<table, topic, requests, faults>>
  \/ /\ intake[c].at = "github"
     /\ LET r == intake[c]
        IN  \/ Save(r.id, r.seen, [r.seen EXCEPT !.note = @ \cup {"pull request"}])
            \/ UNCHANGED <<row, stale>>
     /\ Return(c)
     /\ UNCHANGED <<timeline, topic, requests, faults>>

-----------------------------------------------------------------------------
(* Faults of the surroundings *)

\* A replica dies before the offset is committed: the record comes again.
Crash(c) ==
  /\ intake[c] # Idle /\ Fault("crash") /\ Return(c)
  /\ LET a == intake[c].anomaly IN
       /\ pending' = [pending EXCEPT ![a] = @ + 1]
       /\ unfinished' =
            IF \/ intake[c].at = "redis"
               \/ intake[c].at \in {"database", "create"} /\ a \notin marked
            THEN unfinished ELSE unfinished \cup {a}
  /\ UNCHANGED <<table, marked, blind, raced, requests>>

\* A rebalance, or a second send by the analyzer: the record comes once more.
Redeliver(a) ==
  /\ Fault("redeliver")
  /\ pending' = [pending EXCEPT ![a] = @ + 1]
  /\ UNCHANGED <<table, marked, blind, raced, unfinished, intake, requests>>

Expire(a) ==
  /\ a \in marked /\ Fault("expiry")
  /\ marked' = marked \ {a}
  /\ blind' = [blind EXCEPT ![a] = @ + 1]
  /\ UNCHANGED <<table, pending, raced, unfinished, intake, requests>>

-----------------------------------------------------------------------------

Consume(c) ==
  \/ \E a \in Anomalies : Deliver(c, a)
  \/ CheckRedis(c) \/ CheckDatabase(c) \/ Create(c) \/ Enrich(c) \/ PullRequest(c)

Command(s) ==
  \/ \E id \in Ids : BeginTransition(s, id) \/ BeginAssign(s, id) \/ BeginDirect(s, id)
  \/ Commit(s)

Next ==
  \/ \E c \in Consumers : Consume(c) \/ Crash(c)
  \/ \E s \in Sessions : Command(s)
  \/ \E a \in Anomalies : Redeliver(a) \/ Expire(a)

Spec == Init /\ [][Next]_vars

\* Listener threads run; nobody has to send a request.
FairSpec == Spec /\ \A c \in Consumers : WF_vars(Consume(c))

-----------------------------------------------------------------------------
(* Properties *)

Rows == [state : States, resolvedAt : BOOLEAN, assigned : BOOLEAN,
         rootCause : BOOLEAN, note : SUBSET {"resolution", "pull request"}]

\* Types.
TypeOK ==
  /\ row \in [Ids -> Rows \cup {Absent}]
  /\ \A id \in Ids :
       timeline[id] \in Seq([op : {"transition", "resolve", "escalate", "healing"},
                             from : States, to : States])
  /\ pending \in [Anomalies -> 0 .. 1 + MaxFaults] /\ marked \subseteq Anomalies
  /\ \A c \in Consumers : intake[c] = Idle \/ intake[c].anomaly \in Anomalies
  /\ \A s \in Sessions : session[s] = Idle \/ session[s].seen \in Rows
  /\ commands \in 0 .. MaxCommands /\ faults \in 0 .. MaxFaults

\* An anomaly makes one incident, however often its record is delivered.  Two need
\* both: that Redis did not know of the first, and that the second consumer looked
\* into the database before the first one wrote (there is no unique index).
OneIncident ==
  \A a \in Anomalies :
    Cardinality(Of(a)) > 1 => blind[a] > 0 /\ a \in raced

\* RESOLVED comes with the time of resolution, whichever copies of the row were
\* written over one another: rows are only ever written whole.
ResolvedHasTime == \A id \in Ids : row[id].state = "RESOLVED" => row[id].resolvedAt

\* What PATCH /transition records in the timeline is a transition of the machine,
\* even if two requests overlap: check and update see one copy of the incident.
TransitionsAreLegal ==
  \A id \in Ids : \A k \in DOMAIN timeline[id] :
    timeline[id][k].op = "transition" => Allowed(timeline[id][k].from, timeline[id][k].to)

\* The timeline explains the row: it starts at DETECTED, each entry begins where the
\* last one ended, and the last is the state now, unless a writer used an outdated
\* copy of this incident.
TimelineExplains ==
  \A id \in Ids : Exists(id) /\ id \notin stale =>
    LET reached(k) == IF k = 0 THEN "DETECTED" ELSE timeline[id][k].to IN
    /\ \A k \in DOMAIN timeline[id] : timeline[id][k].from = reached(k - 1)
    /\ row[id].state = reached(Len(timeline[id]))

\* Nothing leaves a final state but a direct command or a writer with an outdated
\* copy: the machine ends there.
FinalStays ==
  [][\A id \in Ids :
       row[id].state \in Final /\ row'[id].state # row[id].state
         => id \in stale' \/ Last(timeline'[id]).op # "transition"]_vars

\* Every delivered anomaly gets its incident, and that its root cause, unless a
\* fault cut the processing short or a writer put an outdated copy over it: a failing
\* Redis alone costs nothing.
Processed ==
  \A a \in Anomalies :
    pending[a] > 0 ~> \/ a \in unfinished
                      \/ \E id \in Of(a) : row[id].rootCause \/ id \in stale
=============================================================================
