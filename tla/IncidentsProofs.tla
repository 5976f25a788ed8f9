--------------------------- MODULE IncidentsProofs ---------------------------
(* Theorems about Incidents, for every value of its constants.               *)
EXTENDS Incidents, FiniteSetTheorems, TLAPS

-----------------------------------------------------------------------------
(* Types. *)

Intakes ==
  {Idle} \cup [at : {"redis", "database", "create"}, anomaly : Anomalies]
         \cup [at : {"enrich", "pull request", "github"}, anomaly : Anomalies,
               id : Ids, seen : Rows]

Moves == {"transition", "resolve", "escalate", "healing"}
Commands ==
  {Idle} \cup [at : {"commit"}, id : Ids, op : {"assign"}, to : {"none"}, seen : Rows]
         \cup [at : {"commit"}, id : Ids, op : Moves, to : States, seen : Rows]

Entries == [op : Moves, from : States, to : States]

Types ==
  /\ row \in [Ids -> Rows \cup {Absent}]
  /\ timeline \in [Ids -> Seq(Entries)]
  /\ pending \in [Anomalies -> Nat]
  /\ \A a \in Anomalies : pending[a] <= 1 + faults
  /\ marked \subseteq Anomalies
  /\ blind \in [Anomalies -> Nat]
  /\ intake \in [Consumers -> Intakes]
  /\ session \in [Sessions -> Commands]
  /\ commands \in 0 .. MaxCommands /\ faults \in 0 .. MaxFaults

\* Whoever is about to write a row names one that is in the table.
Late(c) == intake[c].at \in {"enrich", "pull request", "github"}
Present ==
  /\ \A c \in Consumers : Late(c) => Exists(intake[c].id)
  /\ \A s \in Sessions : session[s] # Idle => Exists(session[s].id)

Creating(a) == {c \in Consumers : intake[c].at = "create" /\ intake[c].anomaly = a}

\* The incidents of an anomaly have the numbers from 1 on, and there is a number
\* left for every consumer that is about to create one.
Numbered ==
  \A a \in Anomalies : \E n \in Nat :
    /\ Of(a) = {a} \X (1 .. n)
    /\ n + Cardinality(Creating(a)) <= Cardinality(Consumers)

TypeInv == Types /\ Present /\ Numbered

\* No row has the shape of a missing one.
LEMMA AbsentIsNoRow == Absent \notin Rows
BY DEF Absent, Rows, States

\* Where a consumer is tells what else it carries.
LEMMA IntakeShape ==
  ASSUME NEW r \in Intakes
  PROVE  /\ r # Idle => r.anomaly \in Anomalies
         /\ r.at \in {"redis", "database", "create"} =>
              r \in [at : {"redis", "database", "create"}, anomaly : Anomalies]
         /\ r.at \in {"enrich", "pull request", "github"} =>
              r \in [at : {"enrich", "pull request", "github"}, anomaly : Anomalies,
                     id : Ids, seen : Rows]
<1>1. CASE r = Idle
  BY <1>1 DEF Idle
<1>2. CASE r \in [at : {"redis", "database", "create"}, anomaly : Anomalies]
  BY <1>2
<1>3. CASE r \in [at : {"enrich", "pull request", "github"}, anomaly : Anomalies,
                  id : Ids, seen : Rows]
  BY <1>3
<1>. QED
  BY <1>1, <1>2, <1>3 DEF Intakes

\* And so does the command of a session.
LEMMA CommandShape ==
  ASSUME NEW r \in Commands, r # Idle
  PROVE  /\ r.id \in Ids /\ r.seen \in Rows
         /\ r.op = "assign" \/ (r.op \in Moves /\ r.to \in States)
BY DEF Commands, Moves

\* What a command makes of the copy it has read.
LEMMA ChangedLemma ==
  ASSUME NEW seen \in Rows, NEW op, NEW to,
         op = "assign" \/ (op \in Moves /\ to \in States)
  PROVE  /\ Changed(seen, op, to) \in Rows
         /\ op = "assign" => /\ Changed(seen, op, to).state = seen.state
                             /\ Changed(seen, op, to).resolvedAt = seen.resolvedAt
         /\ op # "assign" => /\ Changed(seen, op, to).state = to
                             /\ to = "RESOLVED" => Changed(seen, op, to).resolvedAt
<1>1. UpdateState(seen, to) = [seen EXCEPT !.state = to, !.resolvedAt = @ \/ to = "RESOLVED"]
  BY DEF UpdateState
<1>2. CASE op = "assign"
  <2>1. Changed(seen, op, to) = [seen EXCEPT !.assigned = TRUE]
    BY <1>2 DEF Changed
  <2>. QED
    BY <1>2, <2>1 DEF Rows
<1>3. CASE op = "resolve"
  <2>1. Changed(seen, op, to) = [UpdateState(seen, to) EXCEPT !.note = {"resolution"}]
    BY <1>3 DEF Changed
  <2>2. to \in States
    BY <1>3
  <2>. QED
    BY <1>1, <1>3, <2>1, <2>2 DEF Rows
<1>4. CASE op \in {"transition", "escalate", "healing"}
  <2>1. Changed(seen, op, to) = UpdateState(seen, to)
    BY <1>4 DEF Changed
  <2>2. to \in States
    BY <1>4
  <2>. QED
    BY <1>1, <1>4, <2>1, <2>2 DEF Rows
<1>. QED
  BY <1>2, <1>3, <1>4 DEF Moves

-----------------------------------------------------------------------------
(* The numbers of an anomaly's incidents. *)

\* An anomaly with numbers up to n has n incidents.
LEMMA CardinalityNumbered ==
  ASSUME NEW a, NEW n \in Nat
  PROVE  Cardinality({a} \X (1 .. n)) = n /\ IsFiniteSet({a} \X (1 .. n))
<1>1. IsFiniteSet({a}) /\ Cardinality({a}) = 1
  BY FS_Singleton
<1>2. IsFiniteSet(1 .. n) /\ Cardinality(1 .. n) = n
  BY FS_Interval
<1>3. /\ IsFiniteSet({a} \X (1 .. n))
      /\ Cardinality({a} \X (1 .. n)) = Cardinality({a}) * Cardinality(1 .. n)
  BY <1>1, <1>2, FS_Product
<1>4. Cardinality(1 .. n) = n
  BY <1>2
<1>. QED
  BY <1>1, <1>3, <1>4

\* No more consumers create an incident than there are.
LEMMA CreatingIsFinite ==
  ASSUME NEW a
  PROVE  /\ IsFiniteSet(Creating(a)) /\ Cardinality(Creating(a)) \in Nat
         /\ Cardinality(Creating(a)) <= Cardinality(Consumers)
         /\ Cardinality(Consumers) \in Nat
<1>1. IsFiniteSet(Consumers) /\ Creating(a) \subseteq Consumers
  BY IncidentsAssumption DEF Creating
<1>. QED
  BY <1>1, FS_Subset, FS_CardinalityType

\* The id a consumer is about to use is a new one, and the next.
LEMMA NextNumber ==
  ASSUME TypeInv, NEW c \in Consumers, intake[c].at = "create"
  PROVE  \E n \in Nat :
           /\ Cardinality(Of(intake[c].anomaly)) = n
           /\ Of(intake[c].anomaly) = {intake[c].anomaly} \X (1 .. n)
           /\ <<intake[c].anomaly, n + 1>> \in Ids
           /\ ~Exists(<<intake[c].anomaly, n + 1>>)
           /\ n + Cardinality(Creating(intake[c].anomaly)) <= Cardinality(Consumers)
<1>. DEFINE a == intake[c].anomaly
<1>1. a \in Anomalies
  BY IntakeShape DEF TypeInv, Types, Idle
<1>2. PICK n \in Nat : /\ Of(a) = {a} \X (1 .. n)
                       /\ n + Cardinality(Creating(a)) <= Cardinality(Consumers)
  BY <1>1 DEF TypeInv, Numbered
<1>3. Cardinality(Of(a)) = n
  BY <1>2, CardinalityNumbered
<1>4. Cardinality(Creating(a)) >= 1
  <2>1. c \in Creating(a)
    BY DEF Creating
  <2>2. Cardinality(Creating(a)) # 0
    BY <2>1, CreatingIsFinite, FS_EmptySet
  <2>. QED
    BY <2>2, CreatingIsFinite
<1>5. n + 1 <= Cardinality(Consumers)
  BY <1>2, <1>4, CreatingIsFinite
<1>6. <<a, n + 1>> \in Ids
  BY <1>1, <1>5, CreatingIsFinite DEF Ids
<1>7. <<a, n + 1>> \notin Of(a)
  BY <1>2
<1>8. ~Exists(<<a, n + 1>>)
  BY <1>6, <1>7 DEF Of
<1>. QED
  BY <1>2, <1>3, <1>6, <1>8

\* Neither table nor consumers disturb the numbers while no row comes and nobody
\* gets ready to create one.
LEMMA NumberedFrame ==
  ASSUME Numbered, \A id \in Ids : Exists(id)' <=> Exists(id),
         \A a \in Anomalies : Creating(a)' \subseteq Creating(a)
  PROVE  Numbered'
<1> SUFFICES ASSUME NEW a \in Anomalies
             PROVE  \E n \in Nat : /\ Of(a)' = {a} \X (1 .. n)
                                   /\ n + Cardinality(Creating(a)') <= Cardinality(Consumers)
  BY DEF Numbered
<1>1. PICK n \in Nat : /\ Of(a) = {a} \X (1 .. n)
                       /\ n + Cardinality(Creating(a)) <= Cardinality(Consumers)
  BY DEF Numbered
<1>2. Of(a)' = Of(a)
  BY DEF Of
<1>3. /\ Cardinality(Creating(a)') \in Nat
      /\ Cardinality(Creating(a)') <= Cardinality(Creating(a))
  BY CreatingIsFinite, FS_Subset, FS_CardinalityType
<1>4. n + Cardinality(Creating(a)') <= Cardinality(Consumers)
  BY <1>1, <1>3, CreatingIsFinite
<1>. QED
  BY <1>1, <1>2, <1>4

-----------------------------------------------------------------------------
(* Every step keeps the types. *)

\* Saving an incident that exists touches no other, and no row comes or goes.
LEMMA SaveLemma ==
  ASSUME Types, NEW id \in Ids, Exists(id), NEW seen, NEW new \in Rows, Save(id, seen, new)
  PROVE  /\ row' \in [Ids -> Rows \cup {Absent}]
         /\ row'[id] = new
         /\ \A j \in Ids : j # id => row'[j] = row[j]
         /\ \A j \in Ids : Exists(j)' <=> Exists(j)
         /\ stale \subseteq stale' /\ (row[id] # seen => id \in stale')
<1>1. /\ row \in [Ids -> Rows \cup {Absent}]
      /\ row' = [row EXCEPT ![id] = new]
  BY DEF Save, Types
<1>2. /\ row' \in [Ids -> Rows \cup {Absent}]
      /\ row'[id] = new
      /\ \A j \in Ids : j # id => row'[j] = row[j]
  BY <1>1
<1>3. \A j \in Ids : Exists(j)' <=> Exists(j)
  BY <1>2, AbsentIsNoRow DEF Exists
<1>4. stale \subseteq stale' /\ (row[id] # seen => id \in stale')
  BY DEF Save
<1>. QED
  BY <1>2, <1>3, <1>4

\* A command writes what Changed makes of its copy.
LEMMA CommitEffect ==
  ASSUME TypeInv, NEW s \in Sessions, Commit(s)
  PROVE  LET r == session[s] IN
         /\ session[s] # Idle /\ r.id \in Ids /\ r.seen \in Rows /\ Exists(r.id)
         /\ r.op = "assign" \/ (r.op \in Moves /\ r.to \in States)
         /\ Changed(r.seen, r.op, r.to) \in Rows
         /\ Save(r.id, r.seen, Changed(r.seen, r.op, r.to))
         /\ r.op = "assign" => timeline' = timeline
         /\ r.op # "assign" =>
              timeline' = [timeline EXCEPT ![r.id] =
                             Append(@, [op |-> r.op, from |-> r.seen.state, to |-> r.to])]
         /\ session' = [session EXCEPT ![s] = Idle]
         /\ UNCHANGED <<topic, intake, commands, faults>>
<1>. DEFINE r == session[s]
<1>1. r # Idle /\ r \in Commands
  BY DEF Commit, TypeInv, Types
<1>2. /\ r.id \in Ids /\ r.seen \in Rows
      /\ r.op = "assign" \/ (r.op \in Moves /\ r.to \in States)
  BY <1>1, CommandShape
<1>3. Exists(r.id)
  BY <1>1 DEF TypeInv, Present
<1>4. Changed(r.seen, r.op, r.to) \in Rows
  BY <1>2, ChangedLemma
<1>5. /\ Save(r.id, r.seen, Changed(r.seen, r.op, r.to))
      /\ session' = [session EXCEPT ![s] = Idle]
      /\ UNCHANGED <<topic, intake, commands, faults>>
  BY DEF Commit
<1>6. timeline' = [timeline EXCEPT ![r.id] =
                     IF r.op = "assign" THEN @
                     ELSE Append(@, [op |-> r.op, from |-> r.seen.state, to |-> r.to])]
  BY DEF Commit
<1>7. r.op = "assign" => timeline' = timeline
  BY <1>2, <1>6 DEF TypeInv, Types
<1>8. r.op # "assign" =>
        timeline' = [timeline EXCEPT ![r.id] =
                       Append(@, [op |-> r.op, from |-> r.seen.state, to |-> r.to])]
  BY <1>6
<1>. QED
  BY <1>1, <1>2, <1>3, <1>4, <1>5, <1>7, <1>8

\* What a consumer that adds the root cause or the pull request writes has the
\* state and the time of its copy.
LEMMA NoteLemma ==
  ASSUME NEW seen \in Rows
  PROVE  /\ [seen EXCEPT !.rootCause = TRUE] \in Rows
         /\ [seen EXCEPT !.rootCause = TRUE].state = seen.state
         /\ [seen EXCEPT !.rootCause = TRUE].resolvedAt = seen.resolvedAt
         /\ [seen EXCEPT !.note = @ \cup {"pull request"}] \in Rows
         /\ [seen EXCEPT !.note = @ \cup {"pull request"}].state = seen.state
         /\ [seen EXCEPT !.note = @ \cup {"pull request"}].resolvedAt = seen.resolvedAt
BY DEF Rows

\* So a consumer that completes an incident writes a row like its copy, or none,
\* and goes on with a copy like that or like the row.
Like(new, old) == new \in Rows /\ new.state = old.state /\ new.resolvedAt = old.resolvedAt

\* What the late steps of a consumer do to the row of its incident.
LEMMA NoteEffect ==
  ASSUME TypeInv, NEW c \in Consumers, Enrich(c) \/ PullRequest(c)
  PROVE  LET r == intake[c] IN
         /\ Late(c) /\ r.id \in Ids /\ r.seen \in Rows /\ Exists(r.id)
         /\ r.anomaly \in Anomalies
         /\ \/ UNCHANGED <<row, stale>>
            \/ \E new \in Rows : Like(new, r.seen) /\ Save(r.id, r.seen, new)
         /\ \E x \in Intakes :
              /\ intake' = [intake EXCEPT ![c] = x]
              /\ x = Idle \/ /\ x.at \in {"pull request", "github"}
                             /\ x.anomaly = r.anomaly /\ x.id = r.id
                             /\ Like(x.seen, r.seen) \/ Like(x.seen, row[r.id])
         /\ faults' \in {faults, faults + 1} /\ faults' <= MaxFaults
         /\ unfinished \subseteq unfinished'
         /\ UNCHANGED <<timeline, pending, marked, blind, raced, requests>>
<1>. DEFINE r == intake[c]
<1>1. Late(c) /\ r \in Intakes
  BY DEF Enrich, PullRequest, Late, TypeInv, Types
<1>2. /\ r.anomaly \in Anomalies /\ r.id \in Ids /\ r.seen \in Rows
      /\ r \in [at : {"enrich", "pull request", "github"}, anomaly : Anomalies,
                id : Ids, seen : Rows]
  <2>1. r \in [at : {"enrich", "pull request", "github"}, anomaly : Anomalies,
               id : Ids, seen : Rows]
    BY <1>1, IntakeShape DEF Late
  <2>. QED
    BY <2>1
<1>3. Exists(r.id)
  BY <1>1 DEF TypeInv, Present
<1>4. row[r.id] \in Rows /\ Like(row[r.id], row[r.id]) /\ Like(r.seen, r.seen)
  BY <1>2, <1>3 DEF TypeInv, Types, Exists, Like
<1>5. Idle \in Intakes /\ faults \in Nat /\ faults <= MaxFaults /\ MaxFaults \in Nat
  <2>1. Idle \in Intakes
    BY DEF Intakes
  <2>2. MaxFaults \in Nat /\ faults \in 0 .. MaxFaults
    BY IncidentsAssumption DEF TypeInv, Types
  <2>. QED
    BY <2>1, <2>2
<1>6. CASE Enrich(c)
  <2>. DEFINE new == [r.seen EXCEPT !.rootCause = TRUE]
             x == [r EXCEPT !.at = "pull request", !.seen = new]
  <2>1. new \in Rows /\ Like(new, r.seen)
    BY <1>2, NoteLemma DEF Like
  <2>2. CASE Fail(c) /\ UNCHANGED <<row, stale>>
    <3>1. /\ intake' = [intake EXCEPT ![c] = Idle]
          /\ faults < MaxFaults /\ faults' = faults + 1
          /\ unfinished \subseteq unfinished'
      BY <2>2 DEF Fail, Fault, Return
    <3>2. UNCHANGED <<timeline, pending, marked, blind, raced, requests>>
      BY <1>6 DEF Enrich
    <3>3. faults' <= MaxFaults
      BY <1>5, <3>1
    <3>. QED
      BY <1>1, <1>2, <1>3, <1>5, <2>2, <3>1, <3>2, <3>3
  <2>3. CASE /\ Save(r.id, r.seen, new) /\ UNCHANGED <<unfinished, faults>>
             /\ Return(c)
    BY <1>1, <1>2, <1>3, <1>5, <1>6, <2>1, <2>3 DEF Enrich, Return
  <2>4. CASE /\ Save(r.id, r.seen, new) /\ UNCHANGED <<unfinished, faults>>
             /\ intake' = [intake EXCEPT ![c].at = "pull request", ![c].seen = new]
    <3>. HIDE DEF new
    <3>1. x \in Intakes /\ x.at = "pull request" /\ x.anomaly = r.anomaly /\ x.id = r.id
          /\ x.seen = new
      BY <1>2, <2>1 DEF Intakes
    <3>2. intake' = [intake EXCEPT ![c] = x]
      BY <2>4, <1>2 DEF TypeInv, Types
    <3>3. UNCHANGED <<timeline, pending, marked, blind, raced, requests>>
      BY <1>6 DEF Enrich
    <3>. HIDE DEF x
    <3>. QED
      BY <1>1, <1>2, <1>3, <1>5, <2>1, <2>4, <3>1, <3>2, <3>3
  <2>. QED
    BY <1>6, <2>2, <2>3, <2>4 DEF Enrich
<1>7. CASE intake[c].at = "pull request" /\ PullRequest(c)
  <2>. DEFINE x == [r EXCEPT !.at = "github", !.seen = row[r.id]]
  <2>1. x \in Intakes /\ x.at = "github" /\ x.anomaly = r.anomaly /\ x.id = r.id
        /\ x.seen = row[r.id]
    BY <1>2, <1>4 DEF Intakes
  <2>2. /\ intake' = [intake EXCEPT ![c].at = "github", ![c].seen = row[intake[c].id]]
        /\ UNCHANGED <<table, topic, requests, faults>>
    BY <1>7 DEF PullRequest
  <2>3. intake' = [intake EXCEPT ![c] = x]
    BY <2>2, <1>2 DEF TypeInv, Types
  <2>. HIDE DEF x
  <2>. QED
    BY <1>1, <1>2, <1>3, <1>4, <1>5, <2>1, <2>2, <2>3 DEF table, topic
<1>8. CASE intake[c].at = "github" /\ PullRequest(c)
  <2>. DEFINE new == [r.seen EXCEPT !.note = @ \cup {"pull request"}]
  <2>1. new \in Rows /\ Like(new, r.seen)
    BY <1>2, NoteLemma DEF Like
  <2>2. /\ Save(r.id, r.seen, new) \/ UNCHANGED <<row, stale>>
        /\ intake' = [intake EXCEPT ![c] = Idle]
        /\ UNCHANGED <<timeline, topic, requests, faults>>
    BY <1>8 DEF PullRequest, Return
  <2>. HIDE DEF new
  <2>. QED
    BY <1>1, <1>2, <1>3, <1>5, <2>1, <2>2 DEF topic
<1>. QED
  BY <1>6, <1>7, <1>8 DEF PullRequest

\* A session that begins holds the row as it is, and a transition of it that the
\* machine allows.
LEMMA BeginEffect ==
  ASSUME TypeInv, NEW s \in Sessions, NEW id \in Ids,
         BeginTransition(s, id) \/ BeginAssign(s, id) \/ BeginDirect(s, id)
  PROVE  /\ \E x \in Commands :
              /\ session' = [session EXCEPT ![s] = x]
              /\ x # Idle /\ x.id = id /\ x.seen = row[id]
              /\ x.op = "transition" => Allowed(x.seen.state, x.to)
         /\ Exists(id) /\ row[id] \in Rows
         /\ commands' \in 0 .. MaxCommands
         /\ UNCHANGED <<table, topic, intake, faults>>
<1>1. PICK op \in {"assign"} \cup Moves, to \in {"none"} \cup States :
        /\ Begin(s, id, op, to)
        /\ op = "assign" => to = "none"
        /\ op # "assign" => op \in Moves /\ to \in States
        /\ op = "transition" => Allowed(row[id].state, to)
  <2>1. CASE BeginTransition(s, id)
    <3>1. PICK t \in Machine : t[1] = row[id].state /\ Begin(s, id, "transition", t[3])
      BY <2>1 DEF BeginTransition
    <3>2. t[3] \in States
      BY <3>1 DEF Machine, States
    <3>3. Allowed(row[id].state, t[3])
      BY <3>1 DEF Allowed
    <3>. QED
      BY <3>1, <3>2, <3>3 DEF Moves
  <2>2. CASE BeginAssign(s, id)
    BY <2>2 DEF BeginAssign, Moves
  <2>3. CASE BeginDirect(s, id)
    BY <2>3 DEF BeginDirect, Moves, States, Final
  <2>. QED
    BY <2>1, <2>2, <2>3
<1>. DEFINE x == [at |-> "commit", id |-> id, op |-> op, to |-> to, seen |-> row[id]]
<1>2. /\ Exists(id) /\ session' = [session EXCEPT ![s] = x]
      /\ commands < MaxCommands /\ commands' = commands + 1
      /\ UNCHANGED <<table, topic, intake, faults>>
  BY <1>1 DEF Begin
<1>3. row[id] \in Rows
  BY <1>2 DEF Exists, TypeInv, Types
<1>4. x \in Commands
  BY <1>1, <1>3 DEF Commands, Moves
<1>5. x # Idle
  BY DEF Idle
<1>6. commands' \in 0 .. MaxCommands
  BY <1>2, IncidentsAssumption DEF TypeInv, Types
<1>7. x.id = id /\ x.seen = row[id] /\ x.op = op /\ x.to = to
  OBVIOUS
<1>. HIDE DEF x
<1>. QED
  BY <1>1, <1>2, <1>3, <1>4, <1>5, <1>6, <1>7

\* A consumer that creates an incident inserts a new row and keeps a copy of it.
LEMMA CreateEffect ==
  ASSUME TypeInv, NEW c \in Consumers, Create(c)
  PROVE  LET a == intake[c].anomaly IN
         /\ intake[c].at = "create" /\ a \in Anomalies
         /\ \/ \E n \in Nat :
                 /\ Of(a) = {a} \X (1 .. n) /\ <<a, n + 1>> \in Ids
                 /\ n + Cardinality(Creating(a)) <= Cardinality(Consumers)
                 /\ ~Exists(<<a, n + 1>>)
                 /\ row' = [row EXCEPT ![<<a, n + 1>>] = NewRow]
                 /\ intake' = [intake EXCEPT ![c] = [at |-> "enrich", anomaly |-> a,
                                                     id |-> <<a, n + 1>>, seen |-> NewRow]]
                 /\ UNCHANGED faults
            \/ /\ intake' = [intake EXCEPT ![c] = Idle]
               /\ UNCHANGED row /\ faults' = faults + 1 /\ faults < MaxFaults
         /\ NewRow \in Rows /\ NewRow # Absent
         /\ UNCHANGED <<timeline, stale, pending, marked, blind, raced, requests>>
<1>. DEFINE a == intake[c].anomaly
            id == <<a, Cardinality(Of(a)) + 1>>
<1>1. intake[c].at = "create"
  BY DEF Create
<1>2. a \in Anomalies
  BY <1>1, IntakeShape DEF TypeInv, Types, Idle
<1>3. NewRow \in Rows /\ NewRow # Absent
  BY DEF NewRow, Rows, States, Absent
<1>4. UNCHANGED <<timeline, stale, pending, marked, blind, raced, requests>>
  BY DEF Create
<1>5. CASE /\ row' = [row EXCEPT ![id] = NewRow]
           /\ intake' = [intake EXCEPT ![c] = [at |-> "enrich", anomaly |-> a,
                                               id |-> id, seen |-> NewRow]]
           /\ UNCHANGED faults
  BY <1>1, <1>2, <1>3, <1>4, <1>5, NextNumber
<1>6. CASE Fail(c) /\ UNCHANGED row
  BY <1>1, <1>2, <1>3, <1>4, <1>6 DEF Fail, Fault, Return
<1>. QED
  BY <1>5, <1>6 DEF Create

\* What a consumer does before it creates an incident, and its death, leave the
\* tables alone; nobody gets ready to create one while the anomaly has one.
LEMMA CheckEffect ==
  ASSUME TypeInv, NEW c \in Consumers,
         \/ \E a \in Anomalies : Deliver(c, a)
         \/ CheckRedis(c) \/ CheckDatabase(c) \/ Crash(c)
  PROVE  /\ \E x \in Intakes :
              /\ intake' = [intake EXCEPT ![c] = x]
              /\ \/ x = Idle
                 \/ x.at \in {"redis", "database"} /\ x.anomaly \in Anomalies
                 \/ x.at = "create" /\ x.anomaly \in Anomalies /\ Of(x.anomaly) = {}
         /\ pending' \in [Anomalies -> Nat] /\ \A a \in Anomalies : pending'[a] <= 1 + faults'
         /\ marked' \subseteq Anomalies /\ blind' \in [Anomalies -> Nat]
         /\ faults' \in 0 .. MaxFaults
         /\ UNCHANGED <<table, requests>>
<1>. DEFINE Early == [at : {"redis", "database", "create"}, anomaly : Anomalies]
<1>1. /\ Idle \in Intakes /\ Early \subseteq Intakes
      /\ intake \in [Consumers -> Intakes]
      /\ faults \in Nat /\ faults <= MaxFaults /\ MaxFaults \in Nat
  <2>1. MaxFaults \in Nat /\ faults \in 0 .. MaxFaults
    BY IncidentsAssumption DEF TypeInv, Types
  <2>2. Idle \in Intakes /\ Early \subseteq Intakes
    BY DEF Intakes
  <2>. QED
    BY <2>1, <2>2 DEF TypeInv, Types
<1>2. /\ pending \in [Anomalies -> Nat] /\ \A a \in Anomalies : pending[a] <= 1 + faults
      /\ marked \subseteq Anomalies /\ blind \in [Anomalies -> Nat]
  BY DEF TypeInv, Types
<1>3. \A at \in {"redis", "database", "create"} : intake[c].at = at => intake[c] \in Early
  BY <1>1, IntakeShape
<1>4. ASSUME NEW a \in Anomalies, Deliver(c, a)
      PROVE  /\ intake' = [intake EXCEPT ![c] = [at |-> "redis", anomaly |-> a]]
             /\ [at |-> "redis", anomaly |-> a] \in Early
             /\ pending' = [pending EXCEPT ![a] = @ - 1] /\ pending[a] > 0
             /\ UNCHANGED <<table, marked, blind, requests, faults>>
  BY <1>4 DEF Deliver
<1>5. CASE \E a \in Anomalies : Deliver(c, a)
  <2>1. PICK a \in Anomalies : Deliver(c, a)
    BY <1>5
  <2>. DEFINE x == [at |-> "redis", anomaly |-> a]
  <2>2. x.at = "redis" /\ x.anomaly = a
    OBVIOUS
  <2>3. pending' \in [Anomalies -> Nat] /\ \A b \in Anomalies : pending'[b] <= 1 + faults'
    BY <1>1, <1>2, <1>4, <2>1
  <2>4. faults' \in 0 .. MaxFaults
    BY <1>1, <1>4, <2>1
  <2>5. intake' = [intake EXCEPT ![c] = x] /\ x \in Intakes
    BY <1>1, <1>4, <2>1
  <2>. HIDE DEF x
  <2>. QED
    BY <1>2, <1>4, <2>1, <2>2, <2>3, <2>4, <2>5
<1>6. CASE CheckRedis(c)
  <2>. DEFINE a == intake[c].anomaly
             x == [at |-> "database", anomaly |-> a]
  <2>1. a \in Anomalies /\ intake[c] \in Early /\ x \in Intakes
        /\ x.at = "database" /\ x.anomaly = a
    BY <1>1, <1>3, <1>6 DEF CheckRedis
  <2>2. [intake EXCEPT ![c].at = "database"] = [intake EXCEPT ![c] = x]
    BY <2>1, <1>1
  <2>3. intake' \in {[intake EXCEPT ![c] = x], [intake EXCEPT ![c] = Idle]}
    BY <1>6, <2>2 DEF CheckRedis, Step, Return
  <2>4. marked' \subseteq Anomalies
    BY <1>2, <1>6, <2>1 DEF CheckRedis
  <2>5. blind' \in [Anomalies -> Nat] /\ faults' \in {faults, faults + 1} /\ faults' <= MaxFaults
    BY <1>1, <1>2, <1>6, <2>1 DEF CheckRedis, Fault
  <2>6. UNCHANGED <<table, pending, requests>>
    BY <1>6 DEF CheckRedis
  <2>7. \A b \in Anomalies : pending'[b] <= 1 + faults'
    BY <1>1, <1>2, <2>5, <2>6
  <2>8. faults' \in 0 .. MaxFaults
    BY <1>1, <2>5
  <2>. HIDE DEF x
  <2>. QED
    BY <1>1, <1>2, <2>1, <2>3, <2>4, <2>5, <2>6, <2>7, <2>8
<1>7. CASE CheckDatabase(c)
  <2>. DEFINE a == intake[c].anomaly
             x == [at |-> "create", anomaly |-> a]
  <2>1. a \in Anomalies /\ intake[c] \in Early /\ x \in Intakes
        /\ x.at = "create" /\ x.anomaly = a
    BY <1>1, <1>3, <1>7 DEF CheckDatabase
  <2>2. [intake EXCEPT ![c].at = "create"] = [intake EXCEPT ![c] = x]
    BY <2>1, <1>1
  <2>3. \/ intake' = [intake EXCEPT ![c] = x] /\ Of(a) = {}
        \/ intake' = [intake EXCEPT ![c] = Idle]
    BY <1>7, <2>2 DEF CheckDatabase, Step, Return, Fail
  <2>4. faults' \in {faults, faults + 1} /\ faults' <= MaxFaults
    BY <1>1, <1>7 DEF CheckDatabase, Fail, Fault
  <2>5. UNCHANGED <<table, pending, marked, blind, requests>>
    BY <1>7 DEF CheckDatabase
  <2>6. \A b \in Anomalies : pending'[b] <= 1 + faults'
    BY <1>1, <1>2, <2>4, <2>5
  <2>7. faults' \in 0 .. MaxFaults
    BY <1>1, <2>4
  <2>. HIDE DEF x
  <2>. QED
    BY <1>1, <1>2, <2>1, <2>3, <2>4, <2>5, <2>6, <2>7
<1>8. CASE Crash(c)
  <2>1. /\ intake' = [intake EXCEPT ![c] = Idle]
        /\ pending' = [pending EXCEPT ![intake[c].anomaly] = @ + 1]
        /\ faults' = faults + 1 /\ faults < MaxFaults
        /\ UNCHANGED <<table, marked, blind, requests>>
    BY <1>8 DEF Crash, Fault, Return
  <2>2. pending' \in [Anomalies -> Nat] /\ \A b \in Anomalies : pending'[b] <= 1 + faults'
    <3>1. intake[c].anomaly \in Anomalies
      BY <1>1, <1>8, IntakeShape DEF Crash
    <3>. HIDE DEF Early
    <3>2. pending' \in [Anomalies -> Nat]
      BY <1>2, <2>1, <3>1
    <3>3. \A b \in Anomalies : pending'[b] = pending[b] \/ pending'[b] = pending[b] + 1
      BY <1>2, <2>1, <3>1
    <3>. QED
      BY <1>1, <1>2, <2>1, <3>2, <3>3
  <2>3. faults' \in 0 .. MaxFaults
    BY <1>1, <2>1
  <2>. QED
    BY <1>1, <1>2, <2>1, <2>2, <2>3
<1>. QED
  BY <1>5, <1>6, <1>7, <1>8

\* A rebalance or the end of a mark leaves tables, consumers and sessions alone.
LEMMA TopicEffect ==
  ASSUME TypeInv, NEW a \in Anomalies, Redeliver(a) \/ Expire(a)
  PROVE  /\ pending' \in [Anomalies -> Nat] /\ \A b \in Anomalies : pending'[b] <= 1 + faults'
         /\ marked' \subseteq Anomalies /\ blind' \in [Anomalies -> Nat]
         /\ faults' \in 0 .. MaxFaults
         /\ UNCHANGED <<table, raced, intake, requests>>
<1>1. /\ faults \in Nat /\ faults < MaxFaults /\ MaxFaults \in Nat /\ faults' = faults + 1
      /\ pending \in [Anomalies -> Nat] /\ \A b \in Anomalies : pending[b] <= 1 + faults
      /\ marked \subseteq Anomalies /\ blind \in [Anomalies -> Nat]
  <2>1. MaxFaults \in Nat /\ faults \in 0 .. MaxFaults
    BY IncidentsAssumption DEF TypeInv, Types
  <2>2. faults < MaxFaults /\ faults' = faults + 1
    BY DEF Redeliver, Expire, Fault
  <2>. QED
    BY <2>1, <2>2 DEF TypeInv, Types
<1>2. faults' \in 0 .. MaxFaults
  BY <1>1
<1>3. CASE Redeliver(a)
  <2>1. pending' = [pending EXCEPT ![a] = @ + 1]
        /\ UNCHANGED <<table, marked, blind, raced, intake, requests>>
    BY <1>3 DEF Redeliver
  <2>2. pending' \in [Anomalies -> Nat]
    BY <1>1, <2>1
  <2>3. \A b \in Anomalies : pending'[b] = pending[b] \/ pending'[b] = pending[b] + 1
    BY <1>1, <2>1
  <2>. QED
    BY <1>1, <1>2, <2>1, <2>2, <2>3
<1>4. CASE Expire(a)
  <2>1. /\ marked' = marked \ {a} /\ blind' = [blind EXCEPT ![a] = @ + 1]
        /\ UNCHANGED <<table, pending, raced, intake, requests>>
    BY <1>4 DEF Expire
  <2>. QED
    BY <1>1, <1>2, <2>1
<1>. QED
  BY <1>3, <1>4

\* The steps, by what they do to the tables.
LEMMA StepCases ==
  ASSUME [Next]_vars
  PROVE  \/ \E s \in Sessions, id \in Ids :
              BeginTransition(s, id) \/ BeginAssign(s, id) \/ BeginDirect(s, id)
         \/ \E s \in Sessions : Commit(s)
         \/ \E c \in Consumers : Create(c)
         \/ \E c \in Consumers : Enrich(c) \/ PullRequest(c)
         \/ \E c \in Consumers : \/ \E a \in Anomalies : Deliver(c, a)
                                 \/ CheckRedis(c) \/ CheckDatabase(c) \/ Crash(c)
         \/ \E a \in Anomalies : Redeliver(a) \/ Expire(a)
         \/ UNCHANGED vars
BY DEF Next, Consume, Command

\* The types hold before the first step.
LEMMA InitTypeInv == Init => TypeInv
<1> SUFFICES ASSUME Init PROVE TypeInv
  OBVIOUS
<1>1. Types
  <2>1. Idle \in Intakes /\ Idle \in Commands
    BY DEF Intakes, Commands
  <2>2. MaxFaults \in Nat /\ MaxCommands \in Nat
    BY IncidentsAssumption
  <2>. QED
    BY <2>1, <2>2 DEF Init, Types
<1>2. Present
  BY DEF Init, Present, Late, Idle
<1>3. ASSUME NEW a \in Anomalies
      PROVE  Of(a) = {a} \X (1 .. 0) /\ Cardinality(Creating(a)) <= Cardinality(Consumers)
  <2>1. Of(a) = {}
    BY DEF Init, Of, Exists
  <2>. QED
    BY <2>1, CreatingIsFinite
<1>4. Numbered
  <2>1. ASSUME NEW a \in Anomalies
        PROVE  0 + Cardinality(Creating(a)) <= Cardinality(Consumers)
    BY <1>3, CreatingIsFinite
  <2>. QED
    BY <1>3, <2>1 DEF Numbered
<1>. QED
  BY <1>1, <1>2, <1>4 DEF TypeInv

\* Every step keeps the types.
LEMMA NextTypes == TypeInv /\ [Next]_vars => Types'
<1> SUFFICES ASSUME TypeInv, [Next]_vars PROVE Types'
  OBVIOUS
<1>1. ASSUME NEW s \in Sessions, NEW id \in Ids,
             BeginTransition(s, id) \/ BeginAssign(s, id) \/ BeginDirect(s, id)
      PROVE  Types'
  BY <1>1, BeginEffect DEF TypeInv, Types, table, topic
<1>2. ASSUME NEW s \in Sessions, Commit(s) PROVE Types'
  <2>. DEFINE r == session[s]
              e == [op |-> r.op, from |-> r.seen.state, to |-> r.to]
  <2>1. row' \in [Ids -> Rows \cup {Absent}]
    BY <1>2, CommitEffect, SaveLemma DEF TypeInv
  <2>2. timeline' \in [Ids -> Seq(Entries)]
    <3>1. CASE r.op = "assign"
      BY <1>2, <3>1, CommitEffect DEF TypeInv, Types
    <3>2. CASE r.op # "assign"
      <4>1. r.seen \in Rows /\ r.op \in Moves /\ r.to \in States /\ r.id \in Ids
        BY <1>2, <3>2, CommitEffect
      <4>2. e \in Entries
        BY <4>1 DEF Entries, Rows
      <4>3. timeline' = [timeline EXCEPT ![r.id] = Append(@, e)]
        BY <1>2, <3>2, CommitEffect
      <4>. HIDE DEF e
      <4>. QED
        BY <4>1, <4>2, <4>3 DEF TypeInv, Types
    <3>. QED
      BY <3>1, <3>2
  <2>3. session' \in [Sessions -> Commands]
    <3>1. Idle \in Commands
      BY DEF Commands
    <3>. QED
      BY <1>2, <3>1, CommitEffect DEF TypeInv, Types
  <2>4. UNCHANGED <<pending, marked, blind, intake, commands, faults>>
    BY <1>2, CommitEffect DEF topic
  <2>. QED
    BY <2>1, <2>2, <2>3, <2>4 DEF TypeInv, Types
<1>3. ASSUME NEW c \in Consumers, Create(c) PROVE Types'
  <2>. DEFINE a == intake[c].anomaly
  <2>1. /\ row' \in [Ids -> Rows \cup {Absent}] /\ intake' \in [Consumers -> Intakes]
        /\ faults' \in {faults, faults + 1} /\ faults' <= MaxFaults
    <3>1. CASE \E n \in Nat :
                 /\ <<a, n + 1>> \in Ids
                 /\ row' = [row EXCEPT ![<<a, n + 1>>] = NewRow]
                 /\ intake' = [intake EXCEPT ![c] = [at |-> "enrich", anomaly |-> a,
                                                     id |-> <<a, n + 1>>, seen |-> NewRow]]
                 /\ UNCHANGED faults
      <4>1. PICK n \in Nat :
                 /\ <<a, n + 1>> \in Ids
                 /\ row' = [row EXCEPT ![<<a, n + 1>>] = NewRow]
                 /\ intake' = [intake EXCEPT ![c] = [at |-> "enrich", anomaly |-> a,
                                                     id |-> <<a, n + 1>>, seen |-> NewRow]]
                 /\ UNCHANGED faults
        BY <3>1
      <4>2. [at |-> "enrich", anomaly |-> a, id |-> <<a, n + 1>>, seen |-> NewRow] \in Intakes
        BY <1>3, <4>1, CreateEffect DEF Intakes
      <4>3. faults <= MaxFaults
        BY IncidentsAssumption DEF TypeInv, Types
      <4>. QED
        BY <1>3, <4>1, <4>2, <4>3, CreateEffect DEF TypeInv, Types
    <3>2. CASE /\ intake' = [intake EXCEPT ![c] = Idle]
               /\ UNCHANGED row /\ faults' = faults + 1 /\ faults < MaxFaults
      <4>1. Idle \in Intakes
        BY DEF Intakes
      <4>2. faults + 1 <= MaxFaults
        BY <3>2, IncidentsAssumption DEF TypeInv, Types
      <4>. QED
        BY <3>2, <4>1, <4>2 DEF TypeInv, Types
    <3>. QED
      BY <1>3, <3>1, <3>2, CreateEffect
  <2>2. UNCHANGED <<timeline, pending, marked, blind, session, commands>>
    BY <1>3, CreateEffect DEF requests
  <2>3. faults' \in 0 .. MaxFaults /\ \A b \in Anomalies : pending'[b] <= 1 + faults'
    BY <2>1, <2>2, IncidentsAssumption DEF TypeInv, Types
  <2>. QED
    BY <2>1, <2>2, <2>3 DEF TypeInv, Types
<1>4. ASSUME NEW c \in Consumers, Enrich(c) \/ PullRequest(c) PROVE Types'
  <2>1. row' \in [Ids -> Rows \cup {Absent}]
    <3>1. CASE UNCHANGED <<row, stale>>
      BY <3>1 DEF TypeInv, Types
    <3>2. CASE \E new \in Rows : /\ Like(new, intake[c].seen)
                                 /\ Save(intake[c].id, intake[c].seen, new)
      <4>1. intake[c].id \in Ids /\ Exists(intake[c].id)
        BY <1>4, NoteEffect
      <4>. QED
        BY <3>2, <4>1, SaveLemma DEF TypeInv
    <3>. QED
      BY <1>4, <3>1, <3>2, NoteEffect
  <2>2. /\ intake' \in [Consumers -> Intakes]
        /\ faults' \in {faults, faults + 1} /\ faults' <= MaxFaults
        /\ UNCHANGED <<timeline, pending, marked, blind, session, commands>>
    BY <1>4, NoteEffect DEF TypeInv, Types, requests
  <2>3. faults' \in 0 .. MaxFaults /\ \A b \in Anomalies : pending'[b] <= 1 + faults'
    BY <2>2, IncidentsAssumption DEF TypeInv, Types
  <2>. QED
    BY <2>1, <2>2, <2>3 DEF TypeInv, Types
<1>5. ASSUME NEW c \in Consumers,
             \/ \E a \in Anomalies : Deliver(c, a)
             \/ CheckRedis(c) \/ CheckDatabase(c) \/ Crash(c)
      PROVE  Types'
  BY <1>5, CheckEffect DEF TypeInv, Types, table, requests
<1>6. ASSUME NEW a \in Anomalies, Redeliver(a) \/ Expire(a) PROVE Types'
  BY <1>6, TopicEffect DEF TypeInv, Types, table, requests
<1>7. CASE UNCHANGED vars
  BY <1>7 DEF TypeInv, Types, vars, table, topic, requests
<1>. QED
  BY <1>1, <1>2, <1>3, <1>4, <1>5, <1>6, <1>7, StepCases

\* Only Create changes which incidents exist, and it adds one.
LEMMA RowsStay ==
  ASSUME TypeInv, [Next]_vars
  PROVE  /\ \A id \in Ids : Exists(id) => Exists(id)'
         /\ (~ \E c \in Consumers : Create(c)) => \A id \in Ids : Exists(id)' <=> Exists(id)
<1>1. ASSUME NEW s \in Sessions, Commit(s)
      PROVE  \A id \in Ids : Exists(id)' <=> Exists(id)
  BY <1>1, CommitEffect, SaveLemma DEF TypeInv
<1>2. ASSUME NEW c \in Consumers, Enrich(c) \/ PullRequest(c)
      PROVE  \A id \in Ids : Exists(id)' <=> Exists(id)
  <2>1. intake[c].id \in Ids /\ Exists(intake[c].id)
    BY <1>2, NoteEffect
  <2>2. CASE UNCHANGED <<row, stale>>
    BY <2>2 DEF Exists
  <2>3. CASE \E new \in Rows : Like(new, intake[c].seen)
                               /\ Save(intake[c].id, intake[c].seen, new)
    BY <2>1, <2>3, SaveLemma DEF TypeInv
  <2>. QED
    BY <1>2, <2>2, <2>3, NoteEffect
<1>3. ASSUME NEW c \in Consumers, Create(c)
      PROVE  \A id \in Ids : Exists(id) => Exists(id)'
  <2>1. row \in [Ids -> Rows \cup {Absent}]
    BY DEF TypeInv, Types
  <2>. QED
    BY <1>3, <2>1, CreateEffect DEF Exists
<1>4. ASSUME NEW s \in Sessions, NEW id \in Ids,
             BeginTransition(s, id) \/ BeginAssign(s, id) \/ BeginDirect(s, id)
      PROVE  UNCHANGED row
  BY <1>4, BeginEffect DEF table
<1>5. ASSUME NEW c \in Consumers,
             \/ \E a \in Anomalies : Deliver(c, a)
             \/ CheckRedis(c) \/ CheckDatabase(c) \/ Crash(c)
      PROVE  UNCHANGED row
  BY <1>5, CheckEffect DEF table
<1>6. ASSUME NEW a \in Anomalies, Redeliver(a) \/ Expire(a) PROVE UNCHANGED row
  BY <1>6, TopicEffect DEF table
<1>7. UNCHANGED vars => UNCHANGED row
  BY DEF vars, table
<1>8. UNCHANGED row => \A id \in Ids : Exists(id)' <=> Exists(id)
  BY DEF Exists
<1>. QED
  BY <1>1, <1>2, <1>3, <1>4, <1>5, <1>6, <1>7, <1>8, StepCases

\* Who works on an incident works on one that exists, after every step.
LEMMA NextPresent == TypeInv /\ [Next]_vars => Present'
<1> SUFFICES ASSUME TypeInv, [Next]_vars PROVE Present'
  OBVIOUS
<1>. DEFINE PresentC == \A c \in Consumers : Late(c) => Exists(intake[c].id)
            PresentS == \A s \in Sessions : session[s] # Idle => Exists(session[s].id)
<1>0. PresentC /\ PresentS /\ (PresentC' /\ PresentS' => Present')
  BY DEF TypeInv, Present
<1>1. intake \in [Consumers -> Intakes] /\ session \in [Sessions -> Commands]
  BY DEF TypeInv, Types
<1>2. ASSUME NEW c \in Consumers, Late(c) PROVE intake[c].id \in Ids
  <2>1. intake[c] \in [at : {"enrich", "pull request", "github"}, anomaly : Anomalies,
                       id : Ids, seen : Rows]
    BY <1>1, <1>2, IntakeShape DEF Late
  <2>. QED
    BY <2>1
<1>3. \A s \in Sessions : session[s] # Idle => session[s].id \in Ids
  BY <1>1, CommandShape
<1>4. UNCHANGED intake => PresentC'
  BY <1>0, <1>2, RowsStay DEF Late
<1>5. UNCHANGED session => PresentS'
  BY <1>0, <1>3, RowsStay
<1>6. ASSUME NEW s \in Sessions, NEW id \in Ids,
             BeginTransition(s, id) \/ BeginAssign(s, id) \/ BeginDirect(s, id)
      PROVE  PresentC' /\ PresentS'
  <2>1. PICK x \in Commands : session' = [session EXCEPT ![s] = x] /\ x.id = id
    BY <1>6, BeginEffect
  <2>2. Exists(id)'
    BY <1>6, BeginEffect, RowsStay
  <2>3. PresentS'
    BY <1>0, <1>1, <1>3, <2>1, <2>2, RowsStay
  <2>. QED
    BY <1>4, <1>6, <2>3, BeginEffect
<1>7. ASSUME NEW s \in Sessions, Commit(s) PROVE PresentC' /\ PresentS'
  <2>1. session' = [session EXCEPT ![s] = Idle] /\ UNCHANGED intake
    BY <1>7, CommitEffect
  <2>2. PresentS'
    BY <1>0, <1>1, <1>3, <2>1, RowsStay
  <2>. QED
    BY <1>4, <2>1, <2>2
<1>8. ASSUME NEW c \in Consumers, NEW x \in Intakes, intake' = [intake EXCEPT ![c] = x],
             x.at \in {"enrich", "pull request", "github"} => Exists(x.id)'
      PROVE  PresentC'
  BY <1>0, <1>1, <1>2, <1>8, RowsStay DEF Late
<1>9. ASSUME NEW c \in Consumers, Create(c) PROVE PresentC' /\ PresentS'
  <2>. DEFINE a == intake[c].anomaly
              copy(n) == [at |-> "enrich", anomaly |-> a, id |-> <<a, n + 1>>, seen |-> NewRow]
  <2>1. ASSUME \E n \in Nat : /\ <<a, n + 1>> \in Ids
                              /\ row' = [row EXCEPT ![<<a, n + 1>>] = NewRow]
                              /\ intake' = [intake EXCEPT ![c] = copy(n)]
        PROVE  PresentC'
    <3>1. PICK n \in Nat : /\ <<a, n + 1>> \in Ids
                           /\ row' = [row EXCEPT ![<<a, n + 1>>] = NewRow]
                           /\ intake' = [intake EXCEPT ![c] = copy(n)]
      BY <2>1
    <3>2. copy(n) \in Intakes /\ copy(n).id = <<a, n + 1>>
      BY <1>9, <3>1, CreateEffect DEF Intakes
    <3>3. \E y \in Intakes, id \in Ids : /\ intake' = [intake EXCEPT ![c] = y]
                                        /\ row' = [row EXCEPT ![id] = NewRow]
                                        /\ y.id = id
      BY <3>1, <3>2
    <3>4. PICK y \in Intakes, id \in Ids : /\ intake' = [intake EXCEPT ![c] = y]
                                          /\ row' = [row EXCEPT ![id] = NewRow]
                                          /\ y.id = id
      BY <3>3
    <3>5. Exists(id)'
      BY <1>9, <3>4, CreateEffect DEF Exists, TypeInv, Types
    <3>. QED
      BY <1>8, <3>4, <3>5
  <2>2. ASSUME intake' = [intake EXCEPT ![c] = Idle] PROVE PresentC'
    <3>1. Idle \in Intakes
      BY DEF Intakes
    <3>2. Idle.at = "idle"
      BY DEF Idle
    <3>. QED
      BY <1>8, <2>2, <3>1, <3>2
  <2>3. PresentC'
    BY <1>9, <2>1, <2>2, CreateEffect
  <2>. QED
    BY <1>5, <1>9, <2>3, CreateEffect DEF requests
<1>10. ASSUME NEW c \in Consumers, Enrich(c) \/ PullRequest(c) PROVE PresentC' /\ PresentS'
  <2>1. PICK x \in Intakes, id \in Ids :
          /\ intake' = [intake EXCEPT ![c] = x]
          /\ id = intake[c].id /\ Exists(id)
          /\ x = Idle \/ x.id = id
    BY <1>10, NoteEffect
  <2>2. Exists(id)' /\ UNCHANGED session
    BY <1>10, <2>1, NoteEffect, RowsStay DEF requests
  <2>3. Idle.at = "idle"
    BY DEF Idle
  <2>4. PresentC'
    BY <1>8, <2>1, <2>2, <2>3
  <2>. QED
    BY <1>5, <2>2, <2>4
<1>11. ASSUME NEW c \in Consumers,
             \/ \E a \in Anomalies : Deliver(c, a)
             \/ CheckRedis(c) \/ CheckDatabase(c) \/ Crash(c)
      PROVE  PresentC' /\ PresentS'
  <2>1. PICK x \in Intakes : intake' = [intake EXCEPT ![c] = x]
                             /\ (x = Idle \/ x.at \in {"redis", "database", "create"})
    BY <1>11, CheckEffect
  <2>2. PresentC'
    BY <1>8, <2>1 DEF Idle
  <2>. QED
    BY <1>5, <1>11, <2>2, CheckEffect DEF requests
<1>12. ASSUME NEW a \in Anomalies, Redeliver(a) \/ Expire(a) PROVE PresentC' /\ PresentS'
  BY <1>4, <1>5, <1>12, TopicEffect DEF requests
<1>13. UNCHANGED vars => PresentC' /\ PresentS'
  BY <1>4, <1>5 DEF vars, requests
<1>14. PresentC' /\ PresentS'
  BY <1>6, <1>7, <1>9, <1>10, <1>11, <1>12, <1>13, StepCases
<1>. QED
  BY <1>0, <1>14

\* The move of a consumer that leaves the tables alone keeps the numbers.
LEMMA NumberedMove ==
  ASSUME TypeInv, NEW c \in Consumers, NEW x, intake' = [intake EXCEPT ![c] = x],
         x.at # "create" \/ Of(x.anomaly) = {},
         \A id \in Ids : Exists(id)' <=> Exists(id)
  PROVE  Numbered'
<1>1. \A a \in Anomalies : Of(a)' = Of(a)
  BY DEF Of
<1>2. intake \in [Consumers -> Intakes]
  BY DEF TypeInv, Types
<1>3. ASSUME NEW a \in Anomalies, x.at # "create" \/ x.anomaly # a
      PROVE  \E n \in Nat : /\ Of(a)' = {a} \X (1 .. n)
                            /\ n + Cardinality(Creating(a)') <= Cardinality(Consumers)
  <2>1. Creating(a)' \subseteq Creating(a)
    BY <1>2, <1>3 DEF Creating
  <2>2. PICK n \in Nat : /\ Of(a) = {a} \X (1 .. n)
                         /\ n + Cardinality(Creating(a)) <= Cardinality(Consumers)
    BY DEF TypeInv, Numbered
  <2>3. /\ Cardinality(Creating(a)') \in Nat
        /\ Cardinality(Creating(a)') <= Cardinality(Creating(a))
    BY <2>1, CreatingIsFinite, FS_Subset, FS_CardinalityType
  <2>4. n + Cardinality(Creating(a)') <= Cardinality(Consumers)
    BY <2>2, <2>3, CreatingIsFinite
  <2>. QED
    BY <1>1, <2>2, <2>4
<1>4. ASSUME NEW a \in Anomalies, x.at = "create", x.anomaly = a
      PROVE  \E n \in Nat : /\ Of(a)' = {a} \X (1 .. n)
                            /\ n + Cardinality(Creating(a)') <= Cardinality(Consumers)
  <2>1. Of(a)' = {a} \X (1 .. 0)
    BY <1>1, <1>4
  <2>2. Creating(a)' \subseteq Consumers
    BY DEF Creating
  <2>3. /\ Cardinality(Creating(a)') \in Nat
        /\ Cardinality(Creating(a)') <= Cardinality(Consumers)
    BY <2>2, IncidentsAssumption, FS_Subset, FS_CardinalityType
  <2>4. 0 + Cardinality(Creating(a)') <= Cardinality(Consumers)
    BY <2>3
  <2>. QED
    BY <2>1, <2>4
<1>. QED
  BY <1>3, <1>4 DEF Numbered

\* Creation uses the next number up, and the place of the consumer that had it.
LEMMA NumberedCreate ==
  ASSUME TypeInv, NEW c \in Consumers, Create(c)
  PROVE  Numbered'
<1>1. CASE /\ intake' = [intake EXCEPT ![c] = Idle] /\ UNCHANGED row
  <2>1. \A id \in Ids : Exists(id)' <=> Exists(id)
    BY <1>1 DEF Exists
  <2>2. Idle.at # "create"
    BY DEF Idle
  <2>. QED
    BY <1>1, <2>1, <2>2, NumberedMove
<1>2. ASSUME NEW a \in Anomalies, NEW n \in Nat, intake[c].anomaly = a,
             Of(a) = {a} \X (1 .. n), <<a, n + 1>> \in Ids, ~Exists(<<a, n + 1>>),
             n + Cardinality(Creating(a)) <= Cardinality(Consumers),
             row' = [row EXCEPT ![<<a, n + 1>>] = NewRow],
             intake' = [intake EXCEPT ![c] = [at |-> "enrich", anomaly |-> a,
                                              id |-> <<a, n + 1>>, seen |-> NewRow]]
      PROVE  Numbered'
  <2>1. /\ intake \in [Consumers -> Intakes] /\ row \in [Ids -> Rows \cup {Absent}]
        /\ c \in Creating(a) /\ NewRow # Absent
    BY <1>2, CreateEffect DEF TypeInv, Types, Creating
  <2>2. \A id \in Ids : Exists(id)' <=> Exists(id) \/ id = <<a, n + 1>>
    BY <1>2, <2>1 DEF Exists
  <2>3. ASSUME NEW b \in Anomalies, b # a
        PROVE  \E m \in Nat : /\ Of(b)' = {b} \X (1 .. m)
                              /\ m + Cardinality(Creating(b)') <= Cardinality(Consumers)
    <3>1. Of(b)' = Of(b)
      BY <2>2, <2>3 DEF Of
    <3>2. Creating(b)' = Creating(b)
      <4>1. \A d \in Consumers : d # c => intake'[d] = intake[d]
        BY <1>2, <2>1
      <4>2. c \notin Creating(b) /\ intake'[c].at = "enrich"
        BY <1>2, <2>1, <2>3 DEF Creating
      <4>. QED
        BY <4>1, <4>2 DEF Creating
    <3>. QED
      BY <3>1, <3>2 DEF TypeInv, Numbered
  <2>4. Of(a)' = {a} \X (1 .. n + 1)
    <3>1. Of(a)' = Of(a) \cup {<<a, n + 1>>}
      BY <1>2, <2>2 DEF Of
    <3>2. 1 .. n + 1 = (1 .. n) \cup {n + 1}
      OBVIOUS
    <3>. QED
      BY <1>2, <3>1, <3>2
  <2>5. Creating(a)' = Creating(a) \ {c}
    <3>1. \A d \in Consumers : d # c => intake'[d] = intake[d]
      BY <1>2, <2>1
    <3>2. intake'[c].at = "enrich"
      BY <1>2, <2>1
    <3>. QED
      BY <3>1, <3>2 DEF Creating
  <2>6. Cardinality(Creating(a)') = Cardinality(Creating(a)) - 1
    BY <2>1, <2>5, CreatingIsFinite, FS_RemoveElement
  <2>7. (n + 1) + Cardinality(Creating(a)') <= Cardinality(Consumers)
    BY <1>2, <2>6, CreatingIsFinite
  <2>8. \E m \in Nat : /\ Of(a)' = {a} \X (1 .. m)
                       /\ m + Cardinality(Creating(a)') <= Cardinality(Consumers)
    BY <2>4, <2>7
  <2>. QED
    BY <2>3, <2>8 DEF Numbered
<1>. QED
  BY <1>1, <1>2, CreateEffect

\* Every step leaves an anomaly's incidents numbered without a gap.
LEMMA NextNumbered == TypeInv /\ [Next]_vars => Numbered'
<1> SUFFICES ASSUME TypeInv, [Next]_vars PROVE Numbered'
  OBVIOUS
<1>1. UNCHANGED intake /\ (\A id \in Ids : Exists(id)' <=> Exists(id)) => Numbered'
  BY NumberedFrame DEF TypeInv, Creating
<1>2. UNCHANGED row => \A id \in Ids : Exists(id)' <=> Exists(id)
  BY DEF Exists
<1>3. ASSUME NEW s \in Sessions, NEW id \in Ids,
             BeginTransition(s, id) \/ BeginAssign(s, id) \/ BeginDirect(s, id)
      PROVE  Numbered'
  BY <1>1, <1>2, <1>3, BeginEffect DEF table
<1>4. ASSUME NEW s \in Sessions, Commit(s) PROVE Numbered'
  BY <1>1, <1>4, CommitEffect, SaveLemma DEF TypeInv
<1>5. ASSUME NEW c \in Consumers, Enrich(c) \/ PullRequest(c) PROVE Numbered'
  <2>1. PICK x \in Intakes : /\ intake' = [intake EXCEPT ![c] = x]
                             /\ x = Idle \/ x.at \in {"pull request", "github"}
    BY <1>5, NoteEffect
  <2>2. \A id \in Ids : Exists(id)' <=> Exists(id)
    <3>1. intake[c].id \in Ids /\ Exists(intake[c].id)
      BY <1>5, NoteEffect
    <3>2. ASSUME NEW new \in Rows, Save(intake[c].id, intake[c].seen, new)
          PROVE  \A id \in Ids : Exists(id)' <=> Exists(id)
      BY <3>1, <3>2, SaveLemma DEF TypeInv
    <3>. QED
      BY <1>2, <1>5, <3>2, NoteEffect
  <2>3. Idle.at = "idle"
    BY DEF Idle
  <2>4. x.at # "create"
    BY <2>1, <2>3
  <2>. QED
    BY <2>1, <2>2, <2>4, NumberedMove
<1>6. ASSUME NEW c \in Consumers,
             \/ \E a \in Anomalies : Deliver(c, a)
             \/ CheckRedis(c) \/ CheckDatabase(c) \/ Crash(c)
      PROVE  Numbered'
  <2>1. PICK x \in Intakes :
          /\ intake' = [intake EXCEPT ![c] = x]
          /\ \/ x = Idle
             \/ x.at \in {"redis", "database"}
             \/ x.at = "create" /\ Of(x.anomaly) = {}
    BY <1>6, CheckEffect
  <2>2. x.at # "create" \/ Of(x.anomaly) = {}
    BY <2>1 DEF Idle
  <2>3. \A id \in Ids : Exists(id)' <=> Exists(id)
    BY <1>2, <1>6, CheckEffect DEF table
  <2>. QED
    BY <2>1, <2>2, <2>3, NumberedMove
<1>7. ASSUME NEW a \in Anomalies, Redeliver(a) \/ Expire(a) PROVE Numbered'
  BY <1>1, <1>2, <1>7, TopicEffect DEF table
<1>8. CASE UNCHANGED vars
  BY <1>1, <1>2, <1>8 DEF vars, table
<1>. QED
  BY <1>3, <1>4, <1>5, <1>6, <1>7, <1>8, NumberedCreate, StepCases

\* The types hold in every reachable state.
LEMMA TypeInvHolds == Spec => []TypeInv
<1>1. TypeInv /\ [Next]_vars => TypeInv'
  BY NextTypes, NextPresent, NextNumbered DEF TypeInv
<1>. QED
  BY <1>1, InitTypeInv, PTL DEF Spec

\* Types, for any number of anomalies, consumers, sessions, commands and faults: no
\* anomaly ever needs more numbers than there are consumers.
THEOREM TypesHold == Spec => []TypeOK
<1>1. TypeInv => TypeOK
  <2> SUFFICES ASSUME TypeInv PROVE TypeOK
    OBVIOUS
  <2>1. \A id \in Ids :
          timeline[id] \in Seq([op : {"transition", "resolve", "escalate", "healing"},
                                from : States, to : States])
    BY DEF TypeInv, Types, Entries, Moves
  <2>2. pending \in [Anomalies -> 0 .. 1 + MaxFaults]
    BY IncidentsAssumption DEF TypeInv, Types
  <2>3. \A c \in Consumers : intake[c] = Idle \/ intake[c].anomaly \in Anomalies
    BY IntakeShape DEF TypeInv, Types
  <2>4. \A s \in Sessions : session[s] = Idle \/ session[s].seen \in Rows
    BY CommandShape DEF TypeInv, Types
  <2>. QED
    BY <2>1, <2>2, <2>3, <2>4 DEF TypeInv, Types, TypeOK
<1>. QED
  BY <1>1, TypeInvHolds, PTL

-----------------------------------------------------------------------------
(* Who writes rows, and from what. *)

\* A row that changes is new, or written by a command or a consumer from its copy,
\* and then it is outdated unless the copy was the row.
LEMMA RowWrites ==
  ASSUME TypeInv, [Next]_vars, NEW id \in Ids
  PROVE  \/ row'[id] = row[id]
         \/ ~Exists(id) /\ row'[id] = NewRow
         \/ \E s \in Sessions :
              /\ session[s] # Idle /\ session[s].id = id /\ session[s].seen \in Rows
              /\ session[s].op = "assign" \/ (session[s].op \in Moves /\ session[s].to \in States)
              /\ row'[id] = Changed(session[s].seen, session[s].op, session[s].to)
         \/ \E c \in Consumers :
              /\ Late(c) /\ intake[c].id = id /\ Like(row'[id], intake[c].seen)
<1>0. row \in [Ids -> Rows \cup {Absent}]
  BY DEF TypeInv, Types
<1>1. ASSUME NEW s \in Sessions, Commit(s)
      PROVE  \/ row'[id] = row[id]
             \/ /\ session[s] # Idle /\ session[s].id = id /\ session[s].seen \in Rows
                /\ session[s].op = "assign" \/ (session[s].op \in Moves /\ session[s].to \in States)
                /\ row'[id] = Changed(session[s].seen, session[s].op, session[s].to)
  <2>. DEFINE r == session[s]
              new == Changed(r.seen, r.op, r.to)
  <2>1. /\ r # Idle /\ r.id \in Ids /\ r.seen \in Rows /\ Exists(r.id) /\ new \in Rows
        /\ r.op = "assign" \/ (r.op \in Moves /\ r.to \in States)
        /\ Save(r.id, r.seen, new)
    BY <1>1, CommitEffect
  <2>2. row'[r.id] = new /\ \A j \in Ids : j # r.id => row'[j] = row[j]
    <3>. HIDE DEF new
    <3>. QED
      BY <2>1, SaveLemma DEF TypeInv
  <2>. QED
    BY <2>1, <2>2
<1>2. ASSUME NEW c \in Consumers, Create(c)
      PROVE  row'[id] = row[id] \/ (~Exists(id) /\ row'[id] = NewRow)
  <2>1. CASE UNCHANGED row
    BY <2>1
  <2>2. CASE \E n \in Nat : LET new == <<intake[c].anomaly, n + 1>> IN
               new \in Ids /\ ~Exists(new) /\ row' = [row EXCEPT ![new] = NewRow]
    <3>1. PICK new \in Ids : ~Exists(new) /\ row' = [row EXCEPT ![new] = NewRow]
      BY <2>2
    <3>. QED
      BY <1>0, <3>1
  <2>. QED
    BY <1>2, <2>1, <2>2, CreateEffect
<1>3. ASSUME NEW c \in Consumers, Enrich(c) \/ PullRequest(c)
      PROVE  row'[id] = row[id] \/ (Late(c) /\ intake[c].id = id /\ Like(row'[id], intake[c].seen))
  <2>1. Late(c) /\ intake[c].id \in Ids /\ Exists(intake[c].id)
    BY <1>3, NoteEffect
  <2>2. ASSUME NEW new \in Rows, Like(new, intake[c].seen),
               Save(intake[c].id, intake[c].seen, new)
        PROVE  row'[id] = row[id] \/ (intake[c].id = id /\ Like(row'[id], intake[c].seen))
    BY <2>1, <2>2, SaveLemma DEF TypeInv
  <2>. QED
    BY <1>3, <2>1, <2>2, NoteEffect
<1>4. ASSUME NEW s \in Sessions, NEW j \in Ids,
             BeginTransition(s, j) \/ BeginAssign(s, j) \/ BeginDirect(s, j)
      PROVE  UNCHANGED row
  BY <1>4, BeginEffect DEF table
<1>5. ASSUME NEW c \in Consumers,
             \/ \E a \in Anomalies : Deliver(c, a)
             \/ CheckRedis(c) \/ CheckDatabase(c) \/ Crash(c)
      PROVE  UNCHANGED row
  BY <1>5, CheckEffect DEF table
<1>6. ASSUME NEW a \in Anomalies, Redeliver(a) \/ Expire(a) PROVE UNCHANGED row
  BY <1>6, TopicEffect DEF table
<1>7. UNCHANGED vars => UNCHANGED row
  BY DEF vars, table
<1>. QED
  BY <1>1, <1>2, <1>3, <1>4, <1>5, <1>6, <1>7, StepCases

\* A session's copy is the row it began with.
LEMMA SessionCopies ==
  ASSUME TypeInv, [Next]_vars, NEW s \in Sessions, session'[s] # Idle
  PROVE  \/ session'[s] = session[s]
         \/ \E id \in Ids :
              /\ Exists(id) /\ session'[s].id = id /\ session'[s].seen = row[id]
              /\ session'[s].op = "transition" =>
                   Allowed(session'[s].seen.state, session'[s].to)
<1>0. session \in [Sessions -> Commands]
  BY DEF TypeInv, Types
<1>1. ASSUME NEW t \in Sessions, Commit(t) PROVE session'[s] = session[s]
  BY <1>0, <1>1, CommitEffect
<1>2. ASSUME NEW t \in Sessions, NEW id \in Ids,
             BeginTransition(t, id) \/ BeginAssign(t, id) \/ BeginDirect(t, id)
      PROVE  \/ session'[s] = session[s]
             \/ /\ Exists(id) /\ session'[s].id = id /\ session'[s].seen = row[id]
                /\ session'[s].op = "transition" =>
                     Allowed(session'[s].seen.state, session'[s].to)
  <2>1. PICK x \in Commands :
          /\ session' = [session EXCEPT ![t] = x]
          /\ x.id = id /\ x.seen = row[id]
          /\ x.op = "transition" => Allowed(x.seen.state, x.to)
    BY <1>2, BeginEffect
  <2>. QED
    BY <1>0, <1>2, <2>1, BeginEffect
<1>3. ASSUME NEW c \in Consumers, Create(c) \/ Enrich(c) \/ PullRequest(c)
      PROVE  session' = session
  BY <1>3, CreateEffect, NoteEffect DEF requests
<1>4. ASSUME NEW c \in Consumers,
             \/ \E a \in Anomalies : Deliver(c, a)
             \/ CheckRedis(c) \/ CheckDatabase(c) \/ Crash(c)
      PROVE  session' = session
  BY <1>4, CheckEffect DEF requests
<1>5. ASSUME NEW a \in Anomalies, Redeliver(a) \/ Expire(a) PROVE session' = session
  BY <1>5, TopicEffect DEF requests
<1>6. UNCHANGED vars => session' = session
  BY DEF vars, requests
<1>. QED
  BY <1>1, <1>2, <1>3, <1>4, <1>5, <1>6, StepCases

\* A consumer's copy is the row it created, or like a copy or a row.
LEMMA ConsumerCopies ==
  ASSUME TypeInv, [Next]_vars, NEW c \in Consumers, Late(c)'
  PROVE  \/ intake'[c].seen = NewRow
         \/ Late(c) /\ (intake'[c] = intake[c] \/ Like(intake'[c].seen, intake[c].seen))
         \/ \E id \in Ids : Exists(id) /\ Like(intake'[c].seen, row[id])
<1>0. intake \in [Consumers -> Intakes] /\ Idle.at = "idle"
  BY DEF TypeInv, Types, Idle
<1>1. ASSUME NEW d \in Consumers, NEW x, intake' = [intake EXCEPT ![d] = x]
      PROVE  \/ d # c /\ intake'[c] = intake[c] /\ Late(c)
             \/ d = c /\ intake'[c] = x /\ x.at \in {"enrich", "pull request", "github"}
  BY <1>0, <1>1 DEF Late
<1>2. UNCHANGED intake => Late(c) /\ intake'[c] = intake[c]
  BY DEF Late
<1>3. ASSUME NEW s \in Sessions, Commit(s) PROVE UNCHANGED intake
  BY <1>3, CommitEffect
<1>4. ASSUME NEW s \in Sessions, NEW id \in Ids,
             BeginTransition(s, id) \/ BeginAssign(s, id) \/ BeginDirect(s, id)
      PROVE  UNCHANGED intake
  BY <1>4, BeginEffect
<1>5. ASSUME NEW d \in Consumers, Create(d)
      PROVE  intake'[c].seen = NewRow \/ (Late(c) /\ intake'[c] = intake[c])
  <2>1. PICK x : /\ intake' = [intake EXCEPT ![d] = x]
                 /\ x = Idle \/ x.seen = NewRow
    <3>1. CASE intake' = [intake EXCEPT ![d] = Idle]
      BY <3>1
    <3>2. CASE \E n \in Nat : LET x == [at |-> "enrich", anomaly |-> intake[d].anomaly,
                                       id |-> <<intake[d].anomaly, n + 1>>, seen |-> NewRow]
                             IN  intake' = [intake EXCEPT ![d] = x]
      <4>1. PICK n \in Nat :
              intake' = [intake EXCEPT ![d] =
                           [at |-> "enrich", anomaly |-> intake[d].anomaly,
                            id |-> <<intake[d].anomaly, n + 1>>, seen |-> NewRow]]
        BY <3>2
      <4>2. [at |-> "enrich", anomaly |-> intake[d].anomaly,
             id |-> <<intake[d].anomaly, n + 1>>, seen |-> NewRow].seen = NewRow
        OBVIOUS
      <4>. QED
        BY <4>1, <4>2
    <3>. QED
      BY <1>5, <3>1, <3>2, CreateEffect
  <2>. QED
    BY <1>0, <1>1, <2>1
<1>6. ASSUME NEW d \in Consumers, Enrich(d) \/ PullRequest(d)
      PROVE  \/ Late(c) /\ (intake'[c] = intake[c] \/ Like(intake'[c].seen, intake[c].seen))
             \/ \E id \in Ids : Exists(id) /\ Like(intake'[c].seen, row[id])
  <2>1. PICK x \in Intakes :
          /\ intake' = [intake EXCEPT ![d] = x]
          /\ x = Idle \/ (Like(x.seen, intake[d].seen) \/ Like(x.seen, row[intake[d].id]))
    BY <1>6, NoteEffect
  <2>2. Late(d) /\ intake[d].id \in Ids /\ Exists(intake[d].id)
    BY <1>6, NoteEffect
  <2>. QED
    BY <1>0, <1>1, <2>1, <2>2
<1>7. ASSUME NEW d \in Consumers,
             \/ \E a \in Anomalies : Deliver(d, a)
             \/ CheckRedis(d) \/ CheckDatabase(d) \/ Crash(d)
      PROVE  Late(c) /\ intake'[c] = intake[c]
  <2>1. PICK x \in Intakes :
          /\ intake' = [intake EXCEPT ![d] = x]
          /\ x = Idle \/ x.at \in {"redis", "database", "create"}
    BY <1>7, CheckEffect
  <2>. QED
    BY <1>0, <1>1, <2>1
<1>8. ASSUME NEW a \in Anomalies, Redeliver(a) \/ Expire(a) PROVE UNCHANGED intake
  BY <1>8, TopicEffect
<1>9. UNCHANGED vars => UNCHANGED intake
  BY DEF vars
<1>. QED
  BY <1>2, <1>3, <1>4, <1>5, <1>6, <1>7, <1>8, <1>9, StepCases

-----------------------------------------------------------------------------
(* RESOLVED comes with its time. *)

Timed(r) == r.state = "RESOLVED" => r.resolvedAt

\* The rows alone are not enough: every copy somebody is going to write back must
\* be timed as well.
TimedRows == \A id \in Ids : Timed(row[id])
TimedCopies ==
  /\ \A s \in Sessions : session[s] # Idle => Timed(session[s].seen)
  /\ \A c \in Consumers : Late(c) => Timed(intake[c].seen)

TimeInv == TimedRows /\ TimedCopies

\* A copy with the state and the time of a row that has its time, has it too.
LEMMA TimedLike == \A r, q : Like(r, q) /\ Timed(q) => Timed(r)
BY DEF Like, Timed

\* A command that resolves an incident sets the time.
LEMMA TimedChanged ==
  ASSUME NEW seen \in Rows, NEW op, NEW to, Timed(seen),
         op = "assign" \/ (op \in Moves /\ to \in States)
  PROVE  Timed(Changed(seen, op, to))
<1>. DEFINE new == Changed(seen, op, to)
<1>1. /\ op = "assign" => new.state = seen.state /\ new.resolvedAt = seen.resolvedAt
      /\ op # "assign" => new.state = to /\ (to = "RESOLVED" => new.resolvedAt)
  BY ChangedLemma
<1>2. Timed(new)
  <2>. HIDE DEF new
  <2>1. CASE op = "assign"
    BY <1>1, <2>1 DEF Timed
  <2>2. CASE op # "assign"
    BY <1>1, <2>2 DEF Timed
  <2>. QED
    BY <2>1, <2>2
<1>. QED
  BY <1>2

\* No step writes a RESOLVED without its time, into a row or into a copy.
LEMMA NextTimeInv == TypeInv /\ TimeInv /\ [Next]_vars => TimeInv'
<1> SUFFICES ASSUME TypeInv, TimeInv, [Next]_vars PROVE TimeInv'
  OBVIOUS
<1>1. Timed(NewRow)
  BY DEF NewRow, Timed
<1>2. ASSUME NEW id \in Ids PROVE Timed(row'[id])
  <2>1. ASSUME NEW s \in Sessions, session[s] # Idle, session[s].seen \in Rows,
               session[s].op = "assign" \/ (session[s].op \in Moves /\ session[s].to \in States)
        PROVE  Timed(Changed(session[s].seen, session[s].op, session[s].to))
    <3>1. Timed(session[s].seen)
      BY <2>1 DEF TimeInv, TimedCopies
    <3>. QED
      BY <2>1, <3>1, TimedChanged
  <2>. QED
    BY <1>1, <2>1, RowWrites, TimedLike DEF TimeInv, TimedRows, TimedCopies
<1>3. ASSUME NEW s \in Sessions, session'[s] # Idle PROVE Timed(session'[s].seen)
  BY <1>3, SessionCopies DEF TimeInv, TimedRows, TimedCopies
<1>4. ASSUME NEW c \in Consumers, Late(c)' PROVE Timed(intake'[c].seen)
  BY <1>1, <1>4, ConsumerCopies, TimedLike DEF TimeInv, TimedRows, TimedCopies
<1>. QED
  BY <1>2, <1>3, <1>4 DEF TimeInv, TimedRows, TimedCopies, Timed

\* However many writers overlap, no incident is RESOLVED without the time of its
\* resolution (updateState, saves of outdated copies).
THEOREM ResolvedIsTimed == Spec => []ResolvedHasTime
<1>1. Init => TimeInv
  <2> SUFFICES ASSUME Init PROVE TimeInv
    OBVIOUS
  <2>1. Timed(Absent)
    BY DEF Timed, Absent
  <2>2. TimedRows
    BY <2>1 DEF Init, TimedRows
  <2>3. TimedCopies
    BY DEF Init, TimedCopies, Late, Idle
  <2>. QED
    BY <2>2, <2>3 DEF TimeInv
<1>2. TimeInv => ResolvedHasTime
  BY DEF TimeInv, TimedRows, Timed, ResolvedHasTime
<1>. QED
  BY <1>1, <1>2, NextTimeInv, TypeInvHolds, PTL DEF Spec

-----------------------------------------------------------------------------
(* The timeline. *)

EntryOf(r) == [op |-> r.op, from |-> r.seen.state, to |-> r.to]

\* Where no outdated copy is written, a row changes its state with an entry that
\* tells it, or is new, or keeps its state.
LEMMA RecordedWrites ==
  ASSUME TypeInv, [Next]_vars, NEW id \in Ids
  PROVE  /\ stale \subseteq stale'
         /\ \/ /\ timeline'[id] = timeline[id]
               /\ \/ row'[id].state = row[id].state /\ (Exists(id)' => Exists(id))
                  \/ ~Exists(id) /\ row'[id] = NewRow
                  \/ id \in stale'
            \/ \E s \in Sessions :
                 /\ session[s] # Idle /\ session[s].id = id /\ session[s].op \in Moves
                 /\ Exists(id)
                 /\ timeline'[id] = Append(timeline[id], EntryOf(session[s]))
                 /\ EntryOf(session[s]) \in Entries
                 /\ id \in stale' \/ /\ session[s].seen = row[id]
                                     /\ row'[id].state = session[s].to
<1>. DEFINE Quiet == /\ timeline'[id] = timeline[id]
                     /\ \/ row'[id].state = row[id].state /\ (Exists(id)' => Exists(id))
                        \/ ~Exists(id) /\ row'[id] = NewRow
                        \/ id \in stale'
            Told(s) == /\ session[s] # Idle /\ session[s].id = id /\ session[s].op \in Moves
                       /\ Exists(id)
                       /\ timeline'[id] = Append(timeline[id], EntryOf(session[s]))
                       /\ EntryOf(session[s]) \in Entries
                       /\ id \in stale' \/ /\ session[s].seen = row[id]
                                           /\ row'[id].state = session[s].to
<1>0. row \in [Ids -> Rows \cup {Absent}] /\ timeline \in [Ids -> Seq(Entries)]
  BY DEF TypeInv, Types
<1>1. UNCHANGED table => stale \subseteq stale' /\ Quiet
  BY DEF table, Exists
<1>2. ASSUME NEW s \in Sessions, Commit(s)
      PROVE  stale \subseteq stale' /\ (Quiet \/ Told(s))
  <2>. DEFINE r == session[s]
              new == Changed(r.seen, r.op, r.to)
  <2>1. /\ r # Idle /\ r.id \in Ids /\ r.seen \in Rows /\ Exists(r.id) /\ new \in Rows
        /\ r.op = "assign" \/ (r.op \in Moves /\ r.to \in States)
        /\ Save(r.id, r.seen, new)
        /\ r.op = "assign" => timeline' = timeline
    BY <1>2, CommitEffect
  <2>2. r.op # "assign" => timeline' = [timeline EXCEPT ![r.id] = Append(@, EntryOf(r))]
    BY <1>2, CommitEffect DEF EntryOf
  <2>3. /\ r.op = "assign" => new.state = r.seen.state
        /\ r.op # "assign" => new.state = r.to
    BY <2>1, ChangedLemma
  <2>4. EntryOf(r) \in Entries \/ r.op = "assign"
    BY <2>1 DEF EntryOf, Entries, Rows
  <2>. HIDE DEF new
  <2>5. /\ row'[r.id] = new
        /\ \A j \in Ids : j # r.id => row'[j] = row[j]
        /\ \A j \in Ids : Exists(j)' <=> Exists(j)
        /\ stale \subseteq stale' /\ (row[r.id] # r.seen => r.id \in stale')
    BY <2>1, SaveLemma DEF TypeInv
  <2>6. CASE r.id # id
    BY <1>0, <2>1, <2>2, <2>5, <2>6
  <2>7. CASE r.id = id /\ r.op = "assign"
    BY <2>1, <2>3, <2>5, <2>7
  <2>8. CASE r.id = id /\ r.op # "assign"
    BY <1>0, <2>1, <2>2, <2>3, <2>4, <2>5, <2>8
  <2>. QED
    BY <2>6, <2>7, <2>8
<1>3. ASSUME NEW c \in Consumers, Create(c) PROVE stale \subseteq stale' /\ Quiet
  <2>1. UNCHANGED <<timeline, stale>>
    BY <1>3, CreateEffect
  <2>2. CASE UNCHANGED row
    BY <2>1, <2>2 DEF Exists
  <2>3. CASE \E n \in Nat : LET new == <<intake[c].anomaly, n + 1>> IN
               new \in Ids /\ ~Exists(new) /\ row' = [row EXCEPT ![new] = NewRow]
    <3>1. PICK new \in Ids : ~Exists(new) /\ row' = [row EXCEPT ![new] = NewRow]
      BY <2>3
    <3>. QED
      BY <1>0, <2>1, <3>1 DEF Exists
  <2>. QED
    BY <1>3, <2>2, <2>3, CreateEffect
<1>4. ASSUME NEW c \in Consumers, Enrich(c) \/ PullRequest(c)
      PROVE  stale \subseteq stale' /\ Quiet
  <2>. DEFINE r == intake[c]
  <2>1. r.id \in Ids /\ Exists(r.id) /\ timeline' = timeline
    BY <1>4, NoteEffect
  <2>2. CASE UNCHANGED <<row, stale>>
    BY <2>1, <2>2 DEF Exists
  <2>3. ASSUME NEW new \in Rows, Like(new, r.seen), Save(r.id, r.seen, new)
        PROVE  stale \subseteq stale' /\ Quiet
    <3>1. /\ row'[r.id] = new
          /\ \A j \in Ids : j # r.id => row'[j] = row[j]
          /\ \A j \in Ids : Exists(j)' <=> Exists(j)
          /\ stale \subseteq stale' /\ (row[r.id] # r.seen => r.id \in stale')
      BY <2>1, <2>3, SaveLemma DEF TypeInv
    <3>. QED
      BY <2>1, <2>3, <3>1 DEF Like
  <2>. QED
    BY <1>4, <2>2, <2>3, NoteEffect
<1>5. ASSUME NEW s \in Sessions, NEW j \in Ids,
             BeginTransition(s, j) \/ BeginAssign(s, j) \/ BeginDirect(s, j)
      PROVE  UNCHANGED table
  BY <1>5, BeginEffect
<1>6. ASSUME NEW c \in Consumers,
             \/ \E a \in Anomalies : Deliver(c, a)
             \/ CheckRedis(c) \/ CheckDatabase(c) \/ Crash(c)
      PROVE  UNCHANGED table
  BY <1>6, CheckEffect
<1>7. ASSUME NEW a \in Anomalies, Redeliver(a) \/ Expire(a) PROVE UNCHANGED table
  BY <1>7, TopicEffect
<1>8. UNCHANGED vars => UNCHANGED table
  BY DEF vars
<1>9. stale \subseteq stale' /\ (Quiet \/ \E s \in Sessions : Told(s))
  BY <1>1, <1>2, <1>3, <1>4, <1>5, <1>6, <1>7, <1>8, StepCases
<1>. QED
  BY <1>9

\* The copy of a transition under way allows it, as every entry of one does.
LegalCopies ==
  \A s \in Sessions : session[s] # Idle /\ session[s].op = "transition"
                        => Allowed(session[s].seen.state, session[s].to)

LegalInv == LegalCopies /\ TransitionsAreLegal

\* Every step that records a transition by a request records one of the machine.
LEMMA NextLegalInv == TypeInv /\ LegalInv /\ [Next]_vars => LegalInv'
<1> SUFFICES ASSUME TypeInv, LegalInv, [Next]_vars PROVE LegalInv'
  OBVIOUS
<1>1. LegalCopies'
  <2> SUFFICES ASSUME NEW s \in Sessions, session'[s] # Idle, session'[s].op = "transition"
               PROVE  Allowed(session'[s].seen.state, session'[s].to)
    BY DEF LegalCopies, Allowed
  <2>. QED
    BY SessionCopies DEF LegalInv, LegalCopies
<1>2. ASSUME NEW id \in Ids, NEW k \in DOMAIN timeline'[id], timeline'[id][k].op = "transition"
      PROVE  Allowed(timeline'[id][k].from, timeline'[id][k].to)
  <2>1. CASE timeline'[id] = timeline[id]
    BY <1>2, <2>1 DEF LegalInv, TransitionsAreLegal
  <2>2. CASE \E s \in Sessions : /\ session[s] # Idle
                                 /\ timeline'[id] = Append(timeline[id], EntryOf(session[s]))
                                 /\ EntryOf(session[s]) \in Entries
    <3>1. PICK s \in Sessions : /\ session[s] # Idle
                                /\ timeline'[id] = Append(timeline[id], EntryOf(session[s]))
                                /\ EntryOf(session[s]) \in Entries
      BY <2>2
    <3>. DEFINE e == EntryOf(session[s])
    <3>2. e.op = session[s].op /\ e.from = session[s].seen.state /\ e.to = session[s].to
      BY DEF EntryOf
    <3>. HIDE DEF e
    <3>3. timeline[id] \in Seq(Entries)
      BY DEF TypeInv, Types
    <3>4. CASE k \in DOMAIN timeline[id] /\ timeline'[id][k] = timeline[id][k]
      BY <1>2, <3>4 DEF LegalInv, TransitionsAreLegal
    <3>5. CASE timeline'[id][k] = e
      BY <1>2, <3>1, <3>2, <3>5 DEF LegalInv, LegalCopies
    <3>6. \/ k \in DOMAIN timeline[id] /\ timeline'[id][k] = timeline[id][k]
          \/ timeline'[id][k] = e
      BY <1>2, <3>1, <3>3 DEF e
    <3>. QED
      BY <3>4, <3>5, <3>6
  <2>. QED
    BY <2>1, <2>2, RecordedWrites
<1>. QED
  BY <1>1, <1>2 DEF LegalInv, TransitionsAreLegal, Allowed

\* What PATCH /transition writes into the timeline is a transition of the machine,
\* whatever else writes the incident meanwhile.
THEOREM TransitionsStayLegal == Spec => []TransitionsAreLegal
<1>1. Init => LegalInv
  BY DEF Init, LegalInv, LegalCopies, TransitionsAreLegal
<1>2. LegalInv => TransitionsAreLegal
  BY DEF LegalInv
<1>. QED
  BY <1>1, <1>2, NextLegalInv, TypeInvHolds, PTL DEF Spec

-----------------------------------------------------------------------------
(* Final states, and what explains a row. *)

\* One step of FinalStays.
FinalStep ==
  \A id \in Ids :
    row[id].state \in Final /\ row'[id].state # row[id].state
      => id \in stale' \/ Last(timeline'[id]).op # "transition"

\* The machine has no way out of a final state.
LEMMA NoTransitionFromFinal == \A from \in Final : \A to : ~Allowed(from, to)
BY DEF Final, Allowed, Machine

\* The machine has no way out of RESOLVED and ROLLED_BACK: only who does not ask it,
\* or writes what it read before, can move an incident from there.
THEOREM FinalStatesStay == Spec => FinalStays
<1>1. TypeInv /\ LegalInv /\ [Next]_vars => [FinalStep]_vars
  <2> SUFFICES ASSUME TypeInv, LegalInv, [Next]_vars,
                      NEW id \in Ids, row[id].state \in Final, row'[id].state # row[id].state,
                      id \notin stale'
               PROVE  Last(timeline'[id]).op # "transition"
    BY DEF FinalStep
  <2>1. ~(~Exists(id) /\ row'[id] = NewRow)
    BY DEF Exists, Absent, Final
  <2>2. PICK s \in Sessions :
          /\ session[s] # Idle
          /\ timeline'[id] = Append(timeline[id], EntryOf(session[s]))
          /\ EntryOf(session[s]) \in Entries
          /\ session[s].seen = row[id]
    BY <2>1, RecordedWrites
  <2>3. timeline[id] \in Seq(Entries)
    BY DEF TypeInv, Types
  <2>4. Last(timeline'[id]) = EntryOf(session[s])
    <3>. DEFINE e == EntryOf(session[s])
    <3>1. e \in Entries /\ timeline'[id] = Append(timeline[id], e)
      BY <2>2
    <3>. HIDE DEF e
    <3>2. Last(timeline'[id]) = e
      BY <2>3, <3>1 DEF Last
    <3>. QED
      BY <3>2 DEF e
  <2>5. session[s].op # "transition"
    BY <2>2, NoTransitionFromFinal DEF LegalInv, LegalCopies
  <2>. QED
    BY <2>4, <2>5 DEF EntryOf
<1>2. Init => LegalInv
  BY DEF Init, LegalInv, LegalCopies, TransitionsAreLegal
<1>3. [][FinalStep]_vars => FinalStays
  BY PTL DEF FinalStep, FinalStays
<1>. QED
  BY <1>1, <1>2, <1>3, NextLegalInv, TypeInvHolds, PTL DEF Spec

\* An incident that does not exist has no timeline.
NoGhosts == \A id \in Ids : ~Exists(id) => timeline[id] = <<>>

\* Where the timeline has come to.
Reached(id, k) == IF k = 0 THEN "DETECTED" ELSE timeline[id][k].to
Told(id) ==
  /\ \A k \in DOMAIN timeline[id] : timeline[id][k].from = Reached(id, k - 1)
  /\ row[id].state = Reached(id, Len(timeline[id]))

ExplainInv == NoGhosts /\ \A id \in Ids : Exists(id) /\ id \notin stale => Told(id)

\* Every step leaves a timeline that leads to the state of its row, or a row on
\* record as stale.
LEMMA NextExplainInv == TypeInv /\ ExplainInv /\ [Next]_vars => ExplainInv'
<1> SUFFICES ASSUME TypeInv, ExplainInv, [Next]_vars PROVE ExplainInv'
  OBVIOUS
<1>1. NoGhosts'
  <2> SUFFICES ASSUME NEW id \in Ids, ~Exists(id)' PROVE timeline'[id] = <<>>
    BY DEF NoGhosts
  <2>. QED
    BY RowsStay, RecordedWrites DEF ExplainInv, NoGhosts
<1>2. ASSUME NEW id \in Ids, Exists(id)', id \notin stale' PROVE Told(id)'
  <2>0. timeline[id] \in Seq(Entries) /\ id \notin stale
    BY <1>2, RecordedWrites DEF TypeInv, Types
  <2>1. CASE /\ timeline'[id] = timeline[id] /\ row'[id].state = row[id].state
             /\ Exists(id)
    BY <2>0, <2>1 DEF ExplainInv, Told, Reached
  <2>2. CASE ~Exists(id) /\ row'[id] = NewRow /\ timeline'[id] = timeline[id]
    <3>1. timeline'[id] = <<>> /\ row'[id].state = "DETECTED"
      BY <2>2 DEF ExplainInv, NoGhosts, NewRow
    <3>. QED
      BY <3>1 DEF Told, Reached
  <2>3. ASSUME NEW e \in Entries, Exists(id), timeline'[id] = Append(timeline[id], e),
               e.from = row[id].state, e.to = row'[id].state
        PROVE  Told(id)'
    <3>0. PICK n \in Nat : n = Len(timeline[id])
      BY <2>0
    <3>1. Told(id) /\ DOMAIN timeline[id] = 1 .. n
      BY <2>0, <2>3, <3>0 DEF ExplainInv
    <3>2. /\ Len(timeline'[id]) = n + 1 /\ DOMAIN timeline'[id] = 1 .. n + 1
          /\ timeline'[id][n + 1] = e
          /\ \A k \in 1 .. n : timeline'[id][k] = timeline[id][k]
      BY <2>0, <2>3, <3>0
    <3>3. \A k \in 0 .. n : Reached(id, k)' = Reached(id, k)
      BY <3>1, <3>2 DEF Reached
    <3>4. row[id].state = Reached(id, n)
      BY <3>0, <3>1 DEF Told
    <3>5. e.from = Reached(id, n)'
      BY <2>3, <3>1, <3>3, <3>4
    <3>6. \A k \in 1 .. n : timeline'[id][k].from = Reached(id, k - 1)'
      <4>1. \A k \in 1 .. n : timeline[id][k].from = Reached(id, k - 1)
        BY <3>1 DEF Told
      <4>2. \A k \in 1 .. n : k - 1 \in 0 .. n
        BY <3>1
      <4>. QED
        BY <3>2, <3>3, <4>1, <4>2
    <3>7. row'[id].state = Reached(id, n + 1)'
      BY <2>3, <3>1, <3>2 DEF Reached
    <3>8. \A k \in 1 .. n + 1 : k \in 1 .. n \/ k = n + 1
      BY <3>1
    <3>9. \A k \in DOMAIN timeline'[id] : timeline'[id][k].from = Reached(id, k - 1)'
      <4>1. timeline'[id][n + 1].from = Reached(id, (n + 1) - 1)'
        BY <3>1, <3>2, <3>5
      <4>. QED
        BY <3>2, <3>6, <3>8, <4>1
    <3>. QED
      BY <3>2, <3>7, <3>9 DEF Told
  <2>. QED
    BY <1>2, <2>1, <2>2, <2>3, RecordedWrites DEF EntryOf
<1>. QED
  BY <1>1, <1>2 DEF ExplainInv

\* The timeline of an incident leads from DETECTED to the state of its row, without a
\* gap, unless somebody wrote an outdated copy of this incident.
THEOREM TimelineIsTrue == Spec => []TimelineExplains
<1>1. Init => ExplainInv
  BY DEF Init, ExplainInv, NoGhosts, Exists
<1>2. ExplainInv => TimelineExplains
  BY DEF ExplainInv, Told, Reached, TimelineExplains
<1>. QED
  BY <1>1, <1>2, NextExplainInv, TypeInvHolds, PTL DEF Spec

-----------------------------------------------------------------------------
(* One incident for each anomaly. *)

\* The consumers that Redis has let through and that may still create.
Passed(a) ==
  {c \in Consumers : intake[c].at \in {"database", "create"} /\ intake[c].anomaly = a}

\* Whoever creates a second incident was creating while the first was created.
RaceInv ==
  \A a \in Anomalies :
    /\ \A c, d \in Creating(a) : c # d => a \in raced
    /\ Of(a) # {} /\ Creating(a) # {} => a \in raced
    /\ \A x, y \in Of(a) : x # y => a \in raced

\* As long as Redis has answered and kept its mark, one consumer alone gets through,
\* and none once there is an incident.
BlindInv ==
  \A a \in Anomalies : blind[a] = 0 =>
    /\ a \notin marked => Of(a) = {} /\ Passed(a) = {}
    /\ \A c, d \in Passed(a) : c = d
    /\ Passed(a) = {} \/ Of(a) = {}
    /\ \A x, y \in Of(a) : x = y

OnceInv == RaceInv /\ BlindInv

\* Steps that let nobody through and create nothing.
LEMMA OnceFrame ==
  ASSUME OnceInv, \A id \in Ids : Exists(id)' <=> Exists(id),
         \A a \in Anomalies : Creating(a)' \subseteq Creating(a),
         \A a \in Anomalies : Passed(a)' \subseteq Passed(a),
         raced \subseteq raced',
         \A a \in Anomalies : blind'[a] = 0 => blind[a] = 0 /\ (a \in marked => a \in marked')
  PROVE  OnceInv'
<1>1. \A a \in Anomalies : Of(a)' = Of(a)
  BY DEF Of
<1>2. RaceInv'
  BY <1>1 DEF OnceInv, RaceInv
<1>3. BlindInv'
  BY <1>1 DEF OnceInv, BlindInv
<1>. QED
  BY <1>2, <1>3 DEF OnceInv

\* A consumer that moves elsewhere than to the database or to creation adds itself to
\* no one.
LEMMA OnceMove ==
  ASSUME TypeInv, NEW c \in Consumers, NEW x, intake' = [intake EXCEPT ![c] = x],
         x.at \notin {"database", "create"}
  PROVE  /\ \A a \in Anomalies : Creating(a)' \subseteq Creating(a)
         /\ \A a \in Anomalies : Passed(a)' \subseteq Passed(a)
<1>1. intake \in [Consumers -> Intakes]
  BY DEF TypeInv, Types
<1>2. intake'[c] = x /\ \A d \in Consumers : d # c => intake'[d] = intake[d]
  BY <1>1
<1>. QED
  BY <1>2 DEF Creating, Passed

\* The check of Redis lets a second consumer through only if Redis could not tell.
LEMMA OnceCheckRedis ==
  ASSUME TypeInv, OnceInv, NEW c \in Consumers, CheckRedis(c)
  PROVE  OnceInv'
<1>1. PICK a \in Anomalies : a = intake[c].anomaly
  BY IntakeShape DEF CheckRedis, TypeInv, Types, Idle
<1>2. /\ intake \in [Consumers -> Intakes] /\ blind \in [Anomalies -> Nat]
      /\ intake[c].at = "redis" /\ UNCHANGED <<row, raced>>
      /\ \A id \in Ids : Exists(id)' <=> Exists(id)
  BY DEF CheckRedis, TypeInv, Types, table, Exists
<1>3. CASE a \in marked /\ Return(c) /\ UNCHANGED <<marked, blind, faults>>
  <2>1. intake' = [intake EXCEPT ![c] = Idle] /\ Idle.at = "idle"
    BY <1>3 DEF Return, Idle
  <2>2. /\ \A b \in Anomalies : Creating(b)' \subseteq Creating(b)
        /\ \A b \in Anomalies : Passed(b)' \subseteq Passed(b)
    BY <2>1, OnceMove
  <2>. QED
    BY <1>2, <1>3, <2>2, OnceFrame
<1>4. ASSUME intake' = [intake EXCEPT ![c].at = "database"],
             marked \subseteq marked', marked' \subseteq marked \cup {a},
             \/ a \notin marked /\ a \in marked' /\ UNCHANGED blind
             \/ blind' = [blind EXCEPT ![a] = @ + 1]
      PROVE  OnceInv'
  <2>1. /\ \A b \in Anomalies : Of(b)' = Of(b)
        /\ \A d \in Consumers : d # c => intake'[d] = intake[d]
        /\ intake'[c].at = "database" /\ intake'[c].anomaly = a
    <3>1. \A b \in Anomalies : Of(b)' = Of(b)
      BY <1>2 DEF Of
    <3>2. intake[c] \in [at : {"redis", "database", "create"}, anomaly : Anomalies]
      BY <1>2, IntakeShape
    <3>. QED
      BY <1>1, <1>2, <1>4, <3>1, <3>2
  <2>2. \A b \in Anomalies : Creating(b)' \subseteq Creating(b)
    BY <2>1 DEF Creating
  <2>3. /\ \A b \in Anomalies : b # a => Passed(b)' \subseteq Passed(b)
        /\ Passed(a)' \subseteq Passed(a) \cup {c}
    BY <2>1 DEF Passed
  <2>4. RaceInv'
    BY <1>2, <2>1, <2>2 DEF OnceInv, RaceInv
  <2>5. ASSUME NEW b \in Anomalies, b # a, blind'[b] = 0
        PROVE  /\ b \notin marked' => Of(b)' = {} /\ Passed(b)' = {}
               /\ \A d, e \in Passed(b)' : d = e
               /\ Passed(b)' = {} \/ Of(b)' = {}
               /\ \A x, y \in Of(b)' : x = y
    <3>1. blind[b] = 0 /\ (b \in marked' <=> b \in marked)
      BY <1>2, <1>4, <2>5
    <3>. QED
      BY <2>1, <2>3, <2>5, <3>1 DEF OnceInv, BlindInv
  <2>6. ASSUME blind'[a] = 0
        PROVE  /\ a \in marked'
               /\ \A d, e \in Passed(a)' : d = e
               /\ Of(a)' = {}
    <3>1. blind[a] = 0 /\ a \notin marked /\ a \in marked'
      BY <1>2, <1>4, <2>6
    <3>2. Of(a) = {} /\ Passed(a) = {}
      BY <3>1 DEF OnceInv, BlindInv
    <3>. QED
      BY <2>1, <2>3, <3>1, <3>2
  <2>7. BlindInv'
    BY <2>5, <2>6 DEF BlindInv
  <2>. QED
    BY <2>4, <2>7 DEF OnceInv
<1>. QED
  BY <1>1, <1>3, <1>4 DEF CheckRedis, Step

\* The database has no incident: a consumer that others keep company is noted.
LEMMA OnceCheckDatabase ==
  ASSUME TypeInv, OnceInv, NEW c \in Consumers, CheckDatabase(c)
  PROVE  OnceInv'
<1>1. PICK a \in Anomalies : a = intake[c].anomaly
  BY IntakeShape DEF CheckDatabase, TypeInv, Types, Idle
<1>2. /\ intake \in [Consumers -> Intakes] /\ intake[c].at = "database"
      /\ UNCHANGED <<row, marked, blind>>
      /\ \A id \in Ids : Exists(id)' <=> Exists(id)
  BY DEF CheckDatabase, TypeInv, Types, table, Exists
<1>3. CASE intake' = [intake EXCEPT ![c] = Idle] /\ UNCHANGED raced
  <2>1. Idle.at = "idle"
    BY DEF Idle
  <2>2. /\ \A b \in Anomalies : Creating(b)' \subseteq Creating(b)
        /\ \A b \in Anomalies : Passed(b)' \subseteq Passed(b)
    BY <1>3, <2>1, OnceMove
  <2>. QED
    BY <1>2, <1>3, <2>2, OnceFrame
<1>4. ASSUME Of(a) = {}, intake' = [intake EXCEPT ![c].at = "create"],
             raced \subseteq raced',
             \A d \in Consumers \ {c} :
               intake[d].at = "create" /\ intake[d].anomaly = a => a \in raced'
      PROVE  OnceInv'
  <2>1. \A b \in Anomalies : Of(b)' = Of(b)
    BY <1>2 DEF Of
  <2>2. intake[c] \in [at : {"redis", "database", "create"}, anomaly : Anomalies]
    BY <1>2, IntakeShape
  <2>3. /\ \A d \in Consumers : d # c => intake'[d] = intake[d]
        /\ intake'[c].at = "create" /\ intake'[c].anomaly = a
    BY <1>1, <1>2, <1>4, <2>2
  <2>4. \A b \in Anomalies : Passed(b)' \subseteq Passed(b)
    BY <1>1, <1>2, <2>3 DEF Passed
  <2>5. /\ \A b \in Anomalies : b # a => Creating(b)' \subseteq Creating(b)
        /\ Creating(a)' \subseteq Creating(a) \cup {c}
    BY <2>3 DEF Creating
  <2>6. ASSUME NEW d \in Creating(a)', NEW e \in Creating(a)', d # e
        PROVE  a \in raced'
    <3>1. \A f \in Creating(a) : f # c => a \in raced'
      BY <1>4 DEF Creating
    <3>. QED
      BY <2>5, <2>6, <3>1
  <2>7. RaceInv'
    BY <1>4, <2>1, <2>5, <2>6 DEF OnceInv, RaceInv
  <2>8. BlindInv'
    BY <1>2, <2>1, <2>4 DEF OnceInv, BlindInv
  <2>. QED
    BY <2>7, <2>8 DEF OnceInv
<1>. QED
  BY <1>1, <1>3, <1>4 DEF CheckDatabase, Step, Return, Fail

\* A creation is the first of its anomaly, or Redis was blind or the consumers raced.
LEMMA OnceCreate ==
  ASSUME TypeInv, OnceInv, NEW c \in Consumers, Create(c)
  PROVE  OnceInv'
<1>1. /\ intake \in [Consumers -> Intakes] /\ row \in [Ids -> Rows \cup {Absent}]
      /\ intake[c].at = "create" /\ NewRow # Absent
      /\ UNCHANGED <<marked, blind, raced>>
  BY CreateEffect DEF TypeInv, Types
<1>2. CASE intake' = [intake EXCEPT ![c] = Idle] /\ UNCHANGED row
  <2>1. Idle.at = "idle"
    BY DEF Idle
  <2>2. /\ \A b \in Anomalies : Creating(b)' \subseteq Creating(b)
        /\ \A b \in Anomalies : Passed(b)' \subseteq Passed(b)
    BY <1>2, <2>1, OnceMove
  <2>3. \A id \in Ids : Exists(id)' <=> Exists(id)
    BY <1>2 DEF Exists
  <2>. QED
    BY <1>1, <2>2, <2>3, OnceFrame
<1>3. ASSUME NEW a \in Anomalies, NEW n \in Nat, intake[c].anomaly = a,
             <<a, n + 1>> \in Ids,
             row' = [row EXCEPT ![<<a, n + 1>>] = NewRow],
             intake' = [intake EXCEPT ![c] = [at |-> "enrich", anomaly |-> a,
                                              id |-> <<a, n + 1>>, seen |-> NewRow]]
      PROVE  OnceInv'
  <2>1. \A id \in Ids : Exists(id)' <=> Exists(id) \/ id = <<a, n + 1>>
    BY <1>1, <1>3 DEF Exists
  <2>2. /\ Of(a)' = Of(a) \cup {<<a, n + 1>>}
        /\ \A b \in Anomalies : b # a => Of(b)' = Of(b)
    BY <1>3, <2>1 DEF Of
  <2>3. (\A d \in Consumers : d # c => intake'[d] = intake[d]) /\ intake'[c].at = "enrich"
    BY <1>1, <1>3
  <2>4. \A b \in Anomalies : /\ Creating(b)' \subseteq Creating(b) \ {c}
                             /\ Passed(b)' \subseteq Passed(b) \ {c}
    BY <2>3 DEF Creating, Passed
  <2>5. c \in Creating(a) /\ c \in Passed(a)
    BY <1>1, <1>3 DEF Creating, Passed
  <2>6. /\ \A d, e \in Creating(a)' : d # e => a \in raced'
        /\ Of(a)' # {} /\ Creating(a)' # {} => a \in raced'
        /\ \A x, y \in Of(a)' : x # y => a \in raced'
    <3>1. \A d \in Creating(a) : d # c => a \in raced
      BY <2>5 DEF OnceInv, RaceInv
    <3>2. Of(a) # {} => a \in raced
      BY <2>5 DEF OnceInv, RaceInv
    <3>3. Creating(a)' # {} => a \in raced
      BY <2>4, <3>1
    <3>. QED
      BY <1>1, <2>2, <3>2, <3>3
  <2>7. RaceInv'
    BY <1>1, <2>2, <2>4, <2>6 DEF OnceInv, RaceInv
  <2>8. ASSUME blind'[a] = 0
        PROVE  a \in marked' /\ Passed(a)' = {} /\ \A x, y \in Of(a)' : x = y
    <3>1. a \in marked /\ Of(a) = {} /\ \A d \in Passed(a) : d = c
      BY <1>1, <2>5, <2>8 DEF OnceInv, BlindInv
    <3>. QED
      BY <1>1, <2>2, <2>4, <3>1
  <2>9. BlindInv'
    BY <1>1, <2>2, <2>4, <2>8 DEF OnceInv, BlindInv
  <2>. QED
    BY <2>7, <2>9 DEF OnceInv
<1>. QED
  BY <1>2, <1>3, CreateEffect

\* No step creates a second incident unless Redis was blind and consumers raced.
LEMMA NextOnceInv == TypeInv /\ OnceInv /\ [Next]_vars => OnceInv'
<1> SUFFICES ASSUME TypeInv, OnceInv, [Next]_vars PROVE OnceInv'
  OBVIOUS
<1>1. UNCHANGED row => \A id \in Ids : Exists(id)' <=> Exists(id)
  BY DEF Exists
<1>2. /\ UNCHANGED intake => /\ \A b \in Anomalies : Creating(b)' \subseteq Creating(b)
                             /\ \A b \in Anomalies : Passed(b)' \subseteq Passed(b)
      /\ Idle.at = "idle"
  BY DEF Creating, Passed, Idle
<1>3. ASSUME NEW s \in Sessions, NEW id \in Ids,
             BeginTransition(s, id) \/ BeginAssign(s, id) \/ BeginDirect(s, id)
      PROVE  OnceInv'
  <2>1. UNCHANGED <<row, raced, marked, blind, intake>>
    BY <1>3, BeginEffect DEF table, topic
  <2>. QED
    BY <1>1, <1>2, <2>1, OnceFrame
<1>4. ASSUME NEW s \in Sessions, Commit(s) PROVE OnceInv'
  <2>1. \A id \in Ids : Exists(id)' <=> Exists(id)
    BY <1>4, CommitEffect, SaveLemma DEF TypeInv
  <2>2. UNCHANGED <<raced, marked, blind, intake>>
    BY <1>4, CommitEffect DEF topic
  <2>. QED
    BY <1>2, <2>1, <2>2, OnceFrame
<1>5. ASSUME NEW c \in Consumers, Enrich(c) \/ PullRequest(c) PROVE OnceInv'
  <2>1. PICK x \in Intakes : /\ intake' = [intake EXCEPT ![c] = x]
                             /\ x = Idle \/ x.at \in {"pull request", "github"}
    BY <1>5, NoteEffect
  <2>2. x.at \notin {"database", "create"}
    BY <1>2, <2>1
  <2>3. /\ \A b \in Anomalies : Creating(b)' \subseteq Creating(b)
        /\ \A b \in Anomalies : Passed(b)' \subseteq Passed(b)
    BY <2>1, <2>2, OnceMove
  <2>4. \A id \in Ids : Exists(id)' <=> Exists(id)
    <3>1. intake[c].id \in Ids /\ Exists(intake[c].id)
      BY <1>5, NoteEffect
    <3>2. ASSUME NEW new \in Rows, Save(intake[c].id, intake[c].seen, new)
          PROVE  \A id \in Ids : Exists(id)' <=> Exists(id)
      BY <3>1, <3>2, SaveLemma DEF TypeInv
    <3>. QED
      BY <1>1, <1>5, <3>2, NoteEffect
  <2>5. UNCHANGED <<raced, marked, blind>>
    BY <1>5, NoteEffect
  <2>. QED
    BY <2>3, <2>4, <2>5, OnceFrame
<1>6. ASSUME NEW c \in Consumers, (\E a \in Anomalies : Deliver(c, a)) \/ Crash(c)
      PROVE  OnceInv'
  <2>1. PICK x : intake' = [intake EXCEPT ![c] = x] /\ x.at \notin {"database", "create"}
    BY <1>2, <1>6 DEF Deliver, Crash, Return
  <2>2. UNCHANGED <<row, raced, marked, blind>>
    BY <1>6 DEF Deliver, Crash, table
  <2>3. /\ \A b \in Anomalies : Creating(b)' \subseteq Creating(b)
        /\ \A b \in Anomalies : Passed(b)' \subseteq Passed(b)
    BY <2>1, OnceMove
  <2>. QED
    BY <1>1, <2>2, <2>3, OnceFrame
<1>7. ASSUME NEW a \in Anomalies, Redeliver(a) PROVE OnceInv'
  <2>1. UNCHANGED <<row, raced, marked, blind, intake>>
    BY <1>7 DEF Redeliver, table
  <2>. QED
    BY <1>1, <1>2, <2>1, OnceFrame
<1>8. ASSUME NEW a \in Anomalies, Expire(a) PROVE OnceInv'
  <2>1. /\ UNCHANGED <<row, raced, intake>> /\ marked' = marked \ {a}
        /\ blind' = [blind EXCEPT ![a] = @ + 1] /\ blind \in [Anomalies -> Nat]
    BY <1>8 DEF Expire, table, TypeInv, Types
  <2>2. \A b \in Anomalies : blind'[b] = 0 => blind[b] = 0 /\ (b \in marked => b \in marked')
    BY <2>1
  <2>. QED
    BY <1>1, <1>2, <2>1, <2>2, OnceFrame
<1>9. CASE UNCHANGED vars
  <2>1. UNCHANGED <<row, raced, marked, blind, intake>>
    BY <1>9 DEF vars, table, topic
  <2>. QED
    BY <1>1, <1>2, <2>1, OnceFrame
<1>. QED
  BY <1>3, <1>4, <1>5, <1>6, <1>7, <1>8, <1>9, OnceCheckRedis, OnceCheckDatabase,
     OnceCreate, StepCases

\* An anomaly has a second incident only if Redis could not tell of the first and two
\* consumers passed existsByAnomalyId before either had written
\* (AnomalyEventConsumer), for any number of consumers and redeliveries.
THEOREM OneIncidentOnly == Spec => []OneIncident
<1>1. Init => OnceInv
  <2> SUFFICES ASSUME Init PROVE OnceInv
    OBVIOUS
  <2>1. \A a \in Anomalies : Of(a) = {} /\ Creating(a) = {} /\ Passed(a) = {}
    BY DEF Init, Of, Exists, Creating, Passed, Idle
  <2>. QED
    BY <2>1 DEF OnceInv, RaceInv, BlindInv
<1>2. TypeInv /\ OnceInv => OneIncident
  <2> SUFFICES ASSUME TypeInv, OnceInv, NEW a \in Anomalies, Cardinality(Of(a)) > 1
               PROVE  blind[a] > 0 /\ a \in raced
    BY DEF OneIncident
  <2>1. \E x, y \in Of(a) : x # y
    <3> SUFFICES ASSUME \A x, y \in Of(a) : x = y PROVE FALSE
      OBVIOUS
    <3>1. CASE Of(a) = {}
      BY <3>1, FS_EmptySet
    <3>2. CASE Of(a) # {}
      <4>1. PICK x : Of(a) = {x}
        BY <3>2
      <4>2. Cardinality({x}) = 1
        BY FS_Singleton
      <4>. QED
        BY <4>1, <4>2
    <3>. QED
      BY <3>1, <3>2
  <2>2. a \in raced
    BY <2>1 DEF OnceInv, RaceInv
  <2>3. blind[a] # 0 /\ blind[a] \in Nat
    BY <2>1 DEF OnceInv, BlindInv, TypeInv, Types
  <2>. QED
    BY <2>2, <2>3
<1>. QED
  BY <1>1, <1>2, NextOnceInv, TypeInvHolds, PTL DEF Spec
=============================================================================
