------------------------- MODULE HealingLoopProofs -------------------------
(* Theorems about HealingLoop, for every value of its constants. *)
EXTENDS HealingLoop, FiniteSetTheorems, TLAPS

-----------------------------------------------------------------------------
(* Types. *)

\* The type invariant is inductive together with this: a transaction or a
\* record names an action whose row exists, and whoever handles a record has
\* not removed it yet.
ActionsExist ==
  /\ \A w \in Workers : tx[w].op \in Decisions \cup {"execute", "complete"}
                          => tx[w].action \in Created
  /\ \A k \in DOMAIN toOperator : toOperator[k] \in Created
  /\ \A t \in Topics : \A k \in DOMAIN results[t] : results[t][k] \in Created
  /\ \A t \in Topics : tx[t].op = "complete" => results[t] # <<>>
  /\ operator # Waiting => toOperator # <<>>

TypeInv == TypeOK /\ ActionsExist

\* No action row has the shape of a missing row.
LEMMA NoneIsNoRow == None \notin ActionRow
BY DEF None, ActionRow

\* The operation of a transaction tells what else it carries.
LEMMA TxShape ==
  ASSUME NEW t \in Tx
  PROVE  /\ t.op = "execute" =>
              t \in [op : {"execute"}, action : Actions, published : BOOLEAN]
         /\ t.op \in Decisions \cup {"complete"} =>
              t \in [op : Decisions \cup {"complete"}, action : Actions]
         /\ t.op = "trigger" => t \in [op : {"trigger"}, incident : Incidents]
BY DEF Tx, Idle, Decisions

\* What writing a status does: rows neither appear nor vanish, and only the
\* status changes.
LEMMA WriteStatusLemma ==
  ASSUME TypeOK, NEW a \in Created, NEW st \in Status, WriteStatus(a, st)
  PROVE  /\ actions' \in [Actions -> ActionRow \cup {None}]
         /\ Created' = Created
         /\ actions'[a].status = st
         /\ \A b \in Created : /\ actions'[b].incident = actions[b].incident
                              /\ actions'[b].risk = actions[b].risk
         /\ \A b \in Actions : b # a => actions'[b] = actions[b]
<1>1. a \in Actions /\ actions[a] \in ActionRow /\ actions[a] # None
  BY DEF TypeOK, Created
<1>2. actions' = [actions EXCEPT ![a].status = st]
  BY DEF WriteStatus
<1>3. actions'[a] = [actions[a] EXCEPT !.status = st]
  BY <1>1, <1>2 DEF TypeOK
<1>4. actions'[a] \in ActionRow
  BY <1>1, <1>3 DEF ActionRow
<1>5. \A b \in Actions : b # a => actions'[b] = actions[b]
  BY <1>1, <1>2 DEF TypeOK
<1>6. actions' \in [Actions -> ActionRow \cup {None}]
  BY <1>1, <1>2, <1>4, <1>5 DEF TypeOK
<1>7. Created' = Created
  BY <1>1, <1>4, <1>5, NoneIsNoRow DEF Created
<1>8. /\ actions'[a].incident = actions[a].incident
      /\ actions'[a].risk = actions[a].risk
      /\ actions'[a].status = st
  BY <1>1, <1>3 DEF ActionRow
<1>. QED
  BY <1>5, <1>6, <1>7, <1>8 DEF Created

\* Writing an incident's state keeps the table's type.
LEMMA WriteStateLemma ==
  ASSUME TypeOK, NEW a \in Created, NEW st \in IncidentState,
         WriteState(a, st)
  PROVE  /\ incidents' \in [Incidents -> IncidentState]
         /\ incidents'[actions[a].incident] = st
         /\ \A i \in Incidents : i # actions[a].incident =>
              incidents'[i] = incidents[i]
<1>1. actions[a].incident \in Incidents
  BY DEF TypeOK, Created, ActionRow
<1>. QED
  BY <1>1 DEF TypeOK, WriteState

\* Removing the oldest record of a queue leaves the others.
LEMMA TailLemma ==
  ASSUME NEW S, NEW s \in Seq(S), s # <<>>
  PROVE  /\ Tail(s) \in Seq(S)
         /\ \A k \in DOMAIN Tail(s) : k + 1 \in DOMAIN s /\ Tail(s)[k] = s[k + 1]
OBVIOUS

\* Appending a record keeps the others where they are.
LEMMA AppendLemma ==
  ASSUME NEW S, NEW s \in Seq(S), NEW e \in S
  PROVE  /\ Append(s, e) \in Seq(S)
         /\ Append(s, e) # <<>>
         /\ \A k \in DOMAIN Append(s, e) :
              \/ k \in DOMAIN s /\ Append(s, e)[k] = s[k]
              \/ k = Len(s) + 1 /\ Append(s, e)[k] = e
         /\ \A k \in DOMAIN s : k \in DOMAIN Append(s, e)
                                 /\ Append(s, e)[k] = s[k]
         /\ Len(s) + 1 \in DOMAIN Append(s, e) /\ Append(s, e)[Len(s) + 1] = e
OBVIOUS

\* Acknowledging a record keeps the queues of results well formed.
LEMMA AcknowledgeLemma ==
  ASSUME TypeInv, NEW t \in Topics, results[t] # <<>>,
         results' = results \/ Acknowledge(t)
  PROVE  /\ results' \in [Topics -> Seq(Actions)]
         /\ \A u \in Topics : \A k \in DOMAIN results'[u] :
              results'[u][k] \in Created
         /\ \A u \in Topics : u # t => results'[u] = results[u]
<1>1. CASE results' = results
  BY <1>1 DEF TypeInv, TypeOK, ActionsExist
<1>2. CASE Acknowledge(t)
  <2>1. results' = [results EXCEPT ![t] = Tail(results[t])]
    BY <1>2 DEF Acknowledge
  <2>2. /\ results \in [Topics -> Seq(Actions)]
        /\ \A k \in DOMAIN results[t] : results[t][k] \in Created
    BY DEF TypeInv, TypeOK, ActionsExist
  <2>3. /\ Tail(results[t]) \in Seq(Actions)
        /\ \A k \in DOMAIN Tail(results[t]) : Tail(results[t])[k] \in Created
    BY <2>2, TailLemma
  <2>4. /\ results'[t] = Tail(results[t])
        /\ \A u \in Topics : u # t => results'[u] = results[u]
    BY <2>1, <2>2
  <2>. QED
    BY <2>1, <2>2, <2>3, <2>4 DEF TypeInv, ActionsExist
<1>. QED
  BY <1>1, <1>2

\* The initial state is well typed.
LEMMA InitTypeInv == Init => TypeInv
BY ConstantsAssumption
   DEF Init, TypeInv, TypeOK, ActionsExist, Tx, OperatorState, Created, Topics,
       Workers, Idle, Waiting, IncidentState, Decisions, None

\* Every step keeps the types.
LEMMA NextTypeInv == TypeInv /\ [Next]_vars => TypeInv'
<1> SUFFICES ASSUME TypeInv, [Next]_vars PROVE TypeInv'
  OBVIOUS
<1> USE ConstantsAssumption DEF TypeInv, TypeOK, ActionsExist, Created, pipeline, history,
        Begins, Ends, Workers
<1>1. CASE SetHealingEnabled
  BY <1>1 DEF SetHealingEnabled
<1>2. ASSUME NEW w \in Threads, NEW i \in Incidents, TriggerBegin(w, i)
      PROVE  TypeInv'
  BY <1>2 DEF TriggerBegin, Tx, Decisions
<1>3. ASSUME NEW w \in Threads, NEW a \in Actions, NEW op \in Decisions,
             DecideBegin(w, op, a)
      PROVE  TypeInv'
  BY <1>3 DEF DecideBegin, Tx, Decisions
<1>4. ASSUME NEW w \in Threads, NEW a \in Actions, ExecuteBegin(w, a)
      PROVE  TypeInv'
  BY <1>4 DEF ExecuteBegin, Tx, Decisions
<1>5. ASSUME NEW w \in Threads, ExecutePublish(w)
      PROVE  TypeInv'
  <2>1. tx[w] \in [op : {"execute"}, action : Actions, published : BOOLEAN]
    <3>1. tx[w] \in Tx /\ tx[w].op = "execute"
      BY <1>5 DEF ExecutePublish
    <3>. QED
      BY <3>1, TxShape
  <2>2. tx[w].action \in Created /\ tx[w].action \in Actions
    BY <2>1
  <2>3. /\ tx' = [tx EXCEPT ![w].published = TRUE]
        /\ faults' \in 0..MaxFaults
        /\ sent' \in [Actions -> Nat]
        /\ UNCHANGED <<healingEnabled, incidents, actions, operator, results,
                       humanApproved, effects, crashes>>
        /\ \/ toOperator' = toOperator
           \/ toOperator' = Append(toOperator, tx[w].action)
    <3>1. /\ tx' = [tx EXCEPT ![w].published = TRUE]
          /\ UNCHANGED <<healingEnabled, incidents, actions, operator, results,
                         humanApproved, effects, crashes>>
      BY <1>5 DEF ExecutePublish
    <3>2. CASE /\ toOperator' = Append(toOperator, tx[w].action)
               /\ sent' = [sent EXCEPT ![tx[w].action] = @ + 1]
               /\ UNCHANGED faults
      <4>1. sent' \in [Actions -> Nat]
        BY <2>2, <3>2
      <4>. QED
        BY <3>1, <3>2, <4>1
    <3>3. CASE Fault("send_lost") /\ UNCHANGED <<toOperator, sent>>
      BY <3>1, <3>3 DEF Fault
    <3>. QED
      BY <1>5, <3>2, <3>3 DEF ExecutePublish
  <2>4. /\ tx'[w] \in [op : {"execute"}, action : Actions, published : BOOLEAN]
        /\ tx'[w].action = tx[w].action
        /\ tx'[w].op = "execute"
        /\ \A v \in Workers : v # w => tx'[v] = tx[v]
        /\ tx' \in [Workers -> Tx]
    BY <2>1, <2>3 DEF Tx
  <2>5. /\ toOperator' \in Seq(Actions)
        /\ \A k \in DOMAIN toOperator' : toOperator'[k] \in Created
        /\ operator # Waiting => toOperator' # <<>>
    <3>1. CASE toOperator' = toOperator
      BY <3>1
    <3>2. CASE toOperator' = Append(toOperator, tx[w].action)
      <4> DEFINE e == tx[w].action
      <4>1. /\ Append(toOperator, e) \in Seq(Actions)
            /\ Append(toOperator, e) # <<>>
            /\ \A k \in DOMAIN Append(toOperator, e) :
                 \/ k \in DOMAIN toOperator /\ Append(toOperator, e)[k] = toOperator[k]
                 \/ Append(toOperator, e)[k] = e
        BY <2>2, AppendLemma
      <4>. QED
        BY <2>2, <3>2, <4>1
    <3>. QED
      BY <2>3, <3>1, <3>2
  <2>6. \A t \in Topics : tx'[t].op = "complete" => tx[t].op = "complete"
    BY <2>4
  <2>7. TypeOK'
    BY <2>3, <2>4, <2>5
  <2>8. ActionsExist'
    BY <2>1, <2>2, <2>3, <2>4, <2>5, <2>6
  <2>. QED
    BY <2>7, <2>8
<1>6. ASSUME NEW w \in Threads, Commit(w)
      PROVE  TypeInv'
  <2>1. ASSUME NEW a \in Actions, NEW risk \in {"low", "high"},
               TriggerCommit(w, a, risk)
        PROVE  TypeInv'
    <3>1. tx[w] \in Tx /\ tx[w].incident \in Incidents
      BY <2>1 DEF TriggerCommit, Tx, Idle, Decisions
    <3> DEFINE row == [incident |-> tx[w].incident, risk |-> risk,
                       status |-> InitialStatus(risk)]
    <3>2. row \in ActionRow
      BY <3>1 DEF ActionRow, Status, InitialStatus
    <3>3. actions' = [actions EXCEPT ![a] = row]
      BY <2>1 DEF TriggerCommit
    <3>4. actions' \in [Actions -> ActionRow \cup {None}]
      BY <3>2, <3>3
    <3>5. Created \subseteq Created'
      BY <3>2, <3>3, NoneIsNoRow
    <3>. HIDE DEF row
    <3>6. TypeOK'
      BY <2>1, <3>4 DEF TriggerCommit, Tx
    <3>7. ActionsExist'
      BY <2>1, <3>5 DEF TriggerCommit, Tx, Idle, Decisions
    <3>. QED
      BY <3>6, <3>7
  <2>2. CASE ApproveCommit(w)
    <3>1. tx[w].action \in Created
      BY <2>2 DEF ApproveCommit, Decisions
    <3>2. WriteStatus(tx[w].action, "APPROVED")
      BY <2>2 DEF ApproveCommit
    <3>. QED
      BY <2>2, <3>1, <3>2, WriteStatusLemma
         DEF ApproveCommit, Tx, Idle, Decisions, Status
  <2>3. CASE RejectCommit(w)
    <3>1. tx[w].action \in Created
      BY <2>3 DEF RejectCommit, Decisions
    <3>2. WriteStatus(tx[w].action, "FAILED")
      BY <2>3 DEF RejectCommit
    <3>. QED
      BY <2>3, <3>1, <3>2, WriteStatusLemma
         DEF RejectCommit, Tx, Idle, Decisions, Status
  <2>4. CASE RollbackCommit(w)
    <3>1. tx[w].action \in Created
      BY <2>4 DEF RollbackCommit, Decisions
    <3>2. /\ WriteStatus(tx[w].action, "ROLLED_BACK")
          /\ WriteState(tx[w].action, "ROLLED_BACK")
      BY <2>4 DEF RollbackCommit
    <3>. QED
      BY <2>4, <3>1, <3>2, WriteStatusLemma, WriteStateLemma
         DEF RollbackCommit, Tx, Idle, Decisions, Status, IncidentState
  <2>5. CASE ExecuteCommit(w)
    <3>1. tx[w].action \in Created
      BY <2>5 DEF ExecuteCommit, Decisions
    <3>2. WriteStatus(tx[w].action, "EXECUTING")
      BY <2>5 DEF ExecuteCommit
    <3>. QED
      BY <2>5, <3>1, <3>2, WriteStatusLemma
         DEF ExecuteCommit, Tx, Idle, Decisions, Status
  <2>. QED
    BY <1>6, <2>1, <2>2, <2>3, <2>4, <2>5 DEF Commit
<1>7. ASSUME NEW w \in Threads, Abort(w)
      PROVE  TypeInv'
  BY <1>7 DEF Abort, Fault, Tx, Decisions, Idle
<1>8. ASSUME NEW t \in Topics, CompleteBegin(t)
      PROVE  TypeInv'
  <2>1. /\ results[t] \in Seq(Actions)
        /\ Head(results[t]) = results[t][1]
        /\ 1 \in DOMAIN results[t]
    BY <1>8 DEF CompleteBegin
  <2>2. Head(results[t]) \in Created
    BY <2>1
  <2>. QED
    BY <1>8, <2>2 DEF CompleteBegin, Tx, Decisions
<1>9. ASSUME NEW t \in Topics, CompleteCommit(t)
      PROVE  TypeInv'
  <2>1. tx[t].action \in Created
    BY <1>9 DEF CompleteCommit, Decisions
  <2>2. PICK st \in Status, ist \in IncidentState :
          WriteStatus(tx[t].action, st) /\ WriteState(tx[t].action, ist)
    BY <1>9 DEF CompleteCommit, Status, IncidentState
  <2>3. /\ actions' \in [Actions -> ActionRow \cup {None}]
        /\ Created' = Created
        /\ incidents' \in [Incidents -> IncidentState]
    BY <2>1, <2>2, WriteStatusLemma, WriteStateLemma
  <2>4. (results' = results \/ Acknowledge(t)) /\ results[t] # <<>>
    BY <1>9 DEF CompleteCommit
  <2>5. /\ results' \in [Topics -> Seq(Actions)]
        /\ \A u \in Topics : \A k \in DOMAIN results'[u] :
             results'[u][k] \in Created
        /\ \A u \in Topics : u # t => results'[u] = results[u]
    BY <2>4, AcknowledgeLemma
  <2>6. /\ faults' \in 0..MaxFaults
        /\ tx' = [tx EXCEPT ![t] = Idle]
        /\ UNCHANGED <<healingEnabled, toOperator, operator, history>>
    BY <1>9 DEF CompleteCommit, Fault
  <2>7. TypeOK'
    BY <2>3, <2>5, <2>6 DEF Tx
  <2>8. ActionsExist'
    BY <2>3, <2>5, <2>6 DEF Idle, Decisions
  <2>. QED
    BY <2>7, <2>8
<1>10. ASSUME NEW t \in Topics, CompleteFails(t)
       PROVE  TypeInv'
  <2>1. Acknowledge(t) /\ results[t] # <<>>
    BY <1>10 DEF CompleteFails
  <2>2. /\ results' \in [Topics -> Seq(Actions)]
        /\ \A u \in Topics : \A k \in DOMAIN results'[u] :
             results'[u][k] \in Created
        /\ \A u \in Topics : u # t => results'[u] = results[u]
    BY <2>1, AcknowledgeLemma
  <2>. QED
    BY <1>10, <2>2 DEF CompleteFails, Fault, Tx, Idle, Decisions
<1>11. CASE Operate
  <2>1. ASSUME NEW ok \in BOOLEAN, OperatorExecute(ok)
        PROVE  TypeInv'
    <3>1. Head(toOperator) \in Actions
      BY <2>1 DEF OperatorExecute
    <3>2. effects' \in [Actions -> Nat]
      BY <2>1, <3>1 DEF OperatorExecute
    <3>. QED
      BY <2>1, <3>2 DEF OperatorExecute, OperatorState, Waiting
  <2>2. CASE OperatorReport
    <3>1. operator.phase = "executed" /\ operator # Waiting
      BY <2>2 DEF OperatorReport, Waiting
    <3>2. operator.ok \in BOOLEAN
      BY <3>1 DEF OperatorState, Waiting
    <3>3. operator' \in OperatorState
      BY <2>2, <3>1 DEF OperatorReport, OperatorState, Waiting
    <3>4. /\ Head(toOperator) \in Created
          /\ toOperator # <<>>
      BY <3>1
    <3>5. /\ results' \in [Topics -> Seq(Actions)]
          /\ \A u \in Topics : \A k \in DOMAIN results'[u] :
               results'[u][k] \in Created
          /\ \A u \in Topics : results[u] # <<>> => results'[u] # <<>>
      <4>1. CASE results' = results
        BY <4>1
      <4>2. CASE results' = [results EXCEPT ![ResultTopic(operator.ok)] =
                               Append(@, Head(toOperator))]
        <5>1. ResultTopic(operator.ok) \in Topics
          BY DEF ResultTopic, Topics
        <5> DEFINE t == ResultTopic(operator.ok)
        <5>2. results[t] \in Seq(Actions) /\ Head(toOperator) \in Actions
          BY <3>4, <5>1
        <5>3. /\ results'[t] = Append(results[t], Head(toOperator))
              /\ \A u \in Topics : u # t => results'[u] = results[u]
              /\ results' \in [Topics -> Seq(Actions)]
          BY <4>2, <5>1, <5>2
        <5>4. /\ results'[t] # <<>>
              /\ \A k \in DOMAIN results'[t] :
                   \/ k \in DOMAIN results[t] /\ results'[t][k] = results[t][k]
                   \/ results'[t][k] = Head(toOperator)
          <6>1. /\ Append(results[t], Head(toOperator)) # <<>>
                /\ \A k \in DOMAIN Append(results[t], Head(toOperator)) :
                     \/ /\ k \in DOMAIN results[t]
                        /\ Append(results[t], Head(toOperator))[k] = results[t][k]
                     \/ Append(results[t], Head(toOperator))[k] = Head(toOperator)
            BY <5>2, AppendLemma
          <6>. QED
            BY <5>3, <6>1
        <5>5. \A k \in DOMAIN results'[t] : results'[t][k] \in Created
          BY <3>4, <5>1, <5>4
        <5>. HIDE DEF t
        <5>. QED
          BY <5>3, <5>4, <5>5
      <4>. QED
        BY <2>2, <4>1, <4>2 DEF OperatorReport
    <3>6. faults' \in 0..MaxFaults
      BY <2>2 DEF OperatorReport, Fault
    <3>. QED
      BY <2>2, <3>3, <3>4, <3>5, <3>6 DEF OperatorReport
  <2>3. CASE OperatorCommit
    <3>1. toOperator # <<>>
      BY <2>3 DEF OperatorCommit, Waiting
    <3>2. /\ Tail(toOperator) \in Seq(Actions)
          /\ \A k \in DOMAIN Tail(toOperator) : Tail(toOperator)[k] \in Created
      BY <3>1
    <3>. QED
      BY <2>3, <3>2 DEF OperatorCommit, OperatorState
  <2>. QED
    BY <1>11, <2>1, <2>2, <2>3 DEF Operate
<1>12. CASE OperatorCrash
  BY <1>12 DEF OperatorCrash, Fault, OperatorState, Waiting
<1>13. CASE OperatorFetchError
  BY <1>13 DEF OperatorFetchError, Fault
<1>14. CASE UNCHANGED vars
  BY <1>14 DEF vars
<1>. HIDE DEF TypeInv, TypeOK, ActionsExist, Created, Begins, Ends, pipeline,
        history, Workers
<1>. QED
  BY <1>1, <1>2, <1>3, <1>4, <1>5, <1>6, <1>7, <1>8, <1>9, <1>10, <1>11,
     <1>12, <1>13, <1>14 DEF Next, Request, Listen

\* Every variable keeps its type, and no transaction or record names an action
\* that was not inserted.
THEOREM TypeCorrect == Spec => []TypeInv
BY InitTypeInv, NextTypeInv, PTL DEF Spec

\* Every variable of the healing loop always has its type.
COROLLARY TypesHold == Spec => []TypeOK
<1>1. TypeInv => TypeOK
  BY DEF TypeInv
<1>. QED
  BY <1>1, TypeCorrect, PTL
-----------------------------------------------------------------------------
(* The limit of attempts. *)

Triggering(i) == {w \in Threads : tx[w].op = "trigger" /\ tx[w].incident = i}

\* What the count of a new trigger cannot see is under way in another thread:
\* rows and triggers under way stay within the bound together.
AttemptInv ==
  \A i \in Incidents :
    Cardinality(ActionsOf(i)) + Cardinality(Triggering(i))
      <= MaxAttempts - 1 + Cardinality(Threads)

\* The sets that are counted are finite.
LEMMA CountedSetsFinite ==
  ASSUME NEW i
  PROVE  /\ IsFiniteSet(ActionsOf(i)) /\ Cardinality(ActionsOf(i)) \in Nat
         /\ IsFiniteSet(Triggering(i))
         /\ Cardinality(Triggering(i)) \in 0..Cardinality(Threads)
         /\ Cardinality(Threads) \in Nat
<1>1. ActionsOf(i) \subseteq Actions /\ Triggering(i) \subseteq Threads
  BY DEF ActionsOf, Created, Triggering
<1>2. IsFiniteSet(Actions) /\ IsFiniteSet(Threads)
  BY ConstantsAssumption
<1>3. /\ IsFiniteSet(ActionsOf(i)) /\ IsFiniteSet(Triggering(i))
      /\ Cardinality(Triggering(i)) <= Cardinality(Threads)
  BY <1>1, <1>2, FS_Subset
<1>. QED
  BY <1>2, <1>3, FS_CardinalityType

\* A step that adds neither a row nor a trigger keeps the bound.
LEMMA AttemptInvKept ==
  ASSUME AttemptInv,
         \A i \in Incidents : ActionsOf(i)' = ActionsOf(i),
         \A i \in Incidents : Triggering(i)' \subseteq Triggering(i)
  PROVE  AttemptInv'
<1> SUFFICES ASSUME NEW i \in Incidents
             PROVE  Cardinality(ActionsOf(i)') + Cardinality(Triggering(i)')
                      <= MaxAttempts - 1 + Cardinality(Threads)
  BY DEF AttemptInv
<1>1. Cardinality(Triggering(i)') <= Cardinality(Triggering(i))
  BY CountedSetsFinite, FS_Subset
<1>2. Cardinality(Triggering(i)') \in Nat
  BY <1>1, CountedSetsFinite, FS_Subset, FS_CardinalityType
<1>. QED
  BY <1>1, <1>2, CountedSetsFinite, ConstantsAssumption DEF AttemptInv

\* Every step keeps the attempts within their bound.
LEMMA NextAttemptInv == TypeInv /\ AttemptInv /\ [Next]_vars => AttemptInv'
<1> SUFFICES ASSUME TypeInv, AttemptInv, [Next]_vars PROVE AttemptInv'
  OBVIOUS
<1>1. ASSUME NEW w \in Threads, NEW i \in Incidents, TriggerBegin(w, i)
      PROVE  AttemptInv'
  <2> SUFFICES ASSUME NEW j \in Incidents
               PROVE  Cardinality(ActionsOf(j)') + Cardinality(Triggering(j)')
                        <= MaxAttempts - 1 + Cardinality(Threads)
    BY DEF AttemptInv
  <2>1. ActionsOf(j)' = ActionsOf(j)
    BY <1>1 DEF TriggerBegin, ActionsOf, Created
  <2>2. CASE j = i
    <3>1. Cardinality(ActionsOf(i)) <= MaxAttempts - 1
      BY <1>1, CountedSetsFinite, ConstantsAssumption DEF TriggerBegin
    <3>2. Triggering(j)' \subseteq Threads
      BY DEF Triggering
    <3>3. /\ Cardinality(Triggering(j)') <= Cardinality(Threads)
          /\ Cardinality(Triggering(j)') \in Nat
      BY <3>2, ConstantsAssumption, FS_Subset, FS_CardinalityType
    <3>. QED
      BY <2>1, <2>2, <3>1, <3>3, CountedSetsFinite, ConstantsAssumption
  <2>3. CASE j # i
    <3>1. Triggering(j)' = Triggering(j)
      BY <1>1, <2>3 DEF TriggerBegin, Begins, Triggering, Idle, TypeInv, TypeOK,
                        Workers
    <3>. QED
      BY <2>1, <3>1 DEF AttemptInv
  <2>. QED
    BY <2>2, <2>3
<1>2. ASSUME NEW w \in Threads, NEW a \in Actions, NEW risk \in {"low", "high"},
             TriggerCommit(w, a, risk)
      PROVE  AttemptInv'
  <2> SUFFICES ASSUME NEW j \in Incidents
               PROVE  Cardinality(ActionsOf(j)') + Cardinality(Triggering(j)')
                        <= MaxAttempts - 1 + Cardinality(Threads)
    BY DEF AttemptInv
  <2> DEFINE i == tx[w].incident
             row == [incident |-> i, risk |-> risk,
                     status |-> InitialStatus(risk)]
  <2>1. actions' = [actions EXCEPT ![a] = row] /\ a \notin Created
    BY <1>2 DEF TriggerCommit
  <2>2. row # None /\ row.incident = i
    BY DEF None
  <2>3. ActionsOf(j)' = IF j = i THEN ActionsOf(j) \cup {a} ELSE ActionsOf(j)
    BY <2>1, <2>2 DEF ActionsOf, Created, TypeInv, TypeOK
  <2>4. a \notin ActionsOf(j)
    BY <2>1 DEF ActionsOf
  <2>5. /\ tx' = [tx EXCEPT ![w] = Idle] /\ w \in Workers /\ tx[w].op = "trigger"
    BY <1>2 DEF TriggerCommit, Ends, Workers
  <2>. HIDE DEF row
  <2>6. Triggering(j)' = IF j = i THEN Triggering(j) \ {w} ELSE Triggering(j)
    BY <2>5 DEF Triggering, Idle, TypeInv, TypeOK, Workers
  <2>7. j = i => w \in Triggering(j)
    BY <2>5 DEF Triggering
  <2>8. CASE j = i
    <3>1. Cardinality(ActionsOf(j) \cup {a}) = Cardinality(ActionsOf(j)) + 1
      BY <2>4, CountedSetsFinite, FS_AddElement
    <3>2. Cardinality(Triggering(j) \ {w}) = Cardinality(Triggering(j)) - 1
      <4>1. w \in Triggering(j) /\ IsFiniteSet(Triggering(j))
        BY <2>7, <2>8, CountedSetsFinite
      <4>. HIDE DEF i
      <4>. QED
        BY <4>1, FS_RemoveElement
    <3>3. /\ ActionsOf(j)' = ActionsOf(j) \cup {a}
          /\ Triggering(j)' = Triggering(j) \ {w}
      BY <2>3, <2>6, <2>8
    <3>4. /\ Cardinality(ActionsOf(j)') = Cardinality(ActionsOf(j)) + 1
          /\ Cardinality(Triggering(j)') = Cardinality(Triggering(j)) - 1
      BY <3>1, <3>2, <3>3
    <3>5. Cardinality(ActionsOf(j)) + Cardinality(Triggering(j))
            <= MaxAttempts - 1 + Cardinality(Threads)
      BY DEF AttemptInv
    <3>. QED
      BY <3>4, <3>5, CountedSetsFinite, ConstantsAssumption
  <2>9. CASE j # i
    BY <2>3, <2>6, <2>9 DEF AttemptInv
  <2>. QED
    BY <2>8, <2>9
<1>3. ASSUME NEW w \in Workers, NEW a \in Created, NEW st \in Status,
             tx[w].op # "trigger", WriteStatus(a, st), Ends(w)
      PROVE  AttemptInv'
  <2>1. \A i \in Incidents : ActionsOf(i)' = ActionsOf(i)
    BY <1>3, WriteStatusLemma DEF ActionsOf, TypeInv
  <2>2. \A i \in Incidents : Triggering(i)' \subseteq Triggering(i)
    BY <1>3 DEF Ends, Triggering, Idle, TypeInv, TypeOK, Workers
  <2>. QED
    BY <2>1, <2>2, AttemptInvKept
<1>4. ASSUME UNCHANGED actions,
             \/ UNCHANGED tx
             \/ \E w \in Workers : /\ tx' = [tx EXCEPT ![w] = tx'[w]]
                                   /\ tx'[w].op # "trigger"
      PROVE  AttemptInv'
  <2>1. \A i \in Incidents : ActionsOf(i)' = ActionsOf(i)
    BY <1>4 DEF ActionsOf, Created
  <2>2. \A i \in Incidents : Triggering(i)' \subseteq Triggering(i)
    BY <1>4 DEF Triggering, TypeInv, TypeOK, Workers
  <2>. QED
    BY <2>1, <2>2, AttemptInvKept
<1>5. ASSUME NEW w \in Threads, Commit(w)
      PROVE  AttemptInv'
  <2> DEFINE a == tx[w].action
  <2>1. CASE \E b \in Actions, risk \in {"low", "high"} : TriggerCommit(w, b, risk)
    BY <2>1, <1>2
  <2>2. CASE ApproveCommit(w) \/ RejectCommit(w) \/ RollbackCommit(w)
             \/ ExecuteCommit(w)
    <3>1. \E st \in Status : WriteStatus(a, st)
      BY <2>2 DEF ApproveCommit, RejectCommit, RollbackCommit, ExecuteCommit, Status
    <3>2. Ends(w) /\ tx[w].op \in Decisions \cup {"execute", "complete"}
      BY <2>2 DEF ApproveCommit, RejectCommit, RollbackCommit, ExecuteCommit,
                  Decisions
    <3>3. a \in Created /\ w \in Workers
      BY <3>2 DEF TypeInv, ActionsExist, Workers
    <3>4. tx[w].op # "trigger"
      BY <3>2 DEF Decisions
    <3>. QED
      BY <3>1, <3>2, <3>3, <3>4, <1>3
  <2>. QED
    BY <1>5, <2>1, <2>2 DEF Commit
<1>6. ASSUME NEW t \in Topics, CompleteCommit(t)
      PROVE  AttemptInv'
  <2>1. \E st \in Status : WriteStatus(tx[t].action, st)
    BY <1>6 DEF CompleteCommit, Status
  <2>2. Ends(t) /\ tx[t].op = "complete" /\ t \in Workers
    BY <1>6 DEF CompleteCommit, Workers
  <2>3. tx[t].action \in Created
    BY <2>2 DEF TypeInv, ActionsExist
  <2>. QED
    BY <2>1, <2>2, <2>3, <1>3
<1>7. ASSUME NEW w \in Threads,
             \/ Abort(w)
             \/ ExecutePublish(w)
             \/ \E a \in Actions : ExecuteBegin(w, a)
             \/ \E a \in Actions, op \in Decisions : DecideBegin(w, op, a)
      PROVE  AttemptInv'
  <2>1. w \in Workers /\ tx \in [Workers -> Tx] /\ UNCHANGED actions
    BY <1>7 DEF Workers, TypeInv, TypeOK, Abort, ExecutePublish, ExecuteBegin,
                DecideBegin
  <2>2. CASE Abort(w)
    BY <2>1, <2>2, <1>4 DEF Abort, Ends, Idle
  <2>3. CASE ExecutePublish(w)
    <3>1. tx[w] \in [op : {"execute"}, action : Actions, published : BOOLEAN]
      BY <2>1, <2>3, TxShape DEF ExecutePublish
    <3>2. tx'[w].op = "execute" /\ tx' = [tx EXCEPT ![w] = tx'[w]]
      BY <2>1, <2>3, <3>1 DEF ExecutePublish
    <3>. QED
      BY <2>1, <3>2, <1>4
  <2>4. CASE \E a \in Actions : ExecuteBegin(w, a)
    <3>1. PICK a \in Actions : ExecuteBegin(w, a)
      BY <2>4
    <3>2. tx' = [tx EXCEPT ![w] = [op |-> "execute", action |-> a,
                                   published |-> FALSE]]
      BY <3>1 DEF ExecuteBegin, Begins
    <3>3. tx'[w].op = "execute" /\ tx' = [tx EXCEPT ![w] = tx'[w]]
      BY <2>1, <3>2
    <3>. QED
      BY <2>1, <3>3, <1>4
  <2>5. CASE \E a \in Actions, op \in Decisions : DecideBegin(w, op, a)
    <3>1. PICK a \in Actions, op \in Decisions : DecideBegin(w, op, a)
      BY <2>5
    <3>2. tx' = [tx EXCEPT ![w] = [op |-> op, action |-> a]]
      BY <3>1 DEF DecideBegin, Begins
    <3>3. tx'[w].op # "trigger" /\ tx' = [tx EXCEPT ![w] = tx'[w]]
      BY <2>1, <3>2 DEF Decisions
    <3>. QED
      BY <2>1, <3>3, <1>4
  <2>. QED
    BY <1>7, <2>2, <2>3, <2>4, <2>5
<1>8. ASSUME NEW t \in Topics, CompleteBegin(t) \/ CompleteFails(t)
      PROVE  AttemptInv'
  <2>1. t \in Workers /\ tx \in [Workers -> Tx] /\ UNCHANGED actions
    BY <1>8 DEF Workers, TypeInv, TypeOK, CompleteBegin, CompleteFails
  <2>. QED
    BY <1>8, <2>1, <1>4 DEF CompleteBegin, CompleteFails, Begins, Ends, Idle
<1>9. CASE SetHealingEnabled \/ Operate \/ OperatorCrash \/ OperatorFetchError
           \/ UNCHANGED vars
  BY <1>9, <1>4 DEF SetHealingEnabled, Operate, OperatorCrash,
       OperatorFetchError, OperatorExecute, OperatorReport, OperatorCommit, vars
<1>. QED
  BY <1>1, <1>5, <1>6, <1>7, <1>8, <1>9 DEF Next, Request, Listen

\* However many requests trigger at once, an incident never gets more than
\* MaxAttempts - 1 actions plus one for each request thread.
THEOREM AttemptsAreBounded == Spec => []AttemptsBounded
<1>1. Init => AttemptInv
  <2> SUFFICES ASSUME Init, NEW i \in Incidents
               PROVE  Cardinality(ActionsOf(i)) + Cardinality(Triggering(i))
                        <= MaxAttempts - 1 + Cardinality(Threads)
    BY DEF AttemptInv
  <2>1. ActionsOf(i) = {} /\ Triggering(i) = {}
    BY DEF Init, ActionsOf, Created, Triggering, Idle, Workers
  <2>. QED
    BY <2>1, FS_EmptySet, CountedSetsFinite, ConstantsAssumption
<1>2. AttemptInv => AttemptsBounded
  BY CountedSetsFinite, ConstantsAssumption DEF AttemptInv, AttemptsBounded
<1>. QED
  BY <1>1, <1>2, TypeCorrect, NextAttemptInv, PTL DEF Spec

-----------------------------------------------------------------------------
(* What every step keeps. *)

\* Rows are never removed, an action keeps its incident and its risk, approvals
\* are not forgotten and what changed the cluster stays so recorded.
Persists ==
  /\ Created \subseteq Created'
  /\ \A a \in Created : /\ actions'[a].incident = actions[a].incident
                        /\ actions'[a].risk = actions[a].risk
  /\ humanApproved \subseteq humanApproved'
  /\ \A a \in Actions : effects[a] > 0 => effects'[a] > 0

\* Writing a status keeps the rows.
LEMMA WriteStatusPersists ==
  ASSUME TypeInv, NEW a \in Created, NEW st \in Status, WriteStatus(a, st),
         humanApproved \subseteq humanApproved', UNCHANGED effects
  PROVE  Persists
BY WriteStatusLemma DEF Persists, TypeInv, TypeOK

\* No step loses an action, an approval or an effect.
LEMMA NextPersists == TypeInv /\ [Next]_vars => Persists
<1> SUFFICES ASSUME TypeInv, [Next]_vars PROVE Persists
  OBVIOUS
<1>1. ASSUME UNCHANGED <<actions, humanApproved, effects>>
      PROVE  Persists
  BY <1>1 DEF Persists, Created, TypeInv, TypeOK
<1>2. ASSUME NEW w \in Threads, NEW a \in Actions, NEW risk \in {"low", "high"},
             TriggerCommit(w, a, risk)
      PROVE  Persists
  <2>1. /\ actions' = [actions EXCEPT ![a] =
                         [incident |-> tx[w].incident, risk |-> risk,
                          status |-> InitialStatus(risk)]]
        /\ a \notin Created
    BY <1>2 DEF TriggerCommit
  <2>2. [incident |-> tx[w].incident, risk |-> risk,
         status |-> InitialStatus(risk)] # None
    BY DEF None
  <2>. QED
    BY <1>2, <2>1, <2>2 DEF TriggerCommit, Persists, Created, TypeInv, TypeOK,
                            history
<1>3. ASSUME NEW w \in Threads, Commit(w)
      PROVE  Persists
  <2>1. CASE ApproveCommit(w) \/ RejectCommit(w) \/ RollbackCommit(w)
             \/ ExecuteCommit(w)
    <3>1. tx[w].op \in Decisions \cup {"execute"} /\ w \in Workers
      BY <2>1 DEF ApproveCommit, RejectCommit, RollbackCommit, ExecuteCommit,
                  Decisions, Workers
    <3>2. tx[w].action \in Created
      BY <3>1 DEF TypeInv, ActionsExist
    <3>3. PICK st \in Status : WriteStatus(tx[w].action, st)
      BY <2>1 DEF ApproveCommit, RejectCommit, RollbackCommit, ExecuteCommit,
                  Status
    <3>4. humanApproved \subseteq humanApproved' /\ UNCHANGED effects
      BY <2>1 DEF ApproveCommit, RejectCommit, RollbackCommit, ExecuteCommit,
                  history
    <3>. QED
      BY <3>2, <3>3, <3>4, WriteStatusPersists
  <2>. QED
    BY <1>2, <1>3, <2>1 DEF Commit
<1>4. ASSUME NEW t \in Topics, CompleteCommit(t)
      PROVE  Persists
  <2>1. tx[t].op = "complete" /\ t \in Workers
    BY <1>4 DEF CompleteCommit, Workers
  <2>2. tx[t].action \in Created
    BY <2>1 DEF TypeInv, ActionsExist
  <2>3. PICK st \in Status : WriteStatus(tx[t].action, st)
    BY <1>4 DEF CompleteCommit, Status
  <2>. QED
    BY <1>4, <2>2, <2>3, WriteStatusPersists DEF CompleteCommit, history
<1>5. ASSUME NEW ok \in BOOLEAN, OperatorExecute(ok)
      PROVE  Persists
  BY <1>5 DEF OperatorExecute, Persists, Created, TypeInv, TypeOK
<1>6. CASE \/ SetHealingEnabled \/ OperatorReport \/ OperatorCommit
           \/ OperatorCrash \/ OperatorFetchError \/ UNCHANGED vars
           \/ \E t \in Topics : CompleteBegin(t) \/ CompleteFails(t)
           \/ \E w \in Threads : Request(w) \/ ExecutePublish(w) \/ Abort(w)
  BY <1>6, <1>1 DEF SetHealingEnabled, OperatorReport, OperatorCommit,
       OperatorCrash, OperatorFetchError, vars, CompleteBegin, CompleteFails,
       Request, TriggerBegin, DecideBegin, ExecuteBegin, ExecutePublish, Abort,
       history
<1>. QED
  BY <1>3, <1>4, <1>5, <1>6 DEF Next, Listen, Operate
-----------------------------------------------------------------------------
(* An incident moves only with one of its actions. *)

IncidentStep ==
  \A i \in Incidents :
    incidents'[i] # incidents[i] =>
      \E a \in ActionsOf(i) :
        <<incidents'[i], actions'[a].status>> \in
          {<<"RESOLVED", "COMPLETED">>, <<"ESCALATED", "FAILED">>,
           <<"ROLLED_BACK", "ROLLED_BACK">>}

\* Two rows written together: the incident's and its action's.
LEMMA WriteBothLemma ==
  ASSUME TypeInv, NEW a \in Created, NEW st \in Status,
         NEW state \in IncidentState,
         WriteStatus(a, st), WriteState(a, state),
         <<state, st>> \in
          {<<"RESOLVED", "COMPLETED">>, <<"ESCALATED", "FAILED">>,
           <<"ROLLED_BACK", "ROLLED_BACK">>}
  PROVE  IncidentStep
<1> SUFFICES ASSUME NEW i \in Incidents, incidents'[i] # incidents[i]
             PROVE  /\ a \in ActionsOf(i)
                    /\ incidents'[i] = state /\ actions'[a].status = st
  BY DEF IncidentStep
<1>1. i = actions[a].incident /\ incidents'[i] = state
  BY WriteStateLemma DEF TypeInv
<1>2. actions'[a].status = st
  BY WriteStatusLemma DEF TypeInv
<1>. QED
  BY <1>1, <1>2 DEF ActionsOf

\* Every change of an incident by the loop comes with the matching outcome of
\* one of its actions.
THEOREM IncidentsFollow == Spec => IncidentFollowsAction
<1>1. TypeInv /\ [Next]_vars => [IncidentStep]_vars
  <2> SUFFICES ASSUME TypeInv, [Next]_vars PROVE IncidentStep
    OBVIOUS
  <2>1. ASSUME UNCHANGED incidents
        PROVE  IncidentStep
    BY <2>1 DEF IncidentStep
  <2>2. ASSUME NEW w \in Threads, RollbackCommit(w)
        PROVE  IncidentStep
    <3>1. tx[w].op = "rollback" /\ w \in Workers
      BY <2>2 DEF RollbackCommit, Workers
    <3>2. tx[w].action \in Created
      BY <3>1 DEF TypeInv, ActionsExist, Decisions
    <3>3. /\ WriteStatus(tx[w].action, "ROLLED_BACK")
          /\ WriteState(tx[w].action, "ROLLED_BACK")
      BY <2>2 DEF RollbackCommit
    <3>. QED
      BY <3>2, <3>3, WriteBothLemma DEF Status, IncidentState
  <2>3. ASSUME NEW t \in Topics, CompleteCommit(t)
        PROVE  IncidentStep
    <3>1. tx[t].op = "complete" /\ t \in Workers
      BY <2>3 DEF CompleteCommit, Workers
    <3>2. tx[t].action \in Created
      BY <3>1 DEF TypeInv, ActionsExist
    <3>3. \/ /\ WriteStatus(tx[t].action, "COMPLETED")
             /\ WriteState(tx[t].action, "RESOLVED")
          \/ /\ WriteStatus(tx[t].action, "FAILED")
             /\ WriteState(tx[t].action, "ESCALATED")
      BY <2>3 DEF CompleteCommit
    <3>. QED
      BY <3>2, <3>3, WriteBothLemma DEF Status, IncidentState
  <2>4. ASSUME NEW w \in Threads, Commit(w), ~RollbackCommit(w)
        PROVE  IncidentStep
    BY <2>4, <2>1 DEF Commit, TriggerCommit, ApproveCommit, RejectCommit,
                      ExecuteCommit
  <2>5. CASE \/ SetHealingEnabled \/ Operate
             \/ OperatorCrash \/ OperatorFetchError \/ UNCHANGED vars
             \/ \E t \in Topics : CompleteBegin(t) \/ CompleteFails(t)
             \/ \E w \in Threads : Request(w) \/ ExecutePublish(w) \/ Abort(w)
    BY <2>5, <2>1 DEF SetHealingEnabled, Operate, OperatorExecute,
         OperatorReport, OperatorCommit, OperatorCrash, OperatorFetchError,
         vars, CompleteBegin, CompleteFails, Request, TriggerBegin,
         DecideBegin, ExecuteBegin, ExecutePublish, Abort
  <2>. QED
    BY <2>2, <2>3, <2>4, <2>5 DEF Next, Listen
<1>. QED
  BY <1>1, TypeCorrect, PTL DEF Spec, IncidentFollowsAction, IncidentStep
-----------------------------------------------------------------------------
(* High-risk actions wait for a person. *)

\* The action may run: a person approved it, or its risk is low.
Allowed(a) == \/ a \in humanApproved
              \/ a \in Created /\ actions[a].risk = "low"


\* An action that is not allowed to run is nowhere on its way to the cluster:
\* its row is not approved, no transaction executes it, no record carries it.
GateRows == \A a \in Created : actions[a].status = "APPROVED" => Allowed(a)
GateTx == \A w \in Workers : tx[w].op = "execute" => Allowed(tx[w].action)
GateQueue == \A k \in DOMAIN toOperator : Allowed(toOperator[k])
GateEffects == \A a \in Actions : effects[a] > 0 => Allowed(a)

GateInv == GateRows /\ GateTx /\ GateQueue /\ GateEffects

\* What is allowed stays allowed.
LEMMA AllowedStays ==
  ASSUME TypeInv, Persists, NEW a, Allowed(a)
  PROVE  Allowed(a)'
BY DEF Allowed, Persists

\* The parts of the gate that a step leaves alone stay true.
LEMMA GateFrame ==
  ASSUME TypeInv, GateInv, Persists
  PROVE  /\ UNCHANGED actions => GateRows'
         /\ UNCHANGED tx => GateTx'
         /\ UNCHANGED toOperator => GateQueue'
         /\ UNCHANGED effects => GateEffects'
<1>1. ASSUME UNCHANGED actions PROVE GateRows'
  BY <1>1, AllowedStays DEF GateInv, GateRows, Created
<1>2. ASSUME UNCHANGED tx PROVE GateTx'
  BY <1>2, AllowedStays DEF GateInv, GateTx
<1>3. ASSUME UNCHANGED toOperator PROVE GateQueue'
  BY <1>3, AllowedStays DEF GateInv, GateQueue
<1>4. ASSUME UNCHANGED effects PROVE GateEffects'
  BY <1>4, AllowedStays DEF GateInv, GateEffects
<1>. QED
  BY <1>1, <1>2, <1>3, <1>4

\* A transaction that ends, or that begins with another operation than
\* execute, leaves the gate of the transactions closed.
LEMMA GateTxFrame ==
  ASSUME TypeInv, GateInv, Persists, NEW w \in Workers, NEW t,
         tx' = [tx EXCEPT ![w] = t],
         t.op = "execute" => Allowed(t.action)'
  PROVE  GateTx'
<1>1. \A v \in Workers : tx'[v] = IF v = w THEN t ELSE tx[v]
  BY DEF TypeInv, TypeOK
<1>. QED
  BY <1>1, AllowedStays DEF GateInv, GateTx

\* A row that gets any status but APPROVED, or gets it by a person's decision,
\* leaves the gate of the rows closed.
LEMMA GateRowsFrame ==
  ASSUME TypeInv, GateInv, Persists, NEW a \in Created, NEW st \in Status,
         WriteStatus(a, st), st = "APPROVED" => Allowed(a)'
  PROVE  GateRows'
BY WriteStatusLemma, AllowedStays DEF GateInv, GateRows, Created, TypeInv

\* Every step keeps an action of high risk that nobody approved out of the cluster.
LEMMA NextGateInv == TypeInv /\ GateInv /\ [Next]_vars => GateInv'
<1> SUFFICES ASSUME TypeInv, GateInv, [Next]_vars PROVE GateInv'
  OBVIOUS
<1>0. Persists
  BY NextPersists
<1>1. ASSUME UNCHANGED <<actions, tx, toOperator, effects>>
      PROVE  GateInv'
  BY <1>0, <1>1, GateFrame DEF GateInv
<1>2. ASSUME NEW w \in Threads, NEW a \in Actions, NEW risk \in {"low", "high"},
             TriggerCommit(w, a, risk)
      PROVE  GateInv'
  <2> DEFINE row == [incident |-> tx[w].incident, risk |-> risk,
                     status |-> InitialStatus(risk)]
  <2>1. actions' = [actions EXCEPT ![a] = row] /\ a \notin Created
    BY <1>2 DEF TriggerCommit
  <2>2. row # None /\ row.risk = risk /\ row.status = InitialStatus(risk)
    BY DEF None
  <2>. HIDE DEF row
  <2>3. a \in Created' /\ actions'[a] = row
    BY <2>1, <2>2 DEF Created, TypeInv, TypeOK
  <2>4. row.status = "APPROVED" => Allowed(a)'
    BY <2>2, <2>3 DEF InitialStatus, Allowed
  <2>5. \A b \in Created' : b # a => b \in Created /\ actions'[b] = actions[b]
    BY <2>1 DEF Created, TypeInv, TypeOK
  <2>6. GateRows'
    BY <1>0, <2>3, <2>4, <2>5, AllowedStays DEF GateInv, GateRows
  <2>7. GateTx'
    BY <1>0, <1>2, GateTxFrame DEF TriggerCommit, Ends, Idle, Workers
  <2>. QED
    BY <1>0, <1>2, <2>6, <2>7, GateFrame DEF GateInv, TriggerCommit, pipeline,
                                            history
<1>3. ASSUME NEW w \in Workers, NEW a \in Created, NEW st \in Status,
             WriteStatus(a, st), Ends(w), UNCHANGED <<toOperator, effects>>,
             st = "APPROVED" => a \in humanApproved'
      PROVE  GateInv'
  <2>1. GateRows'
    BY <1>0, <1>3, GateRowsFrame DEF Allowed
  <2>2. GateTx'
    BY <1>0, <1>3, GateTxFrame DEF Ends, Idle
  <2>. QED
    BY <1>0, <1>3, <2>1, <2>2, GateFrame DEF GateInv
<1>4. ASSUME NEW w \in Threads, Commit(w)
      PROVE  GateInv'
  <2>1. CASE ApproveCommit(w) \/ RejectCommit(w) \/ RollbackCommit(w)
             \/ ExecuteCommit(w)
    <3>1. tx[w].op \in Decisions \cup {"execute"} /\ w \in Workers
      BY <2>1 DEF ApproveCommit, RejectCommit, RollbackCommit, ExecuteCommit,
                  Decisions, Workers
    <3>2. tx[w].action \in Created
      BY <3>1 DEF TypeInv, ActionsExist
    <3>3. PICK st \in Status :
            /\ WriteStatus(tx[w].action, st)
            /\ st = "APPROVED" => tx[w].action \in humanApproved'
      BY <2>1 DEF ApproveCommit, RejectCommit, RollbackCommit, ExecuteCommit,
                  Status
    <3>4. Ends(w) /\ UNCHANGED <<toOperator, effects>>
      BY <2>1 DEF ApproveCommit, RejectCommit, RollbackCommit, ExecuteCommit,
                  pipeline, history
    <3>. QED
      BY <3>1, <3>2, <3>3, <3>4, <1>3
  <2>. QED
    BY <1>2, <1>4, <2>1 DEF Commit
<1>5. ASSUME NEW t \in Topics, CompleteCommit(t)
      PROVE  GateInv'
  <2>1. tx[t].op = "complete" /\ t \in Workers
    BY <1>5 DEF CompleteCommit, Workers
  <2>2. tx[t].action \in Created
    BY <2>1 DEF TypeInv, ActionsExist
  <2>3. PICK st \in Status : WriteStatus(tx[t].action, st) /\ st # "APPROVED"
    BY <1>5 DEF CompleteCommit, Status
  <2>4. Ends(t) /\ UNCHANGED <<toOperator, effects>>
    BY <1>5 DEF CompleteCommit, history
  <2>. QED
    BY <2>1, <2>2, <2>3, <2>4, <1>3
<1>6. ASSUME NEW w \in Workers, NEW t, tx' = [tx EXCEPT ![w] = t],
             UNCHANGED <<actions, toOperator, effects>>,
             t.op = "execute" => Allowed(t.action)
      PROVE  GateInv'
  <2>1. GateTx'
    BY <1>0, <1>6, GateTxFrame, AllowedStays
  <2>. QED
    BY <1>0, <1>6, <2>1, GateFrame DEF GateInv
<1>7. ASSUME NEW w \in Threads, Request(w)
      PROVE  GateInv'
  <2>1. w \in Workers /\ UNCHANGED <<actions, toOperator, effects>>
    BY <1>7 DEF Request, TriggerBegin, DecideBegin, ExecuteBegin, pipeline,
                history, Workers
  <2>2. CASE \E i \in Incidents : TriggerBegin(w, i)
    BY <2>1, <2>2, <1>6 DEF TriggerBegin, Begins
  <2>3. CASE \E a \in Actions, op \in Decisions : DecideBegin(w, op, a)
    <3>1. PICK a \in Actions, op \in Decisions : DecideBegin(w, op, a)
      BY <2>3
    <3>2. tx' = [tx EXCEPT ![w] = [op |-> op, action |-> a]] /\ op # "execute"
      BY <3>1 DEF DecideBegin, Begins, Decisions
    <3>. QED
      BY <2>1, <3>2, <1>6
  <2>4. CASE \E a \in Actions : ExecuteBegin(w, a)
    <3>1. PICK a \in Actions : ExecuteBegin(w, a)
      BY <2>4
    <3>2. tx' = [tx EXCEPT ![w] = [op |-> "execute", action |-> a,
                                   published |-> FALSE]]
      BY <3>1 DEF ExecuteBegin, Begins
    <3>3. Allowed(a)
      BY <3>1 DEF ExecuteBegin, ExecuteGuard, GateInv, GateRows
    <3>. QED
      BY <2>1, <3>2, <3>3, <1>6
  <2>. QED
    BY <1>7, <2>2, <2>3, <2>4 DEF Request
<1>8. ASSUME NEW w \in Threads, ExecutePublish(w)
      PROVE  GateInv'
  <2>1. w \in Workers /\ tx[w] \in Tx /\ tx[w].op = "execute"
    BY <1>8 DEF ExecutePublish, Workers, TypeInv, TypeOK
  <2>2. tx[w] \in [op : {"execute"}, action : Actions, published : BOOLEAN]
    BY <2>1, TxShape
  <2>3. Allowed(tx[w].action) /\ tx[w].action \in Actions
    BY <2>1, <2>2 DEF GateInv, GateTx
  <2>4. tx' = [tx EXCEPT ![w] = [tx[w] EXCEPT !.published = TRUE]]
    BY <1>8 DEF ExecutePublish
  <2>5. [tx[w] EXCEPT !.published = TRUE].action = tx[w].action
    BY <2>2
  <2>6. GateTx'
    BY <1>0, <2>1, <2>3, <2>4, <2>5, GateTxFrame, AllowedStays
  <2>7. GateQueue'
    <3>1. CASE UNCHANGED toOperator
      BY <1>0, <3>1, GateFrame
    <3>2. CASE toOperator' = Append(toOperator, tx[w].action)
      BY <1>0, <2>3, <3>2, AppendLemma, AllowedStays
         DEF GateInv, GateQueue, TypeInv, TypeOK
    <3>. QED
      BY <1>8, <3>1, <3>2 DEF ExecutePublish
  <2>. QED
    BY <1>0, <1>8, <2>6, <2>7, GateFrame DEF GateInv, ExecutePublish
<1>9. ASSUME NEW w \in Workers, Ends(w), UNCHANGED <<actions, toOperator, effects>>
      PROVE  GateInv'
  BY <1>9, <1>6 DEF Ends, Idle
<1>10. ASSUME NEW t \in Topics, CompleteBegin(t) \/ CompleteFails(t)
       PROVE  GateInv'
  <2>1. t \in Workers /\ UNCHANGED <<actions, toOperator, effects>>
    BY <1>10 DEF CompleteBegin, CompleteFails, pipeline, history, Workers
  <2>2. CASE CompleteBegin(t)
    BY <2>1, <2>2, <1>6 DEF CompleteBegin, Begins
  <2>3. CASE CompleteFails(t)
    BY <2>1, <2>3, <1>9 DEF CompleteFails
  <2>. QED
    BY <1>10, <2>2, <2>3
<1>11. ASSUME NEW ok \in BOOLEAN, OperatorExecute(ok)
       PROVE  GateInv'
  <2>1. toOperator # <<>> /\ toOperator \in Seq(Actions)
    BY <1>11 DEF OperatorExecute, TypeInv, TypeOK
  <2>2. 1 \in DOMAIN toOperator /\ Head(toOperator) = toOperator[1]
    BY <2>1
  <2>3. Allowed(Head(toOperator))
    BY <2>2 DEF GateInv, GateQueue
  <2>4. \A a \in Actions : a # Head(toOperator) => effects'[a] = effects[a]
    BY <1>11 DEF OperatorExecute, TypeInv, TypeOK
  <2>5. GateEffects'
    BY <1>0, <2>3, <2>4, AllowedStays DEF GateInv, GateEffects
  <2>. QED
    BY <1>0, <1>11, <2>5, GateFrame DEF GateInv, OperatorExecute
<1>12. CASE OperatorCommit \/ OperatorFetchError
  <2>1. toOperator \in Seq(Actions) /\ toOperator # <<>>
    BY <1>12 DEF OperatorCommit, OperatorFetchError, TypeInv, TypeOK,
                 ActionsExist, Waiting
  <2>2. toOperator' = Tail(toOperator) /\ UNCHANGED <<actions, tx, effects>>
    BY <1>12 DEF OperatorCommit, OperatorFetchError, history
  <2>3. \A k \in DOMAIN toOperator' : \E j \in DOMAIN toOperator :
          toOperator'[k] = toOperator[j]
    BY <2>1, <2>2, TailLemma
  <2>4. GateQueue'
    BY <1>0, <2>3, AllowedStays DEF GateInv, GateQueue
  <2>. QED
    BY <1>0, <2>2, <2>4, GateFrame DEF GateInv
<1>13. CASE SetHealingEnabled \/ OperatorReport \/ OperatorCrash
            \/ UNCHANGED vars
  BY <1>13, <1>1 DEF SetHealingEnabled, OperatorReport, OperatorCrash, vars,
                     pipeline, history
<1>14. ASSUME NEW w \in Threads, Abort(w)
       PROVE  GateInv'
  BY <1>14, <1>9 DEF Abort, Workers, pipeline, history
<1>. QED
  BY <1>4, <1>5, <1>7, <1>8, <1>10, <1>11, <1>12, <1>13, <1>14
     DEF Next, Listen, Operate

\* The gate is closed from the start, and stays so.
LEMMA GateHolds == Spec => []GateInv
<1>1. Init => GateInv
  BY DEF Init, GateInv, GateRows, GateTx, GateQueue, GateEffects, Created,
         Idle, Workers
<1>. QED
  BY <1>1, TypeCorrect, NextGateInv, PTL DEF Spec

\* However the operations overlap and whatever is lost or repeated, an action
\* of high risk changes the cluster only after a person approved it.
THEOREM HighRiskIsGated == Spec => []HighRiskNeedsHuman
<1>1. GateInv => HighRiskNeedsHuman
  BY DEF GateInv, GateEffects, Allowed, HighRiskNeedsHuman, Created
<1>. QED
  BY <1>1, GateHolds, PTL
-----------------------------------------------------------------------------
(* A resolved incident was healed. *)

Healed(a) == effects[a] > 0

\* Success is only ever told of an action that changed the cluster: by the
\* operator, by the records of healing-completed, by the listener that handles
\* one, by the incident.
HealedReport == operator # Waiting /\ operator.ok => Healed(Head(toOperator))
HealedResults ==
  \A k \in DOMAIN results["completed"] : Healed(results["completed"][k])
HealedTx ==
  tx["completed"].op = "complete" => Healed(tx["completed"].action)
HealedIncidents ==
  \A i \in Incidents :
    incidents[i] = "RESOLVED" => \E a \in ActionsOf(i) : Healed(a)

HealedInv == HealedReport /\ HealedResults /\ HealedTx /\ HealedIncidents

\* The parts that a step leaves alone stay true.
LEMMA HealedFrame ==
  ASSUME TypeInv, HealedInv, Persists
  PROVE  /\ \A a \in Actions : Healed(a) => Healed(a)'
         /\ UNCHANGED <<operator, toOperator>> => HealedReport'
         /\ UNCHANGED results => HealedResults'
         /\ tx'["completed"] = tx["completed"] => HealedTx'
         /\ UNCHANGED incidents => HealedIncidents'
<1>1. ASSUME NEW a \in Actions, Healed(a) PROVE Healed(a)'
  BY <1>1 DEF Healed, Persists, TypeInv, TypeOK
<1>2. ASSUME UNCHANGED <<operator, toOperator>> PROVE HealedReport'
  <2>1. operator # Waiting => Head(toOperator) \in Actions
    BY DEF TypeInv, TypeOK, ActionsExist
  <2>. QED
    BY <1>1, <1>2, <2>1 DEF HealedInv, HealedReport
<1>3. ASSUME UNCHANGED results PROVE HealedResults'
  <2>1. \A k \in DOMAIN results["completed"] : results["completed"][k] \in Actions
    BY DEF TypeInv, ActionsExist, Topics, Created
  <2>. QED
    BY <1>1, <1>3, <2>1 DEF HealedInv, HealedResults
<1>4. ASSUME tx'["completed"] = tx["completed"] PROVE HealedTx'
  <2>1. tx["completed"].op = "complete" => tx["completed"].action \in Actions
    BY DEF TypeInv, ActionsExist, Workers, Topics, Created
  <2>. QED
    BY <1>1, <1>4, <2>1 DEF HealedInv, HealedTx
<1>5. ASSUME UNCHANGED incidents PROVE HealedIncidents'
  <2>1. \A i \in Incidents : ActionsOf(i) \subseteq ActionsOf(i)'
    BY DEF ActionsOf, Persists
  <2>2. \A i \in Incidents : ActionsOf(i) \subseteq Actions
    BY DEF ActionsOf, Created
  <2>. QED
    BY <1>1, <1>5, <2>1, <2>2 DEF HealedInv, HealedIncidents
<1>. QED
  BY <1>1, <1>2, <1>3, <1>4, <1>5

\* Writing a state other than RESOLVED, or RESOLVED for an action that changed
\* the cluster.
LEMMA HealedIncidentsFrame ==
  ASSUME TypeInv, HealedInv, Persists, NEW a \in Created,
         NEW state \in IncidentState, WriteState(a, state),
         state = "RESOLVED" => Healed(a)
  PROVE  HealedIncidents'
<1> SUFFICES ASSUME NEW i \in Incidents, incidents'[i] = "RESOLVED"
             PROVE  (\E b \in ActionsOf(i) : Healed(b))'
  BY DEF HealedIncidents
<1>1. ActionsOf(i) \subseteq ActionsOf(i)' /\ ActionsOf(i) \subseteq Actions
  BY DEF ActionsOf, Persists, Created
<1>2. \E b \in ActionsOf(i) : Healed(b)
  <2>1. CASE i = actions[a].incident
    <3>1. incidents'[i] = state
      BY <2>1, WriteStateLemma DEF TypeInv
    <3>2. a \in ActionsOf(i)
      BY <2>1 DEF ActionsOf
    <3>. QED
      BY <3>1, <3>2
  <2>2. CASE i # actions[a].incident
    <3>1. incidents'[i] = incidents[i]
      BY <2>2, WriteStateLemma DEF TypeInv
    <3>. QED
      BY <3>1 DEF HealedInv, HealedIncidents
  <2>. QED
    BY <2>1, <2>2
<1>. QED
  BY <1>1, <1>2, HealedFrame

\* Every step keeps the reports of success, under way or written, to actions that
\* changed the cluster.
LEMMA NextHealedInv ==
  ~DryRun /\ TypeInv /\ HealedInv /\ [Next]_vars => HealedInv'
<1> SUFFICES ASSUME ~DryRun, TypeInv, HealedInv, [Next]_vars PROVE HealedInv'
  OBVIOUS
<1>0. Persists
  BY NextPersists
<1>1. ASSUME NEW w \in Threads, NEW t, tx' = [tx EXCEPT ![w] = t]
      PROVE  tx'["completed"] = tx["completed"]
  BY <1>1, ConstantsAssumption DEF Workers, Topics, TypeInv, TypeOK
<1>2. ASSUME UNCHANGED <<operator, toOperator, results, incidents>>,
             tx'["completed"] = tx["completed"]
      PROVE  HealedInv'
  BY <1>0, <1>2, HealedFrame DEF HealedInv
<1>3. ASSUME NEW w \in Threads, Request(w) \/ Abort(w) \/ Commit(w)
      PROVE  HealedInv'
  <2>1. tx'["completed"] = tx["completed"]
    BY <1>1, <1>3 DEF Request, TriggerBegin, DecideBegin, ExecuteBegin, Begins,
       Abort, Commit, TriggerCommit, ApproveCommit, RejectCommit,
       RollbackCommit, ExecuteCommit, Ends
  <2>2. UNCHANGED <<operator, toOperator, results>>
    BY <1>3 DEF Request, TriggerBegin, DecideBegin, ExecuteBegin, Abort, Commit,
       TriggerCommit, ApproveCommit, RejectCommit, RollbackCommit,
       ExecuteCommit, pipeline
  <2>3. CASE RollbackCommit(w)
    <3>1. tx[w].action \in Created
      BY <2>3 DEF RollbackCommit, TypeInv, ActionsExist, Decisions, Workers
    <3>2. WriteState(tx[w].action, "ROLLED_BACK")
      BY <2>3 DEF RollbackCommit
    <3>3. HealedIncidents'
      BY <1>0, <3>1, <3>2, HealedIncidentsFrame DEF IncidentState
    <3>. QED
      BY <1>0, <2>1, <2>2, <3>3, HealedFrame DEF HealedInv
  <2>4. CASE ~RollbackCommit(w)
    <3>1. UNCHANGED incidents
      BY <1>3, <2>4 DEF Request, TriggerBegin, DecideBegin, ExecuteBegin, Abort,
         Commit, TriggerCommit, ApproveCommit, RejectCommit, ExecuteCommit
    <3>. QED
      BY <1>2, <2>1, <2>2, <3>1
  <2>. QED
    BY <2>3, <2>4
<1>4. ASSUME NEW w \in Threads, ExecutePublish(w)
      PROVE  HealedInv'
  <2>1. tx'["completed"] = tx["completed"]
    BY <1>4, ConstantsAssumption DEF ExecutePublish, Workers, Topics, TypeInv,
                                     TypeOK
  <2>2. HealedReport'
    <3>1. CASE UNCHANGED toOperator
      BY <1>0, <1>4, <3>1, HealedFrame DEF ExecutePublish
    <3>2. CASE toOperator' = Append(toOperator, tx[w].action)
      <4>1. operator # Waiting => toOperator # <<>> /\ toOperator \in Seq(Actions)
        BY DEF TypeInv, TypeOK, ActionsExist
      <4>2. operator # Waiting => /\ Head(toOperator') = Head(toOperator)
                                  /\ Head(toOperator) \in Actions
        BY <3>2, <4>1
      <4>3. UNCHANGED operator
        BY <1>4 DEF ExecutePublish
      <4>. QED
        BY <1>0, <4>2, <4>3, HealedFrame DEF HealedInv, HealedReport
    <3>. QED
      BY <1>4, <3>1, <3>2 DEF ExecutePublish
  <2>. QED
    BY <1>0, <1>4, <2>1, <2>2, HealedFrame DEF HealedInv, ExecutePublish
<1>5. ASSUME NEW t \in Topics, Listen(t) \/ CompleteFails(t)
      PROVE  HealedInv'
  <2>1. UNCHANGED <<operator, toOperator>>
    BY <1>5 DEF Listen, CompleteBegin, CompleteCommit, CompleteFails, pipeline
  <2>2. CASE CompleteBegin(t)
    <3>1. UNCHANGED <<results, incidents>> /\ results[t] # <<>>
      BY <2>2 DEF CompleteBegin, pipeline
    <3>2. t \in Workers /\ tx' = [tx EXCEPT ![t] =
            [op |-> "complete", action |-> Head(results[t])]]
      BY <2>2 DEF CompleteBegin, Begins, Workers
    <3>3. results[t] \in Seq(Actions)
      BY DEF TypeInv, TypeOK
    <3>4. t = "completed" => /\ Healed(Head(results[t]))
                             /\ Head(results[t]) \in Actions
      BY <3>1, <3>3 DEF HealedInv, HealedResults
    <3>5. HealedTx'
      <4>1. CASE t = "completed"
        <5>1. tx'["completed"].action = Head(results[t])
          BY <3>2, <4>1 DEF TypeInv, TypeOK
        <5>. QED
          BY <1>0, <3>4, <4>1, <5>1, HealedFrame DEF HealedTx
      <4>2. CASE t # "completed"
        BY <1>0, <3>2, <4>2, HealedFrame DEF TypeInv, TypeOK, Workers, Topics
      <4>. QED
        BY <4>1, <4>2
    <3>. QED
      BY <1>0, <2>1, <3>1, <3>5, HealedFrame DEF HealedInv
  <2>3. CASE CompleteCommit(t) \/ CompleteFails(t)
    <3>1. tx[t].op = "complete" /\ Ends(t) /\ t \in Workers
      BY <2>3 DEF CompleteCommit, CompleteFails, Workers
    <3>2. tx[t].action \in Created /\ results[t] # <<>>
      BY <3>1 DEF TypeInv, ActionsExist
    <3>3. results' = results \/ Acknowledge(t)
      BY <2>3 DEF CompleteCommit, CompleteFails
    <3>4. HealedTx'
      <4>1. tx'["completed"] \in {Idle, tx["completed"]}
        BY <3>1 DEF Ends, TypeInv, TypeOK, Workers, Topics
      <4>. QED
        BY <1>0, <4>1, HealedFrame DEF HealedTx, Idle
    <3>5. HealedResults'
      <4>1. CASE results'["completed"] = results["completed"]
        <5>1. \A k \in DOMAIN results["completed"] :
                results["completed"][k] \in Actions
          BY DEF TypeInv, ActionsExist, Topics, Created
        <5>. QED
          BY <1>0, <4>1, <5>1, HealedFrame DEF HealedInv, HealedResults
      <4>2. CASE t = "completed" /\ Acknowledge(t)
        <5>1. results["completed"] \in Seq(Actions)
          BY DEF TypeInv, TypeOK, Topics
        <5>2. results'["completed"] = Tail(results["completed"])
          BY <4>2 DEF Acknowledge, TypeInv, TypeOK
        <5>3. \A k \in DOMAIN results'["completed"] :
                \E j \in DOMAIN results["completed"] :
                  /\ results'["completed"][k] = results["completed"][j]
                  /\ results["completed"][j] \in Actions
          BY <3>2, <4>2, <5>1, <5>2, TailLemma
        <5>. QED
          BY <1>0, <5>3, HealedFrame DEF HealedInv, HealedResults
      <4>. QED
        BY <3>2, <3>3, <4>1, <4>2, AcknowledgeLemma DEF Topics
    <3>6. HealedIncidents'
      <4>1. CASE CompleteFails(t)
        BY <1>0, <4>1, HealedFrame DEF CompleteFails
      <4>2. CASE CompleteCommit(t) /\ t = "completed"
        <5>1. Healed(tx[t].action)
          BY <3>1, <4>2 DEF HealedInv, HealedTx
        <5>2. WriteState(tx[t].action, "RESOLVED")
          BY <4>2 DEF CompleteCommit
        <5>. QED
          BY <1>0, <3>2, <5>1, <5>2, HealedIncidentsFrame DEF IncidentState
      <4>3. CASE CompleteCommit(t) /\ t # "completed"
        <5>1. WriteState(tx[t].action, "ESCALATED")
          BY <4>3 DEF CompleteCommit
        <5>. QED
          BY <1>0, <3>2, <5>1, HealedIncidentsFrame DEF IncidentState
      <4>. QED
        BY <2>3, <4>1, <4>2, <4>3
    <3>. QED
      BY <1>0, <2>1, <3>4, <3>5, <3>6, HealedFrame DEF HealedInv
  <2>. QED
    BY <1>5, <2>2, <2>3 DEF Listen
<1>6. ASSUME NEW ok \in BOOLEAN, OperatorExecute(ok)
      PROVE  HealedInv'
  <2>1. UNCHANGED <<tx, results, incidents, toOperator>> /\ toOperator # <<>>
    BY <1>6 DEF OperatorExecute
  <2>2. toOperator \in Seq(Actions) /\ effects \in [Actions -> Nat]
    BY DEF TypeInv, TypeOK
  <2>3. Head(toOperator) \in Actions
    BY <2>1, <2>2
  <2>4. operator' = [phase |-> "executed", ok |-> ok]
    BY <1>6 DEF OperatorExecute
  <2>5. ok => effects'[Head(toOperator)] = effects[Head(toOperator)] + 1
    BY <1>6, <2>2, <2>3 DEF OperatorExecute
  <2>6. HealedReport'
    BY <2>1, <2>2, <2>3, <2>4, <2>5 DEF HealedReport, Healed
  <2>. QED
    BY <1>0, <2>1, <2>6, HealedFrame DEF HealedInv
<1>7. CASE OperatorReport
  <2>1. UNCHANGED <<tx, incidents, toOperator>> /\ operator.phase = "executed"
    BY <1>7 DEF OperatorReport
  <2>2. /\ operator # Waiting
        /\ operator \in [phase : {"executed", "reported"}, ok : BOOLEAN]
    BY <2>1 DEF Waiting, TypeInv, TypeOK, OperatorState
  <2>3. toOperator \in Seq(Actions) /\ toOperator # <<>>
    BY <2>2 DEF TypeInv, TypeOK, ActionsExist
  <2>4. Head(toOperator) \in Actions
    BY <2>3
  <2>5. operator'.ok = operator.ok
    BY <1>7, <2>2 DEF OperatorReport
  <2>6. HealedReport'
    BY <1>0, <2>1, <2>2, <2>4, <2>5, HealedFrame DEF HealedInv, HealedReport
  <2>7. HealedResults'
    <3>1. \A k \in DOMAIN results["completed"] :
            results["completed"][k] \in Actions
      BY DEF TypeInv, ActionsExist, Topics, Created
    <3>2. CASE results'["completed"] = results["completed"]
      BY <1>0, <3>1, <3>2, HealedFrame DEF HealedInv, HealedResults
    <3>3. CASE /\ operator.ok
               /\ results' = [results EXCEPT !["completed"] =
                                Append(@, Head(toOperator))]
      <4>1. results["completed"] \in Seq(Actions)
        BY DEF TypeInv, TypeOK, Topics
      <4>2. results'["completed"] =
              Append(results["completed"], Head(toOperator))
        BY <3>3 DEF TypeInv, TypeOK, Topics
      <4>3. Healed(Head(toOperator))
        BY <2>2, <3>3 DEF HealedInv, HealedReport
      <4>4. \A k \in DOMAIN results'["completed"] :
              /\ results'["completed"][k] \in Actions
              /\ Healed(results'["completed"][k])
        BY <2>4, <4>1, <4>2, <4>3, AppendLemma DEF HealedInv, HealedResults
      <4>. QED
        BY <1>0, <4>4, HealedFrame DEF HealedResults
    <3>. QED
      BY <1>7, <2>2, <3>2, <3>3 DEF OperatorReport, ResultTopic, TypeInv, TypeOK,
                                    Topics
  <2>. QED
    BY <1>0, <2>1, <2>6, <2>7, HealedFrame DEF HealedInv
<1>8. CASE OperatorCommit \/ OperatorCrash \/ OperatorFetchError
  <2>1. UNCHANGED <<tx, results, incidents>> /\ operator' = Waiting
    BY <1>8 DEF OperatorCommit, OperatorCrash, OperatorFetchError
  <2>2. HealedReport'
    BY <2>1 DEF HealedReport
  <2>. QED
    BY <1>0, <2>1, <2>2, HealedFrame DEF HealedInv
<1>9. CASE SetHealingEnabled \/ UNCHANGED vars
  BY <1>9, <1>2 DEF SetHealingEnabled, vars, pipeline
<1>. QED
  BY <1>3, <1>4, <1>5, <1>6, <1>7, <1>8, <1>9 DEF Next, Operate

\* Without a dry run, success is told truly from the start.
LEMMA HealedHolds == Spec => [](~DryRun => HealedInv)
<1>1. Init => (~DryRun => HealedInv)
  BY DEF Init, HealedInv, HealedReport, HealedResults, HealedTx,
         HealedIncidents, Topics, Workers, Idle
<1>2. TypeInv /\ (~DryRun => HealedInv) /\ [Next]_vars => (~DryRun => HealedInv)'
  BY NextHealedInv
<1>. QED
  BY <1>1, <1>2, TypeCorrect, PTL DEF Spec

\* The loop never marks an incident RESOLVED on the strength of an action that
\* did not change the cluster, through losses, crashes and repeated deliveries.
THEOREM ResolvedIsHealed == Spec => []ResolvedWasHealed
<1>1. (~DryRun => HealedInv) => ResolvedWasHealed
  BY DEF HealedInv, HealedIncidents, Healed, ResolvedWasHealed
<1>. QED
  BY <1>1, HealedHolds, PTL
-----------------------------------------------------------------------------
(* Deliveries. *)

\* The places of the topic where a record of the action is yet to be executed.
Untaken(a) == {k \in DOMAIN toOperator : toOperator[k] = a /\ (k = 1 => operator = Waiting)}

\* What counts is not only what was done, but also what is sure to be done: each
\* record that waits will change the cluster once more.
DeliveryInv ==
  \A a \in Actions : effects[a] + Cardinality(Untaken(a)) <= sent[a] + crashes

\* Places of a queue are finitely many.
LEMMA UntakenIsFinite ==
  ASSUME TypeInv, NEW a
  PROVE  IsFiniteSet(Untaken(a)) /\ Cardinality(Untaken(a)) \in Nat
<1>1. toOperator \in Seq(Actions)
  BY DEF TypeInv, TypeOK
<1>2. DOMAIN toOperator = 1 .. Len(toOperator) /\ Len(toOperator) \in Nat
  BY <1>1
<1>3. IsFiniteSet(DOMAIN toOperator)
  BY <1>2, FS_Interval
<1>4. Untaken(a) \in SUBSET DOMAIN toOperator
  BY DEF Untaken
<1>. QED
  BY <1>3, <1>4, FS_Subset, FS_CardinalityType

\* When the oldest record goes, the places of the others move, and none is added.
LEMMA MovedPlaces ==
  ASSUME NEW P \in SUBSET Nat, IsFiniteSet(P), NEW Q \in SUBSET Nat,
         \A k \in Q : k + 1 \in P
  PROVE  Cardinality(Q) <= Cardinality(P)
<1> DEFINE f == [k \in Q |-> k + 1]
<1>1. f \in [Q -> P] /\ \A k, m \in Q : f[k] = f[m] => k = m
  OBVIOUS
<1>2. f \in Injection(Q, P)
  BY <1>1 DEF Injection, IsInjective
<1>. QED
  BY <1>2, FS_Injection

\* One more place makes the count one larger at most.
LEMMA OneMorePlace ==
  ASSUME NEW P, NEW n, IsFiniteSet(P)
  PROVE  /\ IsFiniteSet(P \cup {n})
         /\ Cardinality(P \cup {n}) \in Nat
         /\ Cardinality(P \cup {n}) <= Cardinality(P) + 1
<1>1. /\ IsFiniteSet(P \cup {n})
      /\ Cardinality(P \cup {n}) = IF n \in P THEN Cardinality(P) ELSE Cardinality(P) + 1
  BY FS_AddElement
<1>2. Cardinality(P) \in Nat
  BY FS_CardinalityType
<1>. QED
  BY <1>1, <1>2

\* A step that leaves the pipeline's places and counts alone keeps the bound.
LEMMA DeliveryFrame ==
  ASSUME DeliveryInv, UNCHANGED <<toOperator, operator, crashes, sent, effects>>
  PROVE  DeliveryInv'
BY DEF DeliveryInv, Untaken

\* A publication adds one place and one to what was sent.
LEMMA PublishKeepsDelivery ==
  ASSUME TypeInv, TypeInv', DeliveryInv, NEW w \in Threads, ExecutePublish(w)
  PROVE  DeliveryInv'
<1> DEFINE b == tx[w].action
<1>1. b \in Actions
  BY DEF ExecutePublish, TypeInv, ActionsExist, Workers, Created
<1>2. /\ toOperator \in Seq(Actions) /\ sent \in [Actions -> Nat] /\ crashes \in Nat
      /\ effects \in [Actions -> Nat]
  BY DEF TypeInv, TypeOK
<1>3. UNCHANGED <<operator, effects, crashes>>
  BY DEF ExecutePublish
<1>4. CASE UNCHANGED <<toOperator, sent>>
  BY <1>3, <1>4, DeliveryFrame
<1>5. CASE /\ toOperator' = Append(toOperator, b)
           /\ sent' = [sent EXCEPT ![b] = @ + 1]
  <2> SUFFICES ASSUME NEW a \in Actions
               PROVE  effects[a] + Cardinality(Untaken(a)') <= sent'[a] + crashes
    BY <1>3 DEF DeliveryInv
  <2> DEFINE n == Len(toOperator) + 1
  <2>1. effects[a] + Cardinality(Untaken(a)) <= sent[a] + crashes
    BY DEF DeliveryInv
  <2>2. /\ IsFiniteSet(Untaken(a)) /\ Cardinality(Untaken(a)) \in Nat
        /\ IsFiniteSet(Untaken(a)') /\ Cardinality(Untaken(a)') \in Nat
    <3>1. IsFiniteSet(Untaken(a)) /\ Cardinality(Untaken(a)) \in Nat
      BY UntakenIsFinite
    <3>2. toOperator' \in Seq(Actions)
      BY DEF TypeInv, TypeOK
    <3>3. DOMAIN toOperator' = 1 .. Len(toOperator') /\ Len(toOperator') \in Nat
      BY <3>2
    <3>4. IsFiniteSet(DOMAIN toOperator')
      BY <3>3, FS_Interval
    <3>5. Untaken(a)' \in SUBSET DOMAIN toOperator'
      BY DEF Untaken
    <3>. QED
      BY <3>1, <3>4, <3>5, FS_Subset, FS_CardinalityType
  <2>3. Untaken(a)' \subseteq Untaken(a) \cup (IF a = b THEN {n} ELSE {})
    <3>1. \A k \in DOMAIN toOperator' :
            \/ k \in DOMAIN toOperator /\ toOperator'[k] = toOperator[k]
            \/ k = Len(toOperator) + 1 /\ toOperator'[k] = b
      BY <1>1, <1>2, <1>5, AppendLemma
    <3>. QED
      BY <1>3, <3>1 DEF Untaken
  <2>. HIDE DEF n, b
  <2>6. effects[a] \in Nat /\ sent[a] \in Nat /\ crashes \in Nat
    BY <1>2
  <2>4. CASE a = b
    <3>1. IsFiniteSet(Untaken(a) \cup {n})
      BY <2>2, OneMorePlace
    <3>2. /\ Cardinality(Untaken(a) \cup {n}) <= Cardinality(Untaken(a)) + 1
          /\ Cardinality(Untaken(a) \cup {n}) \in Nat
      BY <2>2, OneMorePlace
    <3>3. Cardinality(Untaken(a)') <= Cardinality(Untaken(a) \cup {n})
      BY <2>3, <2>4, <3>1, FS_Subset
    <3>4. sent'[a] = sent[a] + 1
      BY <1>1, <1>2, <1>5, <2>4
    <3>. QED
      BY <2>1, <2>2, <2>6, <3>2, <3>3, <3>4
  <2>5. CASE a # b
    <3>1. Cardinality(Untaken(a)') <= Cardinality(Untaken(a))
      BY <2>2, <2>3, <2>5, FS_Subset
    <3>2. sent'[a] = sent[a]
      BY <1>1, <1>2, <1>5, <2>5
    <3>. QED
      BY <2>1, <2>2, <2>6, <3>1, <3>2
  <2>. QED
    BY <2>4, <2>5
<1>. QED
  BY <1>4, <1>5 DEF ExecutePublish

\* An execution takes a place for each change of the cluster.
LEMMA ExecuteKeepsDelivery ==
  ASSUME TypeInv, DeliveryInv, NEW ok \in BOOLEAN, OperatorExecute(ok)
  PROVE  DeliveryInv'
<1> DEFINE b == Head(toOperator)
<1>1. /\ toOperator \in Seq(Actions) /\ toOperator # <<>>
      /\ sent \in [Actions -> Nat] /\ crashes \in Nat
      /\ effects \in [Actions -> Nat] /\ operator = Waiting
  BY DEF TypeInv, TypeOK, OperatorExecute
<1>2. b \in Actions /\ b = toOperator[1] /\ 1 \in DOMAIN toOperator
  BY <1>1
<1>3. UNCHANGED <<toOperator, sent, crashes>> /\ operator' # Waiting
  BY DEF OperatorExecute, Waiting
<1>4. /\ effects' \in [Actions -> Nat] /\ effects'[b] <= effects[b] + 1
      /\ \A a \in Actions : a # b => effects'[a] = effects[a]
  BY <1>1, <1>2 DEF OperatorExecute
<1> SUFFICES ASSUME NEW a \in Actions
             PROVE  effects'[a] + Cardinality(Untaken(a)') <= sent[a] + crashes
  BY <1>3 DEF DeliveryInv
<1>5. effects[a] + Cardinality(Untaken(a)) <= sent[a] + crashes
  BY DEF DeliveryInv
<1>6. IsFiniteSet(Untaken(a)) /\ Cardinality(Untaken(a)) \in Nat
  BY UntakenIsFinite
<1>7. Untaken(a)' = Untaken(a) \ {1}
  BY <1>1, <1>3 DEF Untaken
<1>8. CASE a = b
  <2>1. 1 \in Untaken(a)
    BY <1>1, <1>2, <1>8 DEF Untaken
  <2>2. Cardinality(Untaken(a) \ {1}) = Cardinality(Untaken(a)) - 1
    BY <1>6, <2>1, FS_RemoveElement
  <2>. QED
    BY <1>1, <1>4, <1>5, <1>6, <1>7, <1>8, <2>2
<1>9. CASE a # b
  <2>1. 1 \notin Untaken(a)
    BY <1>2, <1>9 DEF Untaken
  <2>2. Untaken(a)' = Untaken(a)
    BY <1>7, <2>1
  <2>. QED
    BY <1>4, <1>5, <1>9, <2>2
<1>. QED
  BY <1>8, <1>9

\* When a record goes unexecuted or after its execution, no place is added.
LEMMA TailKeepsDelivery ==
  ASSUME TypeInv, DeliveryInv, toOperator # <<>>, toOperator' = Tail(toOperator),
         UNCHANGED <<crashes, sent, effects>>
  PROVE  DeliveryInv'
<1>1. /\ toOperator \in Seq(Actions) /\ sent \in [Actions -> Nat] /\ crashes \in Nat
      /\ effects \in [Actions -> Nat]
  BY DEF TypeInv, TypeOK
<1> SUFFICES ASSUME NEW a \in Actions
             PROVE  effects[a] + Cardinality(Untaken(a)') <= sent[a] + crashes
  BY DEF DeliveryInv
<1>2. effects[a] + Cardinality(Untaken(a)) <= sent[a] + crashes
  BY DEF DeliveryInv
<1>3. IsFiniteSet(Untaken(a)) /\ Cardinality(Untaken(a)) \in Nat
  BY UntakenIsFinite
<1>4. \A k \in DOMAIN toOperator' :
        /\ k \in Nat /\ k # 0 /\ k + 1 \in DOMAIN toOperator
        /\ toOperator'[k] = toOperator[k + 1]
  BY <1>1
<1>5. Untaken(a)' \in SUBSET Nat /\ Untaken(a) \in SUBSET Nat
  BY <1>1, <1>4 DEF Untaken
<1>6. \A k \in Untaken(a)' : k + 1 \in Untaken(a)
  BY <1>4 DEF Untaken
<1>7. Cardinality(Untaken(a)') <= Cardinality(Untaken(a))
  BY <1>3, <1>5, <1>6, MovedPlaces
<1>8. Cardinality(Untaken(a)') \in Nat
  <2>1. Tail(toOperator) \in Seq(Actions)
    BY <1>1
  <2>2. DOMAIN toOperator' = 1 .. Len(Tail(toOperator)) /\ Len(Tail(toOperator)) \in Nat
    BY <2>1
  <2>3. IsFiniteSet(DOMAIN toOperator')
    BY <2>2, FS_Interval
  <2>4. Untaken(a)' \in SUBSET (DOMAIN toOperator')
    BY DEF Untaken
  <2>. QED
    BY <2>3, <2>4, FS_Subset, FS_CardinalityType
<1>. QED
  BY <1>1, <1>2, <1>3, <1>7, <1>8

\* A crash puts the oldest record back among those that wait, at most.
LEMMA CrashKeepsDelivery ==
  ASSUME TypeInv, DeliveryInv, OperatorCrash
  PROVE  DeliveryInv'
<1>1. /\ sent \in [Actions -> Nat] /\ crashes \in Nat /\ effects \in [Actions -> Nat]
      /\ UNCHANGED <<toOperator, sent, effects>> /\ crashes' = crashes + 1
  BY DEF TypeInv, TypeOK, OperatorCrash
<1> SUFFICES ASSUME NEW a \in Actions
             PROVE  effects[a] + Cardinality(Untaken(a)') <= sent[a] + crashes + 1
  BY <1>1 DEF DeliveryInv
<1>2. effects[a] + Cardinality(Untaken(a)) <= sent[a] + crashes
  BY DEF DeliveryInv
<1>3. IsFiniteSet(Untaken(a)) /\ Cardinality(Untaken(a)) \in Nat
  BY UntakenIsFinite
<1>4. Untaken(a)' \subseteq Untaken(a) \cup {1}
  BY <1>1 DEF Untaken
<1>5. /\ IsFiniteSet(Untaken(a) \cup {1})
      /\ Cardinality(Untaken(a) \cup {1}) \in Nat
      /\ Cardinality(Untaken(a) \cup {1}) <= Cardinality(Untaken(a)) + 1
  BY <1>3, OneMorePlace
<1>6. /\ Cardinality(Untaken(a)') <= Cardinality(Untaken(a) \cup {1})
      /\ Cardinality(Untaken(a)') \in Nat
  BY <1>4, <1>5, FS_Subset, FS_CardinalityType
<1>. QED
  BY <1>1, <1>2, <1>3, <1>5, <1>6

\* Every step keeps the effects and the records that wait within the deliveries.
LEMMA NextDeliveryInv == TypeInv /\ DeliveryInv /\ [Next]_vars => DeliveryInv'
<1> SUFFICES ASSUME TypeInv, DeliveryInv, [Next]_vars PROVE DeliveryInv'
  OBVIOUS
<1>1. ASSUME NEW w \in Threads, ExecutePublish(w) PROVE DeliveryInv'
  BY <1>1, NextTypeInv, PublishKeepsDelivery
<1>2. ASSUME NEW w \in Threads, Request(w) \/ Commit(w) \/ Abort(w) PROVE DeliveryInv'
  <2>1. UNCHANGED <<toOperator, operator, crashes, sent, effects>>
    BY <1>2 DEF Request, Commit, Abort, TriggerBegin, DecideBegin, ExecuteBegin,
                TriggerCommit, ApproveCommit, RejectCommit, RollbackCommit,
                ExecuteCommit, pipeline, history
  <2>. QED
    BY <2>1, DeliveryFrame
<1>3. ASSUME NEW t \in Topics, Listen(t) \/ CompleteFails(t) PROVE DeliveryInv'
  <2>1. UNCHANGED <<toOperator, operator, crashes, sent, effects>>
    BY <1>3 DEF Listen, CompleteBegin, CompleteCommit, CompleteFails, pipeline, history
  <2>. QED
    BY <2>1, DeliveryFrame
<1>4. ASSUME NEW ok \in BOOLEAN, OperatorExecute(ok) PROVE DeliveryInv'
  BY <1>4, ExecuteKeepsDelivery
\* Neither phase of an execution is waiting.
<1>5. CASE OperatorReport
  <2>1. /\ UNCHANGED <<toOperator, crashes, sent, effects>>
        /\ operator # Waiting /\ operator' # Waiting
    <3>1. operator.phase = "executed" /\ operator \in OperatorState
      BY <1>5 DEF OperatorReport, TypeInv, TypeOK
    <3>2. operator'.phase = "reported"
      BY <1>5, <3>1 DEF OperatorReport, OperatorState, Waiting
    <3>. QED
      BY <1>5, <3>1, <3>2 DEF OperatorReport, history, Waiting
  <2>2. \A a \in Actions : Untaken(a)' = Untaken(a)
    BY <2>1 DEF Untaken
  <2>. QED
    BY <2>1, <2>2 DEF DeliveryInv
<1>6. CASE OperatorCommit \/ OperatorFetchError
  <2>1. toOperator # <<>> /\ toOperator' = Tail(toOperator)
    BY <1>6 DEF OperatorCommit, OperatorFetchError, TypeInv, ActionsExist, Waiting
  <2>2. UNCHANGED <<crashes, sent, effects>>
    BY <1>6 DEF OperatorCommit, OperatorFetchError, history
  <2>. QED
    BY <2>1, <2>2, TailKeepsDelivery
<1>7. CASE OperatorCrash
  BY <1>7, CrashKeepsDelivery
<1>8. CASE SetHealingEnabled \/ UNCHANGED vars
  BY <1>8, DeliveryFrame DEF SetHealingEnabled, vars, pipeline, history
<1>. QED
  BY <1>1, <1>2, <1>3, <1>4, <1>5, <1>6, <1>7, <1>8 DEF Next, Operate

\* What is done and what waits is covered by the deliveries from the start.
LEMMA DeliveryHolds == Spec => []DeliveryInv
<1>1. Init => DeliveryInv
  <2> SUFFICES ASSUME Init, NEW a \in Actions
               PROVE  effects[a] + Cardinality(Untaken(a)) <= sent[a] + crashes
    BY DEF DeliveryInv
  <2>1. effects[a] = 0 /\ sent[a] = 0 /\ crashes = 0 /\ Untaken(a) = {}
    BY DEF Init, Untaken
  <2>. QED
    BY <2>1, FS_EmptySet
<1>. QED
  BY <1>1, NextDeliveryInv, TypeCorrect, PTL DEF Spec

\* The operator changes the cluster for an action at most once for each
\* publication and once more for each of its crashes: commits after the handling
\* repeat, but they never multiply.
THEOREM EffectsAreDelivered == Spec => []EffectsWithinDeliveries
<1>1. TypeInv /\ DeliveryInv => EffectsWithinDeliveries
  <2> SUFFICES ASSUME TypeInv, DeliveryInv, NEW a \in Actions
               PROVE  effects[a] <= sent[a] + crashes
    BY DEF EffectsWithinDeliveries
  <2>1. effects[a] + Cardinality(Untaken(a)) <= sent[a] + crashes
    BY DEF DeliveryInv
  <2>2. effects[a] \in Nat /\ sent[a] \in Nat /\ crashes \in Nat
    BY DEF TypeInv, TypeOK
  <2>. QED
    BY <2>1, <2>2, UntakenIsFinite
<1>. QED
  BY <1>1, DeliveryHolds, TypeCorrect, PTL
-----------------------------------------------------------------------------
(* The contract. *)

Ordered(a) == sent[a] > 0

\* Whatever the operator takes, and whatever it reports, was ordered.
OrderedQueue == \A k \in DOMAIN toOperator : Ordered(toOperator[k])
OrderedResults == \A t \in Topics : \A k \in DOMAIN results[t] : Ordered(results[t][k])
OrderedTx == \A t \in Topics : tx[t].op = "complete" => Ordered(tx[t].action)

OrderedInv == OrderedQueue /\ OrderedResults /\ OrderedTx

\* What was ordered stays ordered, and the parts that a step leaves alone stay true.
LEMMA OrderedFrame ==
  ASSUME TypeInv, OrderedInv, [Next]_vars
  PROVE  /\ \A a \in Actions : Ordered(a) => Ordered(a)'
         /\ UNCHANGED toOperator => OrderedQueue'
         /\ UNCHANGED results => OrderedResults'
         /\ (\A t \in Topics : tx'[t] = tx[t]) => OrderedTx'
<1>1. ASSUME NEW a \in Actions, Ordered(a) PROVE Ordered(a)'
  <2>1. CASE UNCHANGED sent
    BY <1>1, <2>1 DEF Ordered
  <2>2. ASSUME NEW w \in Threads, ExecutePublish(w) PROVE Ordered(a)'
    <3>1. sent \in [Actions -> Nat] /\ sent[a] > 0
      BY <1>1 DEF Ordered, TypeInv, TypeOK
    <3>2. sent' = sent \/ sent' = [sent EXCEPT ![tx[w].action] = @ + 1]
      BY <2>2 DEF ExecutePublish
    <3>3. sent'[a] = sent[a] \/ sent'[a] = sent[a] + 1
      BY <3>1, <3>2
    <3>. QED
      BY <3>1, <3>3 DEF Ordered
  <2>. QED
    BY <2>1, <2>2 DEF Next, Request, Commit, Abort, TriggerBegin, DecideBegin,
       ExecuteBegin, TriggerCommit, ApproveCommit, RejectCommit, RollbackCommit,
       ExecuteCommit, Listen, CompleteBegin, CompleteCommit, CompleteFails, Operate,
       OperatorExecute, OperatorReport, OperatorCommit, OperatorCrash,
       OperatorFetchError, SetHealingEnabled, vars, history
<1>2. ASSUME UNCHANGED toOperator PROVE OrderedQueue'
  BY <1>1, <1>2 DEF OrderedInv, OrderedQueue, TypeInv, TypeOK
<1>3. ASSUME UNCHANGED results PROVE OrderedResults'
  <2>1. \A t \in Topics : \A k \in DOMAIN results[t] : results[t][k] \in Actions
    BY DEF TypeInv, ActionsExist, Created
  <2>. QED
    BY <1>1, <1>3, <2>1 DEF OrderedInv, OrderedResults
<1>4. ASSUME \A t \in Topics : tx'[t] = tx[t] PROVE OrderedTx'
  <2>1. \A t \in Topics : tx[t].op = "complete" => tx[t].action \in Actions
    BY DEF TypeInv, ActionsExist, Workers, Created
  <2>. QED
    BY <1>1, <1>4, <2>1 DEF OrderedInv, OrderedTx
<1>. QED
  BY <1>1, <1>2, <1>3, <1>4

\* Every step keeps the records to what was ordered.
LEMMA NextOrderedInv == TypeInv /\ OrderedInv /\ [Next]_vars => OrderedInv'
<1> SUFFICES ASSUME TypeInv, OrderedInv, [Next]_vars PROVE OrderedInv'
  OBVIOUS
<1>0. ASSUME NEW w \in Threads, NEW x, tx' = [tx EXCEPT ![w] = x]
      PROVE  \A t \in Topics : tx'[t] = tx[t]
  BY <1>0, ConstantsAssumption DEF Workers, Topics, TypeInv, TypeOK
<1>1. ASSUME UNCHANGED <<toOperator, results>>, \A t \in Topics : tx'[t] = tx[t]
      PROVE  OrderedInv'
  BY <1>1, OrderedFrame DEF OrderedInv
<1>2. ASSUME NEW w \in Threads, Request(w) \/ Commit(w) \/ Abort(w) PROVE OrderedInv'
  <2>1. /\ UNCHANGED <<toOperator, results>>
        /\ \E x : tx' = [tx EXCEPT ![w] = x]
    BY <1>2 DEF Request, Commit, Abort, TriggerBegin, DecideBegin, ExecuteBegin,
                TriggerCommit, ApproveCommit, RejectCommit, RollbackCommit,
                ExecuteCommit, pipeline, Begins, Ends
  <2>. QED
    BY <1>0, <1>1, <2>1
<1>3. ASSUME NEW w \in Threads, ExecutePublish(w) PROVE OrderedInv'
  <2>1. UNCHANGED results /\ \A t \in Topics : tx'[t] = tx[t]
    BY <1>3, ConstantsAssumption
       DEF ExecutePublish, Workers, Topics, TypeInv, TypeOK
  <2>2. CASE UNCHANGED toOperator
    BY <1>1, <2>1, <2>2
  <2>3. CASE ~ UNCHANGED toOperator
    <3> DEFINE a == tx[w].action
    <3>1. a \in Created /\ w \in Workers
      BY <1>3 DEF ExecutePublish, TypeInv, ActionsExist, Workers
    <3>2. a \in Actions
      BY <3>1 DEF Created
    <3>3. toOperator' = Append(toOperator, a) /\ sent' = [sent EXCEPT ![a] = @ + 1]
      BY <1>3, <2>3 DEF ExecutePublish
    <3>4. sent'[a] > 0
      <4>1. sent \in [Actions -> Nat]
        BY DEF TypeInv, TypeOK
      <4>2. sent'[a] = sent[a] + 1 /\ sent[a] \in Nat
        BY <3>2, <3>3, <4>1
      <4>. QED
        BY <4>2
    <3>5. toOperator \in Seq(Actions)
      BY DEF TypeInv, TypeOK
    <3> HIDE DEF a
    <3>6. \A k \in DOMAIN toOperator' :
            \/ k \in DOMAIN toOperator /\ toOperator'[k] = toOperator[k]
            \/ toOperator'[k] = a
      BY <3>2, <3>3, <3>5, AppendLemma
    <3>7. \A k \in DOMAIN toOperator : toOperator[k] \in Actions
      BY <3>5
    <3>8. ASSUME NEW k \in DOMAIN toOperator' PROVE sent'[toOperator'[k]] > 0
      <4>1. CASE toOperator'[k] = a
        BY <3>4, <4>1
      <4>2. CASE k \in DOMAIN toOperator /\ toOperator'[k] = toOperator[k]
        <5>1. Ordered(toOperator[k]) /\ toOperator[k] \in Actions
          BY <3>7, <4>2 DEF OrderedInv, OrderedQueue
        <5>2. sent'[toOperator[k]] > 0
          BY <5>1, OrderedFrame DEF Ordered
        <5>. QED
          BY <4>2, <5>2
      <4>. QED
        BY <3>6, <4>1, <4>2
    <3>9. OrderedQueue'
      BY <3>8 DEF OrderedQueue, Ordered
    <3>. QED
      BY <2>1, <3>9, OrderedFrame DEF OrderedInv
  <2>. QED
    BY <2>2, <2>3
<1>4. ASSUME NEW t \in Topics, CompleteBegin(t) PROVE OrderedInv'
  <2>1. UNCHANGED <<toOperator, results, sent>>
    BY <1>4 DEF CompleteBegin, pipeline, history
  <2>2. results[t] \in Seq(Actions) /\ results[t] # <<>>
    BY <1>4 DEF CompleteBegin, TypeInv, TypeOK
  <2>3. 1 \in DOMAIN results[t] /\ Head(results[t]) = results[t][1]
    BY <2>2
  <2>4. Ordered(Head(results[t]))
    BY <2>3 DEF OrderedInv, OrderedResults
  <2>5. tx' = [tx EXCEPT ![t] = [op |-> "complete", action |-> Head(results[t])]]
    BY <1>4 DEF CompleteBegin, Begins
  <2>6. \A u \in Topics : tx'[u] = IF u = t
          THEN [op |-> "complete", action |-> Head(results[t])] ELSE tx[u]
    BY <2>5 DEF TypeInv, TypeOK, Workers
  <2>7. OrderedTx'
    BY <2>1, <2>4, <2>6 DEF OrderedTx, OrderedInv, Ordered
  <2>. QED
    BY <2>1, <2>7, OrderedFrame DEF OrderedInv
<1>5. ASSUME NEW t \in Topics, CompleteCommit(t) \/ CompleteFails(t) PROVE OrderedInv'
  <2>1. UNCHANGED <<toOperator, sent>> /\ tx' = [tx EXCEPT ![t] = Idle]
    BY <1>5 DEF CompleteCommit, CompleteFails, Ends, history
  <2>2. \A u \in Topics : tx'[u] = Idle \/ tx'[u] = tx[u]
    BY <2>1 DEF TypeInv, TypeOK, Workers
  <2>3. OrderedTx'
    BY <2>1, <2>2 DEF OrderedTx, OrderedInv, Ordered, Idle
  <2>4. results[t] # <<>> /\ (UNCHANGED results \/ Acknowledge(t))
    BY <1>5 DEF CompleteCommit, CompleteFails, TypeInv, ActionsExist
  <2>5. \A u \in Topics : \A k \in DOMAIN results'[u] :
          \E j \in DOMAIN results[u] : results'[u][k] = results[u][j]
    <3>1. CASE UNCHANGED results
      BY <3>1
    <3>2. CASE Acknowledge(t)
      <4>1. results \in [Topics -> Seq(Actions)]
        BY DEF TypeInv, TypeOK
      <4>2. \A k \in DOMAIN Tail(results[t]) :
              k + 1 \in DOMAIN results[t] /\ Tail(results[t])[k] = results[t][k + 1]
        BY <2>4, <4>1, TailLemma
      <4>3. \A u \in Topics : results'[u] = IF u = t THEN Tail(results[t]) ELSE results[u]
        BY <3>2, <4>1 DEF Acknowledge
      <4>. QED
        BY <4>2, <4>3
    <3>. QED
      BY <2>4, <3>1, <3>2
  <2>6. OrderedResults'
    BY <2>1, <2>5 DEF OrderedResults, OrderedInv, Ordered
  <2>. QED
    BY <2>1, <2>3, <2>6, OrderedFrame DEF OrderedInv
<1>6. CASE (\E ok \in BOOLEAN : OperatorExecute(ok)) \/ OperatorCrash
  BY <1>1, <1>6 DEF OperatorExecute, OperatorCrash
<1>7. CASE OperatorReport
  <2>1. UNCHANGED <<tx, toOperator, sent>>
    BY <1>7 DEF OperatorReport, history
  <2>2. CASE UNCHANGED results
    BY <1>1, <2>1, <2>2
  <2>3. CASE ~ UNCHANGED results
    <3> DEFINE u == ResultTopic(operator.ok)
               a == Head(toOperator)
    <3>1. results' = [results EXCEPT ![u] = Append(@, a)] /\ u \in Topics
      BY <1>7, <2>3 DEF OperatorReport, ResultTopic, Topics
    <3>2. toOperator # <<>> /\ toOperator \in Seq(Actions)
      BY <1>7 DEF OperatorReport, TypeInv, TypeOK, ActionsExist, Waiting
    <3>3. a \in Actions /\ Ordered(a)
      <4>1. 1 \in DOMAIN toOperator /\ a = toOperator[1]
        BY <3>2
      <4>. QED
        BY <3>2, <4>1 DEF OrderedInv, OrderedQueue
    <3>4. results \in [Topics -> Seq(Actions)]
      BY DEF TypeInv, TypeOK
    <3> HIDE DEF u, a
    <3>5. \A t \in Topics : results'[t] = IF t = u THEN Append(results[u], a) ELSE results[t]
      BY <3>1, <3>4
    <3>6. \A k \in DOMAIN Append(results[u], a) :
            \/ k \in DOMAIN results[u] /\ Append(results[u], a)[k] = results[u][k]
            \/ Append(results[u], a)[k] = a
      BY <3>1, <3>3, <3>4, AppendLemma
    <3>7. OrderedResults'
      BY <2>1, <3>1, <3>3, <3>5, <3>6 DEF OrderedResults, OrderedInv, Ordered
    <3>. QED
      BY <2>1, <3>7, OrderedFrame DEF OrderedInv
  <2>. QED
    BY <2>2, <2>3
<1>8. CASE OperatorCommit \/ OperatorFetchError
  <2>1. /\ UNCHANGED <<tx, results, sent>>
        /\ toOperator # <<>> /\ toOperator' = Tail(toOperator)
    BY <1>8 DEF OperatorCommit, OperatorFetchError, TypeInv, ActionsExist, Waiting, history
  <2>2. \A k \in DOMAIN toOperator' :
          k + 1 \in DOMAIN toOperator /\ toOperator'[k] = toOperator[k + 1]
    BY <2>1, TailLemma DEF TypeInv, TypeOK
  <2>3. OrderedQueue'
    BY <2>1, <2>2 DEF OrderedQueue, OrderedInv, Ordered
  <2>. QED
    BY <2>1, <2>3, OrderedFrame DEF OrderedInv
<1>9. CASE SetHealingEnabled \/ UNCHANGED vars
  BY <1>9, <1>1 DEF SetHealingEnabled, vars, pipeline
<1>. QED
  BY <1>2, <1>3, <1>4, <1>5, <1>6, <1>7, <1>8, <1>9 DEF Next, Operate, Listen

\* Writing a status changes neither what was proposed nor what is of low risk.
LEMMA StatusIsNotInContract ==
  ASSUME TypeInv, NEW a \in Created, NEW st \in Status, WriteStatus(a, st)
  PROVE  /\ Proposed' = Proposed
         /\ LetThrough' = humanApproved' \cup {b \in Created : actions[b].risk = "low"}
<1>1. /\ Created' = Created
      /\ \A b \in Created : /\ actions'[b].incident = actions[b].incident
                            /\ actions'[b].risk = actions[b].risk
  BY WriteStatusLemma DEF TypeInv
<1>2. \A b \in Actions : b \in Created <=> actions[b] # None
  BY DEF Created
<1>3. \A b \in Actions : b \in Created' <=> actions'[b] # None
  BY DEF Created
<1>4. Proposed' = Proposed
  BY <1>1, <1>2, <1>3 DEF Proposed
<1>5. LetThrough' = humanApproved' \cup {b \in Created : actions[b].risk = "low"}
  BY <1>1 DEF LetThrough
<1>. QED
  BY <1>4, <1>5

\* What an action was proposed for.
LEMMA ProposedOf ==
  ASSUME TypeInv, NEW a \in Created
  PROVE  /\ a \in Actions /\ actions[a].incident \in Incidents
         /\ Proposed[a] # Contract!Nothing
         /\ Proposed[a].incident = actions[a].incident
<1>1. a \in Actions /\ actions[a] \in ActionRow /\ actions[a] # None
  BY DEF Created, TypeInv, TypeOK
<1>2. Proposed[a] = [incident |-> actions[a].incident, risk |-> actions[a].risk]
  BY <1>1 DEF Proposed
<1>3. actions[a].incident \in Incidents /\ actions[a].risk \in {"low", "high"}
  BY <1>1 DEF ActionRow
<1>. QED
  BY <1>1, <1>2, <1>3 DEF Contract!Nothing

\* What a step of the contract is made of, where it only waits.
LEMMA ContractWaits ==
  ASSUME UNCHANGED <<actions, humanApproved, sent, crashes, effects, incidents>>
  PROVE  UNCHANGED Contract!vars
BY DEF Contract!vars, Proposed, LetThrough, Created

\* A proposal is made when its transaction commits.
LEMMA TriggerProposes ==
  ASSUME TypeInv, NEW w \in Threads, NEW a \in Actions, NEW risk \in {"low", "high"},
         TriggerCommit(w, a, risk)
  PROVE  \E i \in Incidents : Contract!Propose(a, i, risk)
<1> DEFINE i == tx[w].incident
           new == [incident |-> i, risk |-> risk, status |-> InitialStatus(risk)]
<1>1. /\ i \in Incidents /\ actions[a] = None
      /\ actions' = [actions EXCEPT ![a] = new]
      /\ UNCHANGED <<incidents, humanApproved, sent, crashes, effects>>
  <2>1. tx[w] \in Tx /\ tx[w].op = "trigger"
    BY DEF TriggerCommit, TypeInv, TypeOK, Workers
  <2>2. i \in Incidents
    BY <2>1, TxShape
  <2>. QED
    BY <2>2 DEF TriggerCommit, Created, history
<1>2. new # None /\ new.incident = i /\ new.risk = risk
  BY DEF None
<1> HIDE DEF new, i
<1>3. \A b \in Actions : actions'[b] = IF b = a THEN new ELSE actions[b]
  BY <1>1 DEF TypeInv, TypeOK
<1>4. Proposed[a] = Contract!Nothing
  BY <1>1 DEF Proposed, Contract!Nothing
<1>5. Proposed' = [Proposed EXCEPT ![a] = [incident |-> i, risk |-> risk]]
  BY <1>2, <1>3 DEF Proposed
<1>6. Created' = Created \cup {a}
  BY <1>2, <1>3 DEF Created
<1>7. LetThrough' = IF risk = "low" THEN LetThrough \cup {a} ELSE LetThrough
  BY <1>1, <1>2, <1>3, <1>6 DEF LetThrough, Created
<1>. QED
  BY <1>1, <1>4, <1>5, <1>7 DEF Contract!Propose

\* A conclusion is written with the status of the action it follows from.
LEMMA WritesConclude ==
  ASSUME TypeInv, NEW a \in Created, NEW st \in Status, WriteStatus(a, st),
         NEW outcome \in {"RESOLVED", "ESCALATED", "ROLLED_BACK"}, WriteState(a, outcome),
         outcome = "RESOLVED" => Ordered(a) /\ (DryRun \/ Healed(a)),
         outcome = "ESCALATED" => Ordered(a),
         UNCHANGED <<humanApproved, sent, crashes, effects>>
  PROVE  \E i \in Incidents : Contract!Conclude(i, a)
<1>1. Proposed' = Proposed /\ LetThrough' = LetThrough
  BY StatusIsNotInContract DEF LetThrough
<1>2. incidents' = [incidents EXCEPT ![actions[a].incident] = outcome]
  BY DEF WriteState
<1>3. outcome = "RESOLVED" => Contract!CarriedOut(a)
  BY DEF Contract!CarriedOut, Ordered, Healed
<1>4. outcome = "ESCALATED" => sent[a] > 0
  BY DEF Ordered
<1>5. Contract!Conclude(actions[a].incident, a)
  BY <1>1, <1>2, <1>3, <1>4, ProposedOf DEF Contract!Conclude
<1>. QED
  BY <1>5, ProposedOf

\* The operator executes what was ordered, once for each order and repetition.
LEMMA ExecutionChanges ==
  ASSUME TypeInv, DeliveryInv, OrderedInv, NEW ok \in BOOLEAN, OperatorExecute(ok)
  PROVE  \/ UNCHANGED Contract!vars
         \/ \E a \in Actions : Contract!Change(a)
<1> DEFINE a == Head(toOperator)
<1>1. /\ operator = Waiting /\ toOperator # <<>> /\ toOperator \in Seq(Actions)
      /\ UNCHANGED <<actions, incidents, humanApproved, sent, crashes>>
      /\ effects' = IF ok /\ ~DryRun THEN [effects EXCEPT ![a] = @ + 1] ELSE effects
  BY DEF OperatorExecute, TypeInv, TypeOK
<1>2. CASE UNCHANGED effects
  BY <1>1, <1>2, ContractWaits
<1>3. CASE ~ UNCHANGED effects
  <2>1. ~DryRun /\ effects' = [effects EXCEPT ![a] = @ + 1]
    BY <1>1, <1>3
  <2>2. 1 \in DOMAIN toOperator /\ toOperator[1] = a /\ a \in Actions
    BY <1>1
  <2> HIDE DEF a
  <2>3. sent[a] > 0
    BY <2>2 DEF OrderedInv, OrderedQueue, Ordered
  <2>4. 1 \in Untaken(a)
    BY <1>1, <2>2 DEF Untaken
  <2>5. Cardinality(Untaken(a)) \in Nat /\ Cardinality(Untaken(a)) # 0
    BY <2>4, UntakenIsFinite, FS_EmptySet
  <2>6. effects[a] + Cardinality(Untaken(a)) <= sent[a] + crashes
    BY <2>2 DEF DeliveryInv
  <2>7. effects[a] < sent[a] + crashes
    BY <2>2, <2>5, <2>6 DEF TypeInv, TypeOK
  <2>8. Proposed' = Proposed /\ LetThrough' = LetThrough
    BY <1>1 DEF Proposed, LetThrough, Created
  <2>9. Contract!Change(a)
    BY <1>1, <2>1, <2>3, <2>7, <2>8 DEF Contract!Change
  <2>. QED
    BY <2>2, <2>9
<1>. QED
  BY <1>2, <1>3

ContractInv == /\ TypeInv /\ GateInv /\ DeliveryInv /\ OrderedInv
               /\ ~DryRun => HealedInv

\* Every step of the loop is one of the contract, or nothing to it.
LEMMA StepOfContract ==
  ASSUME ContractInv, [Next]_vars
  PROVE  [Contract!Next]_(Contract!vars)
<1>0. TypeInv
  BY DEF ContractInv
<1>1. ASSUME UNCHANGED <<actions, humanApproved, sent, crashes, effects, incidents>>
      PROVE  [Contract!Next]_(Contract!vars)
  BY <1>1, ContractWaits
<1>2. ASSUME NEW w \in Threads, Request(w) \/ Abort(w)
      PROVE  [Contract!Next]_(Contract!vars)
  BY <1>1, <1>2 DEF Request, Abort, TriggerBegin, DecideBegin, ExecuteBegin, history
<1>3. ASSUME NEW w \in Threads, Commit(w) PROVE [Contract!Next]_(Contract!vars)
  <2>1. ASSUME NEW a \in Actions, NEW risk \in {"low", "high"}, TriggerCommit(w, a, risk)
        PROVE  [Contract!Next]_(Contract!vars)
    BY <1>0, <2>1, TriggerProposes DEF Contract!Next
  <2> DEFINE a == tx[w].action
  <2>2. ApproveCommit(w) \/ RejectCommit(w) \/ RollbackCommit(w) \/ ExecuteCommit(w)
          => a \in Created /\ a \in Actions
    BY <1>0 DEF TypeInv, ActionsExist, ApproveCommit, RejectCommit, RollbackCommit,
       ExecuteCommit, Workers, Decisions, Created
  <2>3. CASE ApproveCommit(w)
    <3>1. /\ WriteStatus(a, "APPROVED") /\ humanApproved' = humanApproved \cup {a}
          /\ UNCHANGED <<sent, crashes, effects, incidents>>
      BY <2>3 DEF ApproveCommit
    <3>2. a \in Created /\ a \in Actions /\ "APPROVED" \in Status
      BY <2>2, <2>3 DEF Status
    <3> HIDE DEF a
    <3>3. /\ Proposed' = Proposed
          /\ LetThrough' = humanApproved' \cup {b \in Created : actions[b].risk = "low"}
      BY <1>0, <3>1, <3>2, StatusIsNotInContract
    <3>4. LetThrough' = LetThrough \cup {a}
      BY <3>1, <3>3 DEF LetThrough
    <3>5. Contract!Allow(a)
      BY <1>0, <3>1, <3>2, <3>3, <3>4, ProposedOf DEF Contract!Allow
    <3>. QED
      BY <3>2, <3>5 DEF Contract!Next
  <2>4. CASE RejectCommit(w) \/ ExecuteCommit(w)
    <3>1. /\ WriteStatus(a, "FAILED") \/ WriteStatus(a, "EXECUTING")
          /\ UNCHANGED <<humanApproved, sent, crashes, effects, incidents>>
      BY <2>4 DEF RejectCommit, ExecuteCommit, history
    <3>2. a \in Created /\ "FAILED" \in Status /\ "EXECUTING" \in Status
      BY <2>2, <2>4 DEF Status
    <3> HIDE DEF a
    <3>3. Proposed' = Proposed /\ LetThrough' = LetThrough
      BY <1>0, <3>1, <3>2, StatusIsNotInContract DEF LetThrough
    <3>. QED
      BY <3>1, <3>3 DEF Contract!vars
  <2>5. CASE RollbackCommit(w)
    <3>1. /\ WriteStatus(a, "ROLLED_BACK") /\ WriteState(a, "ROLLED_BACK")
          /\ UNCHANGED <<humanApproved, sent, crashes, effects>>
      BY <2>5 DEF RollbackCommit, history
    <3>2. a \in Created /\ a \in Actions /\ "ROLLED_BACK" \in Status
      BY <2>2, <2>5 DEF Status
    <3> HIDE DEF a
    <3>3. \E i \in Incidents : Contract!Conclude(i, a)
      BY <1>0, <3>1, <3>2, WritesConclude
    <3>. QED
      BY <3>2, <3>3 DEF Contract!Next
  <2>. QED
    BY <1>3, <2>1, <2>3, <2>4, <2>5 DEF Commit
<1>4. ASSUME NEW w \in Threads, ExecutePublish(w) PROVE [Contract!Next]_(Contract!vars)
  <2> DEFINE a == tx[w].action
  <2>1. /\ UNCHANGED <<actions, humanApproved, crashes, effects, incidents>>
        /\ UNCHANGED sent \/ sent' = [sent EXCEPT ![a] = @ + 1]
    BY <1>4 DEF ExecutePublish
  <2>2. a \in Actions /\ Allowed(a)
    BY <1>0, <1>4 DEF ExecutePublish, ContractInv, GateInv, GateTx, TypeInv,
       ActionsExist, Workers, Created
  <2> HIDE DEF a
  <2>3. a \in LetThrough
    BY <2>2 DEF Allowed, LetThrough
  <2>4. Proposed' = Proposed /\ LetThrough' = LetThrough
    BY <2>1 DEF Proposed, LetThrough, Created
  <2>5. UNCHANGED sent \/ Contract!Order(a)
    BY <2>1, <2>3, <2>4 DEF Contract!Order
  <2>. QED
    BY <1>1, <2>1, <2>2, <2>5 DEF Contract!Next
<1>5. ASSUME NEW t \in Topics, CompleteBegin(t) \/ CompleteFails(t)
      PROVE  [Contract!Next]_(Contract!vars)
  BY <1>1, <1>5 DEF CompleteBegin, CompleteFails, history
<1>6. ASSUME NEW t \in Topics, CompleteCommit(t) PROVE [Contract!Next]_(Contract!vars)
  <2> DEFINE a == tx[t].action
             st == IF t = "completed" THEN "COMPLETED" ELSE "FAILED"
             outcome == IF t = "completed" THEN "RESOLVED" ELSE "ESCALATED"
  <2>1. /\ WriteStatus(a, st) /\ WriteState(a, outcome) /\ tx[t].op = "complete"
        /\ UNCHANGED <<humanApproved, sent, crashes, effects>>
    BY <1>6 DEF CompleteCommit, history
  <2>2. a \in Created /\ a \in Actions
    BY <1>0, <2>1 DEF TypeInv, ActionsExist, Workers, Created
  <2>3. Ordered(a)
    BY <2>1 DEF ContractInv, OrderedInv, OrderedTx
  <2>4. t = "completed" => DryRun \/ Healed(a)
    BY <2>1 DEF ContractInv, HealedInv, HealedTx
  <2>5. /\ st \in Status /\ outcome \in {"RESOLVED", "ESCALATED", "ROLLED_BACK"}
        /\ outcome = "RESOLVED" => t = "completed"
    BY DEF Status
  <2> HIDE DEF a, st, outcome
  <2>6. \E i \in Incidents : Contract!Conclude(i, a)
    BY <1>0, <2>1, <2>2, <2>3, <2>4, <2>5, WritesConclude
  <2>. QED
    BY <2>2, <2>6 DEF Contract!Next
<1>7. ASSUME NEW ok \in BOOLEAN, OperatorExecute(ok) PROVE [Contract!Next]_(Contract!vars)
  BY <1>7, ExecutionChanges DEF ContractInv, Contract!Next
<1>8. CASE OperatorReport \/ OperatorCommit \/ OperatorFetchError
  BY <1>1, <1>8 DEF OperatorReport, OperatorCommit, OperatorFetchError, history
<1>9. CASE OperatorCrash
  <2>1. /\ operator # Waiting /\ crashes' = crashes + 1
        /\ UNCHANGED <<actions, humanApproved, sent, effects, incidents>>
    BY <1>9 DEF OperatorCrash
  <2>2. toOperator # <<>> /\ toOperator \in Seq(Actions)
    BY <1>0, <2>1 DEF TypeInv, TypeOK, ActionsExist
  <2>3. 1 \in DOMAIN toOperator /\ toOperator[1] \in Actions
    BY <2>2
  <2>4. sent[toOperator[1]] > 0
    BY <2>3 DEF ContractInv, OrderedInv, OrderedQueue, Ordered
  <2>5. Proposed' = Proposed /\ LetThrough' = LetThrough
    BY <2>1 DEF Proposed, LetThrough, Created
  <2>6. Contract!Repeat
    BY <2>1, <2>3, <2>4, <2>5 DEF Contract!Repeat
  <2>. QED
    BY <2>6 DEF Contract!Next
<1>10. CASE SetHealingEnabled \/ UNCHANGED vars
  BY <1>1, <1>10 DEF SetHealingEnabled, vars, history
<1>. QED
  BY <1>2, <1>3, <1>4, <1>5, <1>6, <1>7, <1>8, <1>9, <1>10 DEF Next, Operate, Listen

\* The loop implements its contract for any incidents, actions, threads and faults,
\* dry run or not: it orders only what its score or a person has allowed, changes the
\* cluster no more often than was ordered and repeated, and concludes an incident only
\* upon an order, as RESOLVED only upon one that was carried out.
THEOREM ImplementsContract == Spec => ContractSpec
<1>1. Init => Contract!Init
  <2> SUFFICES ASSUME Init PROVE Contract!Init
    OBVIOUS
  <2>1. /\ actions = [a \in Actions |-> None] /\ humanApproved = {} /\ crashes = 0
        /\ sent = [a \in Actions |-> 0] /\ effects = [a \in Actions |-> 0]
        /\ incidents = [i \in Incidents |-> "DETECTED"]
    BY DEF Init
  <2>2. Proposed = [a \in Actions |-> Contract!Nothing] /\ LetThrough = {}
    BY <2>1 DEF Proposed, LetThrough, Created, Contract!Nothing
  <2>. QED
    BY <2>1, <2>2 DEF Contract!Init
<1>2. Init => OrderedInv
  BY DEF Init, OrderedInv, OrderedQueue, OrderedResults, OrderedTx, Topics, Workers, Idle
<1>3. Spec => []OrderedInv
  BY <1>2, NextOrderedInv, TypeCorrect, PTL DEF Spec
<1>4. TypeInv /\ GateInv /\ DeliveryInv /\ OrderedInv /\ (~DryRun => HealedInv)
        /\ [Next]_vars => [Contract!Next]_(Contract!vars)
  BY StepOfContract DEF ContractInv
<1>. QED
  BY <1>1, <1>3, <1>4, TypeCorrect, GateHolds, DeliveryHolds, HealedHolds, PTL
     DEF Spec, ContractSpec, Contract!Spec
=============================================================================
