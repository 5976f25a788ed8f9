---------------------------- MODULE HealingLoop ----------------------------
(***************************************************************************)
(* The healing loop: the orchestrator decides on an action (trigger,       *)
(* approve, reject, execute), publishes it on the topic healing-actions,   *)
(* the Kubernetes operator executes it and publishes the outcome, and the  *)
(* orchestrator's listeners write the outcome back.                        *)
(*                                                                         *)
(* Every service method of the orchestrator is one database transaction    *)
(* under READ COMMITTED, without row locks or version columns: it reads    *)
(* its rows first and writes them back when it commits, so of two          *)
(* overlapping transactions the later commit overwrites the earlier.  A    *)
(* transaction is therefore a Begin step, which reads and checks, and a    *)
(* Commit step, which writes; what is published in between is out before   *)
(* the commit.                                                             *)
(*                                                                         *)
(* Of a healing action's columns the model keeps the incident, the side of *)
(* the risk score's threshold and the status, of an incident's the state.  *)
(* The audit timeline (addEvent), the emails and the dashboard events are  *)
(* outputs that nothing reads back, and are left out.                      *)
(***************************************************************************)
EXTENDS Naturals, Sequences, FiniteSets

CONSTANTS
  Incidents,    \* ids of the incidents
  Actions,      \* ids the database may give to healing actions
  Threads,      \* request threads of the orchestrator
  MaxAttempts,  \* MAX_HEALING_ATTEMPTS_PER_INCIDENT
  Ops,          \* the service operations that something calls
  DryRun,       \* the operator runs with its dry-run switch on
  Faults,       \* the kinds of fault that may happen
  MaxFaults,    \* bound: how many faults may happen
  MaxSends      \* bound: no execution starts after so many publications

Kinds == {"send_lost", "rollback", "fetch_error", "operator_crash",
          "result_lost", "result_dropped", "listener_crash"}

OpNames == {"trigger", "approve", "reject", "rollback", "execute", "toggle"}

ASSUME ConstantsAssumption ==
  /\ IsFiniteSet(Threads)
  /\ Threads \cap {"completed", "failed"} = {}
  /\ IsFiniteSet(Actions)
  /\ MaxAttempts \in Nat \ {0}
  /\ DryRun \in BOOLEAN
  /\ Ops \subseteq OpNames
  /\ Faults \subseteq Kinds
  /\ MaxFaults \in Nat
  /\ MaxSends \in Nat

VARIABLES
  healingEnabled, \* the global kill switch
  incidents,      \* table of incidents: the state of each
  actions,        \* table of healing actions, None before the row is inserted
  tx,             \* the transaction each thread is in
  toOperator,     \* uncommitted records of healing-actions, oldest first
  operator,       \* what the operator is doing with the oldest record
  results,        \* unacknowledged records of healing-completed and -failed
  faults,         \* how many faults have happened
  crashes,        \* history: how many of them were crashes of the operator
  humanApproved,  \* history: actions whose approval a person committed
  sent,           \* history: publications of each action
  effects         \* history: how often an action changed the cluster

pipeline == <<toOperator, operator, results>>
history == <<crashes, humanApproved, sent, effects>>
vars == <<healingEnabled, incidents, actions, tx, pipeline, faults, history>>

-----------------------------------------------------------------------------
(* Rows and transactions. *)

Topics == {"completed", "failed"}   \* one listener thread each
Workers == Threads \cup Topics

Status == {"PENDING", "APPROVED", "EXECUTING", "COMPLETED", "ROLLED_BACK",
           "FAILED"}
IncidentState == {"DETECTED", "RESOLVED", "ROLLED_BACK", "ESCALATED"}

ActionRow == [incident : Incidents, risk : {"low", "high"}, status : Status]

None == [status |-> "NONE"]
Idle == [op |-> "idle"]

Decisions == {"approve", "reject", "rollback"}
Tx == {Idle} \cup [op : {"trigger"}, incident : Incidents]
             \cup [op : Decisions \cup {"complete"}, action : Actions]
             \cup [op : {"execute"}, action : Actions, published : BOOLEAN]

Waiting == [phase |-> "waiting"]
OperatorState == {Waiting}
                 \cup [phase : {"executed", "reported"}, ok : BOOLEAN]

Created == {a \in Actions : actions[a] # None}
ActionsOf(i) == {a \in Created : actions[a].incident = i}

Fault(kind) ==
  /\ kind \in Faults
  /\ faults < MaxFaults
  /\ faults' = faults + 1

Init ==
  /\ healingEnabled = TRUE
  /\ incidents = [i \in Incidents |-> "DETECTED"]
  /\ actions = [a \in Actions |-> None]
  /\ tx = [w \in Workers |-> Idle]
  /\ toOperator = <<>>
  /\ operator = Waiting
  /\ results = [t \in Topics |-> <<>>]
  /\ faults = 0
  /\ crashes = 0
  /\ humanApproved = {}
  /\ sent = [a \in Actions |-> 0]
  /\ effects = [a \in Actions |-> 0]

-----------------------------------------------------------------------------
(* The orchestrator's transactions. *)

Begins(w, t) == tx[w] = Idle /\ tx' = [tx EXCEPT ![w] = t]
Ends(w) == tx' = [tx EXCEPT ![w] = Idle]

WriteStatus(a, status) == actions' = [actions EXCEPT ![a].status = status]

\* updateState asks for no transition to be legal.
WriteState(a, state) ==
  incidents' = [incidents EXCEPT ![actions[a].incident] = state]

SetHealingEnabled ==
  /\ "toggle" \in Ops
  /\ healingEnabled' = ~healingEnabled
  /\ UNCHANGED <<incidents, actions, tx, pipeline, faults, history>>

\* Faulty variant, for mutation: the limit is off by one.
TriggerBeginOffByOne(w, i) ==
  /\ "trigger" \in Ops
  /\ healingEnabled
  /\ Cardinality(ActionsOf(i)) <= MaxAttempts
  /\ Begins(w, [op |-> "trigger", incident |-> i])
  /\ UNCHANGED <<healingEnabled, incidents, actions, pipeline, faults,
                 history>>

TriggerBegin(w, i) ==
  /\ "trigger" \in Ops
  /\ healingEnabled
  /\ Cardinality(ActionsOf(i)) < MaxAttempts
  /\ Begins(w, [op |-> "trigger", incident |-> i])
  /\ UNCHANGED <<healingEnabled, incidents, actions, pipeline, faults,
                 history>>

\* Faulty variant: every action approves itself.
InitialStatusUngated(risk) == "APPROVED"

\* Below 40 the action approves itself; from 40 on a person must.
InitialStatus(risk) == IF risk = "low" THEN "APPROVED" ELSE "PENDING"

TriggerCommit(w, a, risk) ==
  /\ tx[w].op = "trigger"
  /\ a \notin Created
  /\ actions' = [actions EXCEPT ![a] =
       [incident |-> tx[w].incident, risk |-> risk,
        status |-> InitialStatus(risk)]]
  /\ Ends(w)
  /\ UNCHANGED <<healingEnabled, incidents, pipeline, faults, history>>

\* approveAction, rejectAction and rollbackAction do not look at the status.
DecideBegin(w, op, a) ==
  /\ op \in Ops
  /\ a \in Created
  /\ Begins(w, [op |-> op, action |-> a])
  /\ UNCHANGED <<healingEnabled, incidents, actions, pipeline, faults,
                 history>>

ApproveCommit(w) ==
  /\ tx[w].op = "approve"
  /\ WriteStatus(tx[w].action, "APPROVED")
  /\ humanApproved' = humanApproved \cup {tx[w].action}
  /\ Ends(w)
  /\ UNCHANGED <<healingEnabled, incidents, pipeline, faults, sent, effects,
                 crashes>>

\* The incident is left as it is, "open for human investigation".
RejectCommit(w) ==
  /\ tx[w].op = "reject"
  /\ WriteStatus(tx[w].action, "FAILED")
  /\ Ends(w)
  /\ UNCHANGED <<healingEnabled, incidents, pipeline, faults, humanApproved,
                 sent, effects, crashes>>

\* Faulty variant: the incident is written in a transaction of its own.
RollbackCommitHalf(w) ==
  /\ tx[w].op = "rollback"
  /\ WriteState(tx[w].action, "ROLLED_BACK")
  /\ Ends(w)
  /\ UNCHANGED <<healingEnabled, actions, pipeline, faults, history>>

RollbackCommit(w) ==
  /\ tx[w].op = "rollback"
  /\ WriteStatus(tx[w].action, "ROLLED_BACK")
  /\ WriteState(tx[w].action, "ROLLED_BACK")
  /\ Ends(w)
  /\ UNCHANGED <<healingEnabled, pipeline, faults, history>>

\* Faulty variant: only what runs or is over is kept from running.
ExecuteGuardWeak(a) == actions[a].status \in {"PENDING", "APPROVED"}

ExecuteGuard(a) == actions[a].status = "APPROVED"

ExecuteBegin(w, a) ==
  /\ "execute" \in Ops
  /\ sent[a] < MaxSends
  /\ a \in Created
  /\ ExecuteGuard(a)
  /\ Begins(w, [op |-> "execute", action |-> a, published |-> FALSE])
  /\ UNCHANGED <<healingEnabled, incidents, actions, pipeline, faults,
                 history>>

\* The record leaves before the transaction commits, and a send that fails
\* only logs, so the method goes on as if it had been sent.
ExecutePublish(w) ==
  /\ tx[w].op = "execute"
  /\ ~tx[w].published
  /\ tx' = [tx EXCEPT ![w].published = TRUE]
  /\ \/ /\ toOperator' = Append(toOperator, tx[w].action)
        /\ sent' = [sent EXCEPT ![tx[w].action] = @ + 1]
        /\ UNCHANGED faults
     \/ /\ Fault("send_lost")
        /\ UNCHANGED <<toOperator, sent>>
  /\ UNCHANGED <<healingEnabled, incidents, actions, operator, results,
                 humanApproved, effects, crashes>>

ExecuteCommit(w) ==
  /\ tx[w].op = "execute"
  /\ tx[w].published
  /\ WriteStatus(tx[w].action, "EXECUTING")
  /\ Ends(w)
  /\ UNCHANGED <<healingEnabled, incidents, pipeline, faults, history>>

\* A request's transaction rolls back: an exception, or the process dies.
Abort(w) ==
  /\ tx[w] # Idle
  /\ Fault("rollback")
  /\ Ends(w)
  /\ UNCHANGED <<healingEnabled, incidents, actions, pipeline, history>>

-----------------------------------------------------------------------------
(* The orchestrator's listeners on healing-completed and healing-failed. *)

CompleteBegin(topic) ==
  /\ results[topic] # <<>>
  /\ Begins(topic, [op |-> "complete", action |-> Head(results[topic])])
  /\ UNCHANGED <<healingEnabled, incidents, actions, pipeline, faults,
                 history>>

Acknowledge(topic) == results' = [results EXCEPT ![topic] = Tail(@)]

\* completeAction does not look at the status either.  The offset goes after
\* the transaction: a crash between the two delivers the record again.
CompleteCommit(topic) ==
  /\ tx[topic].op = "complete"
  /\ IF topic = "completed"
     THEN /\ WriteStatus(tx[topic].action, "COMPLETED")
          /\ WriteState(tx[topic].action, "RESOLVED")
     ELSE /\ WriteStatus(tx[topic].action, "FAILED")
          /\ WriteState(tx[topic].action, "ESCALATED")
  /\ Ends(topic)
  /\ \/ Acknowledge(topic) /\ UNCHANGED faults
     \/ Fault("listener_crash") /\ UNCHANGED results
  /\ UNCHANGED <<healingEnabled, toOperator, operator, history>>

\* The listener catches every exception, so the record counts as handled.
CompleteFails(topic) ==
  /\ tx[topic].op = "complete"
  /\ Fault("result_dropped")
  /\ Acknowledge(topic)
  /\ Ends(topic)
  /\ UNCHANGED <<healingEnabled, incidents, actions, toOperator, operator,
                 history>>

-----------------------------------------------------------------------------
(* The operator: execute, report, then commit the record. *)

\* The guards may refuse the action, and a dry run reports success as well.
OperatorExecute(ok) ==
  /\ operator = Waiting
  /\ toOperator # <<>>
  /\ operator' = [phase |-> "executed", ok |-> ok]
  /\ effects' = IF ok /\ ~DryRun
                THEN [effects EXCEPT ![Head(toOperator)] = @ + 1]
                ELSE effects
  /\ UNCHANGED <<healingEnabled, incidents, actions, tx, toOperator, results,
                 faults, humanApproved, sent, crashes>>

\* Faulty variant: a refused action is reported as completed.
ResultTopicAlways(ok) == "completed"

ResultTopic(ok) == IF ok THEN "completed" ELSE "failed"

\* A result that cannot be published is only logged.
OperatorReport ==
  /\ operator.phase = "executed"
  /\ operator' = [operator EXCEPT !.phase = "reported"]
  /\ \/ /\ results' = [results EXCEPT ![ResultTopic(operator.ok)] =
                         Append(@, Head(toOperator))]
        /\ UNCHANGED faults
     \/ Fault("result_lost") /\ UNCHANGED results
  /\ UNCHANGED <<healingEnabled, incidents, actions, tx, toOperator, history>>

\* Faulty variant: the record is never committed.
OperatorCommitForgets ==
  /\ operator.phase = "reported"
  /\ operator' = Waiting
  /\ UNCHANGED <<healingEnabled, incidents, actions, tx, toOperator, results,
                 faults, history>>

OperatorCommit ==
  /\ operator.phase = "reported"
  /\ operator' = Waiting
  /\ toOperator' = Tail(toOperator)
  /\ UNCHANGED <<healingEnabled, incidents, actions, tx, results, faults,
                 history>>

\* Faulty variant: the record is committed before it is handled.
OperatorCrashLoses ==
  /\ operator # Waiting
  /\ Fault("operator_crash")
  /\ crashes' = crashes + 1
  /\ operator' = Waiting
  /\ toOperator' = Tail(toOperator)
  /\ UNCHANGED <<healingEnabled, incidents, actions, tx, results,
                 humanApproved, sent, effects>>

\* The oldest record is not committed yet, so the next run starts with it.
OperatorCrash ==
  /\ operator # Waiting
  /\ Fault("operator_crash")
  /\ crashes' = crashes + 1
  /\ operator' = Waiting
  /\ UNCHANGED <<healingEnabled, incidents, actions, tx, toOperator, results,
                 humanApproved, sent, effects>>

\* A poll that returns an error skips the records that came with it; the
\* commit of a later record then passes over them.
OperatorFetchError ==
  /\ operator = Waiting
  /\ toOperator # <<>>
  /\ Fault("fetch_error")
  /\ toOperator' = Tail(toOperator)
  /\ UNCHANGED <<healingEnabled, incidents, actions, tx, operator, results,
                 history>>

-----------------------------------------------------------------------------

Commit(w) == \/ \E a \in Actions, risk \in {"low", "high"} :
                  TriggerCommit(w, a, risk)
             \/ ApproveCommit(w)
             \/ RejectCommit(w)
             \/ RollbackCommit(w)
             \/ ExecuteCommit(w)

Request(w) == \/ \E i \in Incidents : TriggerBegin(w, i)
              \/ \E a \in Actions, op \in Decisions :
                   DecideBegin(w, op, a)
              \/ \E a \in Actions : ExecuteBegin(w, a)

Listen(topic) == CompleteBegin(topic) \/ CompleteCommit(topic)

Operate == \/ \E ok \in BOOLEAN : OperatorExecute(ok)
           \/ OperatorReport
           \/ OperatorCommit

Next == \/ SetHealingEnabled
        \/ \E w \in Threads :
             Request(w) \/ ExecutePublish(w) \/ Commit(w) \/ Abort(w)
        \/ \E topic \in Topics : Listen(topic) \/ CompleteFails(topic)
        \/ Operate
        \/ OperatorCrash
        \/ OperatorFetchError

Spec == Init /\ [][Next]_vars

\* The pollers run for as long as their process does, and a transaction that
\* has begun finishes.  Nobody is obliged to send a request, and no fault has
\* to happen.
Fairness ==
  /\ WF_vars(Operate)
  /\ \A topic \in Topics : WF_vars(Listen(topic))
  /\ \A w \in Threads : WF_vars(ExecutePublish(w) \/ Commit(w))

FairSpec == Spec /\ Fairness
-----------------------------------------------------------------------------
(* What the loop promises. *)

\* Every variable has its type.
TypeOK ==
  /\ healingEnabled \in BOOLEAN
  /\ incidents \in [Incidents -> IncidentState]
  /\ actions \in [Actions -> ActionRow \cup {None}]
  /\ tx \in [Workers -> Tx]
  /\ toOperator \in Seq(Actions)
  /\ operator \in OperatorState
  /\ results \in [Topics -> Seq(Actions)]
  /\ faults \in 0..MaxFaults
  /\ crashes \in Nat
  /\ humanApproved \subseteq Actions
  /\ sent \in [Actions -> Nat]
  /\ effects \in [Actions -> Nat]

\* An action scored 40 or more changes the cluster only after a person's
\* approval was committed, whatever overlaps, is lost or is delivered twice
\* (determineInitialStatus and the guard of executeAction).
HighRiskNeedsHuman ==
  \A a \in Created :
    actions[a].risk = "high" /\ effects[a] > 0 => a \in humanApproved

\* The count-then-insert of triggerHealing is not atomic, but each thread can
\* overshoot the limit by at most one action, however often they all try.
AttemptsBounded ==
  \A i \in Incidents :
    Cardinality(ActionsOf(i)) <= MaxAttempts - 1 + Cardinality(Threads)

\* The loop marks an incident RESOLVED only if the operator really changed the
\* cluster for one of that incident's actions (completeAction, reportSuccess).
ResolvedWasHealed ==
  ~DryRun => \A i \in Incidents :
    incidents[i] = "RESOLVED" => \E a \in ActionsOf(i) : effects[a] > 0

\* At-least-once delivery: an action changes the cluster at most once for each
\* publication, and once more for each crash of the operator before it commits
\* the record (CommitRecords after handleMessage).
EffectsWithinDeliveries ==
  \A a \in Actions : effects[a] <= sent[a] + crashes

\* No step moves an incident unless it leaves one of that incident's actions
\* with the matching outcome: the two rows of completeAction and of
\* rollbackAction change in one transaction, and a rejection moves neither.
IncidentFollowsAction ==
  [][\A i \in Incidents :
       incidents'[i] # incidents[i] =>
         \E a \in ActionsOf(i) :
           <<incidents'[i], actions'[a].status>> \in
             {<<"RESOLVED", "COMPLETED">>, <<"ESCALATED", "FAILED">>,
              <<"ROLLED_BACK", "ROLLED_BACK">>}]_vars

Unreported(a) ==
  \E k \in DOMAIN toOperator :
    toOperator[k] = a /\ (k = 1 => operator.phase # "reported")
Concluding(a) ==
  \E topic \in Topics : tx[topic].op = "complete" /\ tx[topic].action = a

\* A published action is concluded, through crashes of the operator and of the
\* listeners: its outcome is taken up, and then written (manual commits after
\* the handling, on both sides).
PublishedIsConcluded ==
  \A a \in Actions :
    /\ Unreported(a) ~> Concluding(a)
    /\ Concluding(a) ~> actions[a].status \in {"COMPLETED", "FAILED"}

\* What each action was proposed for, and what the gate lets through.
Proposed ==
  [a \in Actions |->
     IF actions[a] = None THEN [risk |-> "none"]
     ELSE [incident |-> actions[a].incident, risk |-> actions[a].risk]]
LetThrough == humanApproved \cup {a \in Created : actions[a].risk = "low"}

\* The loop implements its contract: through overlapping transactions, two topics
\* and all faults, it orders what is allowed, changes the cluster as often as was
\* ordered or repeated, and concludes incidents by what was carried out.
Contract == INSTANCE HealingContract WITH
  proposed <- Proposed, allowed <- LetThrough,
  orders <- sent, repeats <- crashes, changes <- effects
ContractSpec == Contract!Spec
=============================================================================
