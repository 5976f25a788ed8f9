--------------------------- MODULE HealingContract ---------------------------
(* What the healing loop promises to the owner of a cluster and to the readers *)
(* of incidents, whatever transactions, topics and crashes lie in between: it  *)
(* orders only what its score or a person has allowed, changes the cluster no  *)
(* more often than was ordered and repeated, and concludes an incident only    *)
(* upon an order, and as RESOLVED only upon one that was carried out.          *)
EXTENDS Naturals

CONSTANTS Incidents, Actions,
          DryRun     \* what is ordered is reported, and nothing is changed

VARIABLES
  proposed,   \* the incident and the risk of each action
  allowed,    \* the actions that may run
  orders,     \* how often an action was sent to the operator
  repeats,    \* how often the operator began anew what it may have done before
  changes,    \* how often an action has changed the cluster
  incidents   \* how the loop has left each incident

vars == <<proposed, allowed, orders, repeats, changes, incidents>>

Nothing == [risk |-> "none"]

Init ==
  /\ proposed = [a \in Actions |-> Nothing]
  /\ allowed = {} /\ repeats = 0
  /\ orders = [a \in Actions |-> 0]
  /\ changes = [a \in Actions |-> 0]
  /\ incidents = [i \in Incidents |-> "DETECTED"]

Propose(a, i, risk) ==
  /\ proposed[a] = Nothing
  /\ proposed' = [proposed EXCEPT ![a] = [incident |-> i, risk |-> risk]]
  /\ allowed' = IF risk = "low" THEN allowed \cup {a} ELSE allowed
  /\ UNCHANGED <<orders, repeats, changes, incidents>>

Allow(a) ==
  /\ proposed[a] # Nothing
  /\ allowed' = allowed \cup {a}
  /\ UNCHANGED <<proposed, orders, repeats, changes, incidents>>

Order(a) ==
  /\ a \in allowed
  /\ orders' = [orders EXCEPT ![a] = @ + 1]
  /\ UNCHANGED <<proposed, allowed, repeats, changes, incidents>>

Repeat ==
  /\ \E a \in Actions : orders[a] > 0
  /\ repeats' = repeats + 1
  /\ UNCHANGED <<proposed, allowed, orders, changes, incidents>>

Change(a) ==
  /\ ~DryRun
  /\ orders[a] > 0 /\ changes[a] < orders[a] + repeats
  /\ changes' = [changes EXCEPT ![a] = @ + 1]
  /\ UNCHANGED <<proposed, allowed, orders, repeats, incidents>>

CarriedOut(a) == orders[a] > 0 /\ (DryRun \/ changes[a] > 0)

\* A rollback asks for no more than that the action exists.
Conclude(i, a) ==
  /\ proposed[a] # Nothing /\ proposed[a].incident = i
  /\ \E outcome \in {"RESOLVED", "ESCALATED", "ROLLED_BACK"} :
       /\ outcome = "RESOLVED" => CarriedOut(a)
       /\ outcome = "ESCALATED" => orders[a] > 0
       /\ incidents' = [incidents EXCEPT ![i] = outcome]
  /\ UNCHANGED <<proposed, allowed, orders, repeats, changes>>

Next ==
  \/ \E a \in Actions, i \in Incidents :
       \/ \E risk \in {"low", "high"} : Propose(a, i, risk)
       \/ Conclude(i, a)
  \/ \E a \in Actions : Allow(a) \/ Order(a) \/ Change(a)
  \/ Repeat

Spec == Init /\ [][Next]_vars
=============================================================================
