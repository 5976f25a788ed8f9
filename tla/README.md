# A TLA+ model of AstraWatch

AstraWatch collects telemetry from hosts, looks for anomalies, opens incidents
and heals them by acting on a Kubernetes cluster. The repository also carries
the tool its frontend is designed with, `.agents/skills/impeccable`, whose live
mode lets a person edit a running page while coding agents write the source
files. This directory holds TLA+ modules translated from the source of the
services and of the live mode, the TLC configurations that check them on small
instances, and TLAPS proofs of the properties that matter most for every size.

Statements about the code name files under `src/services/` or, for the live
mode, under `src/.agents/skills/impeccable/scripts/`; `PROJECT.json` maps each
definition to the lines it models.

## The system and its parts

| Part | Where | State it keeps | What it does to it |
| --- | --- | --- | --- |
| Agent | `cxx-agent` | a ring buffer in a mapped file, the gRPC channel, a batch counter | collects a batch per interval, drains the buffer, sends, buffers what cannot be sent |
| Collector: ingestion | `collector/internal/ingest`, `produce`, `validate`, `enrich`, `ratelimit` | bounded queues in memory, deduplication keys in Redis, buckets of the limiter | answers a request, validates, queues, produces to Kafka |
| Collector: storage | `collector/internal/consumer`, `query`, `catalog` | offsets of the consumer group, rows in ClickHouse | inserts batches, sends what fails to dead letters |
| Analyzer | `analyzer` | models, mined log patterns | publishes anomalies |
| Orchestrator: incidents | `IncidentCommandService`, `IncidentController`, `AnomalyEventConsumer`, `AlertRuleEvaluator` | rows of incidents, deduplication keys in Redis | opens, moves, assigns, escalates, resolves |
| Orchestrator: healing | `HealingOrchestrationService`, `HealingController`, `HealingEventConsumer` | rows of healing actions, the kill switch | trigger, approve, reject, execute, roll back, conclude |
| Orchestrator: accounts and the rest | `AuthService`, `NotificationService`, `RunbookService`, `GitHubIntegrationService`, ... | rows | requests that read and write rows |
| Operator | `operator/internal/controller` | objects of the cluster, offsets of the consumer group | executes healing actions, reconciles auto-healing rules |
| Realtime gateway | `realtime` | a cache of events, rooms of sockets, API keys | deduplicates and broadcasts events, replays |
| Billing | `payment-service` | subscriptions and customers | Stripe's webhooks, the plan of a user |
| Live mode: sessions | `live-server.mjs`, `live/session-store.mjs`, `live-poll.mjs`, `live-browser.js` | a journal per session on disk, a queue with leases in memory, the page's state | asks agents for variants, shows them, accepts or discards one |
| Live mode: manual edits | `live/manual-apply.mjs`, `live-commit-manual-edits.mjs`, `live/manual-edit-routes.mjs` | a buffer of edits and a transaction on disk, events with a timeout in memory | has agents write edits of texts into the sources, verifies, repairs, rolls back |
| Live mode: source lock | `live/source-lock.mjs` | a lock file for each source file | keeps two processes from rewriting one file at a time |
| Frontend, infrastructure, telemetry generator | `frontend`, `infra`, `telemetry-gen` | none of the system's own | views, deployment, sample data |

How they interact:

* agent -> collector by gRPC (`SendMetricBatch`, `StreamMetrics`); a batch that
  cannot be sent goes to the ring buffer;
* collector -> Kafka (`raw-metrics`, `raw-logs`, `raw-traces`) -> analyzer and
  the collector's own ClickHouse consumer;
* analyzer -> Kafka (`anomaly-detected`) -> orchestrator, which opens incidents;
* orchestrator -> Kafka (`healing-actions`) -> operator -> Kafka
  (`healing-completed`, `healing-failed`) -> orchestrator: the healing loop;
* orchestrator, analyzer, collector -> Kafka -> realtime gateway -> browsers;
* Stripe -> billing -> orchestrator by an internal request that is not retried;
* page -> live server by POST, live server -> page by server-sent events; agents
  -> live server by long polls and replies; agents and server -> source files.

### What is hard, and what makes a part correct

* **Healing loop.** Requests of several people, two listeners and the operator
  work on the same rows. Service methods are transactions without locks; records
  are published before the transaction commits; every consumer delivers at least
  once and some drop records. It is correct when nothing risky happens without a
  person, when RESOLVED means that something was done, when what was rejected is
  not done, when attempts are limited, and when every action ends.
* **Ring buffer.** A file that outlives the process, written store by store. It
  is correct when it is a bounded queue: what is popped is what was pushed, in
  order, through wrap-around and restarts.
* **Send loop.** Correct when every batch is sent, buffered or counted as
  dropped, and when a connection that comes back is used.
* **Ingestion.** Keys are recorded before the work is done, and requests are
  answered before the records are produced. It is correct when an accepted batch
  is produced exactly once and a refused one can be sent again.
* **Incidents.** The state machine is consulted in one transaction and the row
  written in another, and other operations write it without consulting. It is
  correct when terminal states stay and only the machine's transitions occur.
* **Anomaly intake.** The key is set before the incident is created, and every
  exception is swallowed. It is correct when each anomaly opens one incident.
* **Realtime gateway.** Correct when an event reaches the rooms of its tenant
  once, and only those, and when a replay shows what was missed.
* **Billing.** Webhooks come twice, late and out of order, and are always
  answered with 200. It is correct when the plan follows the latest event.

* **Live sessions.** One event is awaited over while others arrive, leases expire
  under agents that still work, pages reload and servers restart between any two
  steps. Correct when a decision of the user survives all that, is never undone
  by something late, and is carried out, and when who waits for variants gets
  them.
* **Manual edits.** An agent that may be slow, wrong or gone writes files that
  the server has to judge. Correct when the sources end up with the edits that
  were reported as applied and no others.
* **Source lock.** Correct when two processes are never in one file together.

`PROJECT.json` lists under `hazards` each such place with its line and the
properties that cover it, or the reason that none does yet.

## Plan

The order follows what would hurt most if it went wrong: what acts on a cluster
first, then what may lose data, then what people look at.

| | Modules | What | State |
| --- | --- | --- | --- |
| 1 | `HealingLoop`, `HealingContract`, `HealingLoopProofs` | the loop from a trigger to its outcome, and what it promises as a whole | done, proved |
| 2 | `BatchQueue`, `RingBuffer`, `RingBufferProofs` | the bounded queue, and the mapped file that implements it | done, proved |
| 3 | `Agent`, `AgentProofs` | the send loop over `BatchQueue` | checked, proved |
| 4 | `Ingest`, `IngestProofs` | identifiers, bounded channel, producers, ClickHouse consumer | checked, proved |
| 5 | `Incidents`, `IncidentsProofs` | anomaly intake, and every writer of an incident | done, proved |
| 6 | `Gateway`, `GatewayProofs` | deduplication, cache, replay | checked, proved |
| 7 | `LiveSession`, `LiveSessionProofs` | a variant session: journal, queue, agents, page | checked, proved |
| 8 | `ManualEdits`, `ManualEditsProofs` | edits of texts from the save to the sources | checked, proved |
| 9 | `SourceLock`, proofs in `LiveSessionProofs` | the lock file, call by call | checked, proved |
| 10 | `Billing` | webhooks out of order, the lazily created customer, the plan | to do |
| 11 | `OperatorRules` | reconciliation of auto-healing rules with its two writes | to do |
| 12 | `Rules` | pure operators against references: risk score, guards of the operator, on-call rotation, breach of an alert rule, rate limit, retry delay | to do |
| 13 | `AlertRules`, `IdempotencyFilter` | evaluation by several replicas; select, process, insert | to do |
| 14 | `Incidents` with `HealingLoop` | the two modules over one table; the pull request that sets a healing action to EXECUTING | to do |
| 15 | accounts, notifications, runbooks | check-then-act on tables | to do |

Compositions and abstract specifications: `RingBuffer` implements `BatchQueue`
(checked and proved), and `Agent` uses `BatchQueue` through `INSTANCE`, so the two
together say that the agent works with the buffer it really has. `HealingLoop`
implements `HealingContract` (checked and proved), which is all that a module about
the owner of a cluster or the reader of an incident needs to know of it. `Incidents`
is written so that `HealingLoop` can take the place of its "healing" command.

Every invariant and every action property that a passing run checks is a theorem for
all values of the constants. The liveness properties (`PublishedIsConcluded`,
`Drained`, `Delivered`, `Processed`, `EveryCommitEnds`, and `DecisionAnswered` and
`GoAnswered` of the live sessions) stay with the model checker.

The set of runs is kept small: a run is a question, and a module whose questions
are settled by theorems gives its run up to a module that has none yet.

## HealingLoop

### Correspondence to the code

| Module | Code |
| --- | --- |
| `incidents`, `actions` | tables `incidents` (the state) and `healing_actions` (incident, side of the risk threshold, status) |
| `tx[w]` | the transaction that a request thread or a listener is in |
| `healingEnabled` | the kill switch, `HealingOrchestrationService.setHealingEnabled` |
| `toOperator`, `results` | records of `healing-actions`, and of `healing-completed` and `healing-failed`, not committed by their consumers |
| `operator` | where `HealingConsumer.Start` is with the oldest record |
| `TriggerBegin`, `TriggerCommit` | `triggerHealing`: switch, count of attempts; insertion |
| `DecideBegin`, `ApproveCommit`, `RejectCommit`, `RollbackCommit` | `approveAction`, `rejectAction`, `rollbackAction` |
| `ExecuteBegin`, `ExecutePublish`, `ExecuteCommit` | `executeAction`: status check; publication; EXECUTING |
| `CompleteBegin`, `CompleteCommit`, `CompleteFails` | the listeners of `HealingEventConsumer` and `completeAction` |
| `OperatorExecute`, `OperatorReport`, `OperatorCommit` | `handleMessage`, `publishResult`, `CommitRecords` |
| `OperatorCrash`, `OperatorFetchError`, `Abort`, the branches with `Fault` | what the code does when a call fails or a process dies |

A service method reads its rows when it begins and writes them when it commits.
Hibernate writes all columns of a changed row, the tables have no version column
and the isolation level is the database's default, so the later of two
overlapping commits wins; a method that only logs a failed publication goes on
as if it had been sent. Between `Begin` and `Commit` anything may happen.

Abstracted: parameters, emails, timeline and dashboard events (written, never
read back), the columns `approvedBy`, `completedAt` and `resolvedAt`, and the
arithmetic of the risk score, of which only the side of the threshold of 40
matters. `completeAction` reads the action and its incident one after the other;
the model takes the two reads as one. What the operator's guards decide is a
free choice of success or refusal.

The histories `humanApproved`, `sent`, `effects` and `crashes` are not in the
code. They record what happened so that properties can speak of it, and no guard
reads them but `sent`, whose bound `MaxSends` ends the model.

`HealingContract` is the loop without its transactions, topics and listeners: an
action is proposed, allowed (by its score or by a person), ordered from the operator,
carried out, and its incident concluded. It says in one place what the loop may
do to the world: order only what is allowed, change the cluster at most as often as
was ordered and begun anew, escalate an incident only upon an order, and resolve it
only upon one that was carried out; only a rollback asks for nothing but an action.
`ContractSpec` says that `HealingLoop` implements it: `Proposed` and `LetThrough` are
what the tables and the history of approvals say, the other variables are
histories of the loop, and statuses, transactions and records do not appear in it.

### Runs

| Run | Bounds | Shows |
| --- | --- | --- |
| `overlap` | 1 incident, 1 action, 2 threads, the kill switch at any time, up to 2 faults of 7 kinds | every interleaving of all operations on one action |
| `delivery` | 3 actions of an incident, 1 thread, limit 2, up to 2 crashes, fairness | the limit holds where nothing overlaps, and a published action is concluded |

Two threads are enough for every lost update, since one overwrites what the
other wrote; a third only makes the overshoot of the limit grow, which the
theorem covers for every number. Two faults allow a fault during the recovery
from a fault. One publication for each action keeps the runs small: the code
allows more, and `EffectsWithinDeliveries` counts them. Actions, threads and
incidents are interchangeable in the safety runs and symmetry is used there; the
runs with liveness use none.

The actions of `delivery` are in the pipeline together; how far two threads
overshoot the limit is the theorem `AttemptsAreBounded`, for any number of them.

What the model also allows, and what a reader of the documents would not expect:
nothing calls `executeAction` outside the tests, so with only the operations that
controllers and listeners call (`Ops` without `execute`) no approved action is
ever executed, although `HealingController.java:119` tells the approver that it
will be; two triggers at once exceed the limit of three attempts (by what
`AttemptsBounded` says and no more); a rejection does not stop an action that is
published already; the commit of `executeAction` may come after the outcome and
put EXECUTING over it, for good; the kill switch is read by `triggerHealing`
alone and stops no action that exists; a dry run of the operator is recorded as
COMPLETED and resolves the incident (hence `~DryRun` in `ResolvedWasHealed`).

### Fairness

`FairSpec` asks for weak fairness of the operator's poll loop, of each listener
and of each transaction that has begun: pollers run as long as their process
does, and a request's thread runs to its end. It asks nothing of requests and
faults. `delivery` uses crashes only, because the other faults do lose actions:
that a skipped poll, a result that cannot be published or a listener that
swallows an exception leaves an action without an end is what the code does.

### Proofs

`HealingLoopProofs` proves, for any sets of incidents, actions and threads, any
limit and any number of faults:

* `TypesHold`, by an invariant that adds to the types that transactions and
  records only name rows that exist, and that a queue is not empty while its
  oldest record is handled (`TypeInv`);
* `AttemptsAreBounded`: the count alone is not inductive, because a trigger that
  has passed the check is not in the table yet. `AttemptInv` bounds the rows and
  the triggers under way together: a new trigger starts only below the limit,
  when there can be no more triggers under way than threads;
* `IncidentsFollow`: an incident is written only together with its action;
* `HighRiskIsGated`: `GateInv` says that an action that nobody approved is
  nowhere on its way to the cluster, neither by its status nor in a transaction
  nor in a record, and `Persists` that what is approved stays approved;
* `ResolvedIsHealed`: `HealedInv` follows success from the operator through the
  records and the listener to the incident.

* `EffectsAreDelivered`: what counts is not only what the operator has done but what
  it is sure to do, so `DeliveryInv` adds to the effects of an action the records of
  it that wait in the operator's queue, and bounds both together by the records
  sent and the crashes. A record that is handled is still the oldest of the queue and
  counts only until its effect (`Untaken`);
* `ImplementsContract`: every step is a step of `HealingContract` or nothing to it.
  This needs the invariants of the gate, of the deliveries and of success together,
  and one more: whatever waits for the operator, and whatever its results and the
  listeners name, was ordered (`OrderedInv`). An order is allowed by `GateInv`; a change
  is within what was ordered and repeated because the record it comes from was still
  counted as waiting (`DeliveryInv`); a conclusion follows an order (`OrderedInv`), and
  as RESOLVED one that was carried out (`HealedInv`, or a dry run, for which
  `ResolvedWasHealed` says nothing).

They rest on `ConstantsAssumption` alone. `PublishedIsConcluded`, a liveness property
under fairness, is only model-checked.

## BatchQueue and RingBuffer

`BatchQueue` is what the agent's local buffer promises: a first-in first-out
queue, bounded in bytes, that refuses an entry that is larger than a quarter of
the buffer or than what is free, and that a restart keeps or empties.
`RingBuffer` is `ring_buffer.cpp` down to its stores: `write_offset`,
`read_offset` and `count` are the header, `data` the mapped region cell by cell,
and `push` and `pop` are three steps each (length, batch, count), because the
mapping outlives a process that dies between them. `op` is the operation in
progress, `Restart` the constructor on the file of the last process, `LooksNew`
its test for a file to initialize. A cell is "the j-th byte of a length" or "of a
batch", so a byte that is read from the wrong place is noticed; a length read
from other bytes is any length.

`entries`, `start` and `used` are histories: what was accepted and not popped,
and where it lies. `QueueSpec`, the refinement, maps the queue to them.

The run `ring_fifo` takes entries of two and three bytes (the prefix included) in
a region of twelve. They fill it exactly, at every offset, so the run reaches the
full buffer with equal offsets, entries and prefixes split at the end, and every
misalignment of the one against the other. The process may die between
operations and just before it stores a length.

Deaths between the other stores are in the model (`CrashPoints` admits them one
by one) but in no run: the buffer makes no promise about them that the code
keeps. One that dies between a length and its batch leaves offsets and count
that disagree, and what is popped from there on may be anything. Not modelled
besides: a change of the capacity between two runs of the agent, and
`oldest_ts`, which nothing reads.

### Proofs

`RingBufferProofs` proves the four properties of the run for any capacity, any
batches and any number of restarts, as long as a process dies only where no offset
has moved yet (`Untorn`, an assumption of each theorem); beyond that they rest on
`SizesAssumption` and `CrashesAssumption`.

- The invariant `RingInv` has three parts. `Layout`: the entries lie one after the
  other from `start` on, the first at distance 0, each where the one before it ends,
  the last ending at `used`. That chain is what keeps sums over the entries, and
  with them induction, out of the proof. `Whole`: at its distance each entry has its
  length and its batch. `Operation`: where the header is at each stage of a push or
  a pop, and what has been stored of the entry that is being pushed.
- `View` looks at the data region by the distance from `start`. `StoredView` says that
  a copy of n cells at a distance changes exactly the n cells there, whether or not
  it wraps, and `ViewFurther` what the view is after a pop: all reasoning about the
  remainder is in these, `PlaceFurther` and `Remainder`.
- `FreeIsFree`: equal offsets mean empty or full, and `Layout` tells which by `count`,
  because entries are not empty. `EntriesStay` is `Whole`. `LengthRead` and `BatchRead`
  are why pop finds what push stored. `ImplementsQueue` maps the stage that counts
  to the step of the queue and every other to a stutter; `QueueGrows` and
  `QueueShrinks` are the two that are not.

## Agent

`phase` is where the loop of `main.cpp` is; `channel_`, `stub_` and
`collector_connected` are the client's; `buffer`, `used` and `answer` are those
of `BatchQueue`, whose operations the loop calls.

| Actions | Code |
| --- | --- |
| `Connect`, `HealthCheck`, `StartOffline` | the connection loop of `main`, `connect` and `health_check` |
| `Build`, `Sent`, `SendFails`, `Save`, `Evict`, `SaveAgain` | a turn of the main loop, `send_batch` |
| `DrainBegin`, `DrainNext`, `DrainEmpty`, `DrainFinish` | `stream_backlog` |
| `Receive` and the success of `Sent` | `StreamMetrics` and `SendMetricBatch` of the collector |
| `CollectorDown`, `StreamBreaks`, `Stop`, `Kill`, `Start` | an outage, a broken call, a signal, a death, the next process |

A batch is its number, and the last number stands for every later one, so the
loop goes on for ever while the state space stays finite. The waiting time before
a retry is left out: with no clock, a turn may come at any time.

`agent_loop` sends six batches of different sizes past a buffer that they
overfill, with up to three faults of six kinds: three are enough for an outage,
a second failure during the replay, and a death. `Accounted` says that nothing
disappears without a cause that is on record, `BacklogInOrder` that a replay
never goes back, `Drained` that a client that has its stub empties the buffer.
The fairness is that of a loop that runs and of a server that reads its streams.

The run `agent_reconnect` shows a disagreement with what the repository says: an
agent that is started while the collector is away keeps a channel without a stub
and buffers for ever. What else the model allows: all messages of a replay are
filled into one object that is never cleared (`backlog_batch`), so the second one
repeats the first, contrary to what `ring_buffer_test.cpp:39` expects of a popped
batch; after an outage the first batch that goes out is a live one, and
the backlog follows in the next turn; where an evicted batch is smaller than the
new one, both are lost; a batch popped for a stream that is closed already is
lost; points the collector refuses count as sent.

### Proofs

`AgentProofs` proves three properties for any number of batches, any sizes, any
buffer and any faults. They rest on `AgentAssumption`.

- `NoneDisappears`: `Accounted` as it stands is inductive only together with
  `Types` (the number of the last batch is within bounds, no message is empty). The
  argument of `Whereabouts` is that no step takes a batch out of the places where a
  batch can be without recording it in another, and that `Build` alone makes a new
  one, in the loop's hand.
- `BacklogStaysInOrder`: `OrderInv` is a chain: what was replayed is not newer than
  the newest batch of any message on the wire, the messages ascend by their newest
  batches, none is newer than anything in the buffer, the buffer ascends, and
  nothing is newer than `seq`. A batch that failed is put at the end of the buffer,
  which keeps it in order because only the newest batch is in the loop's hand.
- `TypesHold`: that `used` stays between zero and the capacity is inductive only as
  part of a stronger fact: `used` is the sum of the sizes in the buffer. The sum is stated by
  its partial sums, a function that adds one batch at a time, so that no induction
  over the buffer is needed: the lemmas say what an append and a pop at the head do
  to the partial sums, and that the sum of what is left is at most the sum. `LoopTypes`
  adds that a stream is open only while the loop drains, and that an attempt is made
  only below the limit of attempts.

`Drained` is a liveness property and is only model-checked.

## Ingest

From the client to ClickHouse. `headers` and `sameValue` say which of the two
identifiers a client sends and whether they are equal (both are kept under one
prefix in Redis); `handler[h]` is a request on its way through the two checks to
the channel; `batchChan` and `worker` are the pool; `topic`, `position`, `marked`
and `committed` the topic and the offsets of the consumer group, where the client
library commits what was polled before the last poll; `fetched` the records of a
poll on their way to ClickHouse.

| Actions | Code |
| --- | --- |
| `Request` | a client: a first attempt, a retry after 429 or an error, or one after a timeout while the first is still under way |
| `CheckKey`, `CheckBatchId` | `IsDuplicate` in `producer.go`, called twice by the handler |
| `Enqueue`, `Busy` | the `select` on the channel: 202 or 429 |
| `Take`, `ProducePoint` | the workers and `ProduceMetrics`, point by point |
| `Poll`, `Insert`, `AutoCommit` | the loop of `consumer.go` with its dead letters |
| `Expire`, `Crash` | five minutes pass; the process ends, by a shutdown or a crash |

`ingest_path` has two batches of two points, one with each combination of the
identifiers and one without, a channel for one batch, one worker, two handlers,
two requests for each batch and one fault. Two handlers are enough for two
requests of one batch to overlap, a channel of one for the full channel, two
points for a batch that is half produced, and one fault meets every one of these
situations. `enqueued`, `forgotten` and `lost` are histories: `EnqueuedOnce`
counts an entry into the channel against every check that Redis could not make,
`Delivered` subtracts what a fault took. The run assumes that the goroutines of a
living process run, and nothing of clients or of the commit timer.

`ingest_retry` shows the disagreement: the identifiers are recorded before the
channel is tried, so the retry the code asks for is answered as a duplicate, and
the batch is dropped with an answer the client takes for a success.

The rate limit is one more cause of 429 and has no action of its own; logs and
traces go the same way through channels of their own. Decoding, validation and
enrichment concern one request alone.

### Proofs

`IngestProofs` proves the three invariants of the run for any number of batches,
points, handlers, workers, requests and faults. They rest on `IngestAssumption`
alone, of which the finiteness of `Handlers` matters: the requests past a check
are counted.

- `TypesHold`: the channel keeps its capacity and the offsets their order. The
  invariant `Types` is inductive as it stands, one lemma per actor.
- `CommittedPassesNothing`: `CommittedIsDealtWith` says nothing of the records
  between the committed offset and the position, so it is not inductive.
  `OffsetInv` adds that a marked record is stored, parked or lost on record, and
  that a polled one is that or still in memory. A poll marks records only when
  nothing is in memory any more, which is what the order "poll, insert, poll" of
  the loop is worth.
- `IdentifiersLetInOnce`: for each identifier a batch carries, `Once` weighs the
  entries into the channel, the requests past the check of that identifier and
  not yet at the channel, and one more while Redis does not hold its value:
  together at most one and the number of times Redis failed or forgot. `SETNX`
  moves the unit from "not held" to "past the check" in one step; a look-up and a
  store in two steps (`CheckKeyLate`) would move it twice. `ValuesApart` is where
  the prefix shared by both identifiers matters: two batches never share a value,
  though the two headers of one batch may.

`Delivered` is a liveness property and is only model-checked.

## Incidents

The table of incidents and everyone who writes it: the consumer of
`anomaly-detected`, requests, and the conclusions of the healing loop. `row` is
the table, `timeline` the `state_changed` events, `session[s]` a command between
its read and its commit, `intake[c]` a listener between two of its calls (Redis,
the database, creation, the diagnosis, the pull request), `pending` and `marked`
the topic and the keys in Redis.

| Actions | Code |
| --- | --- |
| `BeginTransition`, `BeginAssign`, `BeginDirect`, `Commit` | `IncidentController`, the state machine, `IncidentCommandService`, and the healing loop's calls |
| `Deliver`, `CheckRedis`, `CheckDatabase`, `Create`, `Enrich`, `PullRequest` | `AnomalyEventConsumer` and `createRemediationPullRequest` |
| `Crash`, `Redeliver`, `Expire` and the branches with `Fault` | a replica dies, a rebalance, 24 hours pass, Redis or the database fails |

Who saves an incident writes every column of the copy it has read (`Save`), and
the copy may be old: the consumer's is as old as the analyzer takes to answer.
A request and the check of the state machine share one copy, because the
persistence session is open for the whole request; so a transition is legal for
the copy it was checked against (`TransitionsAreLegal`) although it may overwrite
a state from which it is not. `stale` records such writes, `blind` the checks
that Redis could not make, `raced` the anomalies two consumers were creating at
once, `unfinished` the processing a fault cut short.

The run `incidents` takes one anomaly, two consumers, two sessions, two commands
and two faults. Two writers are all that a lost update needs; with both consumers
under way there are four. The second fault is what a second incident for one
anomaly needs: a record that comes twice while Redis is away.

What the model allows: `resolve`, `escalate` and the healing loop do not ask the
state machine, so RESOLVED may become ESCALATED although the documentation says
that illegal transitions are rejected (section on the incident state machine);
`FinalStays` says that nothing else leaves a final state. After a crash the
record is redelivered and then ignored, because its key is in Redis already.

Not modelled: comments, incidents created by hand, the dashboard's events and
emails (written, never read back), and the healing action that a pull request
sets to EXECUTING.

### Proofs

`IncidentsProofs` proves the types and all safety and action properties of the run,
for any sets of anomalies, consumers and sessions, and any bounds on commands and
faults:

* `TypesHold`: `TypeInv` adds to the types that whoever will write a row names one
  that exists (`Present`), and that an anomaly's incidents are numbered from 1
  without gaps, with a number left for each consumer that is about to create one
  (`Numbered`). Without this `Ids` might run out;
* `ResolvedIsTimed`: rows are written from copies, so the copies that sessions and
  consumers hold must be timed too (`TimedCopies`);
* `TransitionsStayLegal`: a session that will record a transition holds a copy for
  which the machine allows it (`LegalCopies`);
* `TimelineIsTrue`: an incident without a row has no timeline either (`NoGhosts`);
* `FinalStatesStay`: the last entry of a timeline that has grown is the transition
  of a session, legal for the very row it replaces unless that row is outdated;
* `OneIncidentOnly`: `RaceInv` says that a consumer that can still create next to
  an incident, or next to another such consumer, is noted in `raced`; `BlindInv`
  that as long as Redis has answered, one consumer at most has passed it, and an
  incident exists only after that one has written.

All rest on `IncidentsAssumption` alone. `Processed` is a liveness property under
fairness and stays with the model checker.

## Gateway

`cache` is the Map of `index.js` with its time stamps, in the order of insertion
(a key that is set again keeps its place, which is what the cap evicts by); the
operators `IsDuplicate`, `Checked`, `CacheEvent` and `Replayed` are its methods,
and `Handle` is one message through all of them: JavaScript runs a handler to its
end. `position` and `committed` are the consumer's offsets, `connected`, `left`
and `known` the sockets and what their clients have seen.

`gateway` has two incidents of two tenants and a log stream past a cache of two
entries, a window and a lifetime of two ticks, three updates, and two faults
(broken connections, repeated reads, restarts). A cache of two is the smallest in
which a key keeps an old place; with the three keys it overflows. `InSync` says
that a client that stayed, or that came back and asked for what it missed, knows
the last version that was pushed; `OncePerWindow` and `BehindWithinWindow` bound
the deduplication from both sides; `OwnTenant` is the isolation of tenants.
`pushed`, `handledAt` and `evicted` are histories.

What the model and the code do, and a comment or a document says otherwise: a
second update of an incident within the window is dropped as a duplicate of the
first, because its key is the incident's. The key of a log line lacks the
partition, which the consumer does not pass on (`kafka/consumer.js`), so lines of
two partitions with one offset count as duplicates, contrary to the comment at
`index.js:250`. Left out, but read: a client that subscribes to the logs of one
service is in both rooms and receives each line twice, contrary to the comment at
`index.js:264`; a replay does not look at the room it was asked for.

Not modelled: authentication and its timer, the limit on the messages of a
socket, the rooms of single services and incidents (they repeat the dashboard's
pushes), and the adapter that joins several replicas.

### Proofs

`GatewayProofs` proves the four invariants and the action property of the run for any
keys, sockets and partitions, any window, lifetime and cap. They rest on
`GatewayAssumption`.

- First what the cache's methods leave of it. `Unexpired` keeps the entries that
  are young enough, in their order; it is written by the ranks of the places kept,
  a bijection, where a filter over a sequence could only be proved about by induction
  over data. `UnexpiredKeeps`, `PutSets` and `EventIsCached` say what a reader of
  `index.js` counts on: an event leaves its own entry in the cache with its own time
  stamp, of the other keys it can only take entries away, and no key is there twice.
- `TypesHold` adds that the cache is within its cap between two handlers and that
  no placeholder of the duplicate check outlives the handler that has put it there.
- `ClientsAreInSync`: `InSync` is not inductive. `LastPushKept` says that as long as
  an incident has not been evicted, its entry is the last one pushed, with the time of
  the push; `MissedSince`, that what a client that is away does not know was pushed
  after it left, so a replay from then finds it.
- `TenantsStayApart`: pushes and replays both look at the record's tenant.
- `DroppedWithinWindow` and `PushedOncePerWindow` bound the deduplication from both
  sides, from `ReadWithinWindow`: what was read last and not pushed was read within a
  window of the last push.

## LiveSession

One session of the live mode: the person picks an element and asks for variants,
an agent writes them, the person compares and accepts one or discards them all,
and an agent carries that out.

| Module | Code |
| --- | --- |
| `snap` | the snapshot `session-store.mjs` derives from a session's journal: phase, pending event, whether generation was cancelled or has completed |
| `queue` | `state.pendingEvents` of `live-server.mjs`; `by` the agents that hold the lease, empty when `leaseUntil` has passed |
| `agents` | a poll script and the agent behind it: idle, waiting for the preflight, working, folding an accepted variant into the style sheet, cleaning up by hand |
| `tab` | the page: its state, its event stream, and a checkpoint under way |
| `Fenced`, `Generated`, `Finished`, `Failed`, `MountFailure`, `Progress`, `Decided`, `Concluded` | the cases of `applyEvent` |
| `Go`, `MountFailed`, `Decide`, `Checkpoint`, `SendCheckpoint`, `LateCheckpoint` | what the page posts, and `POST /events` |
| `DiscardOrphaned` | a discard that the server concludes by itself |
| `Disconnect`, `Connect` | a reload or a broken stream, and the recovery of a completion that was missed |
| `Poll`, `Prepared`, `LeaseExpires` | `leaseEvent` before and after its await, and the end of a lease |
| `ReplyDone`, `ReplyError`, `Bounce`, `Complete` | `handlePollPost` |
| `Promoted`, `Reverted`, `DecisionFails` | the poll script after `live-accept.mjs` |
| `Restart` | `restorePendingEventsFromStore` and the loss of everything in memory |

JavaScript runs a handler to its end, so a handler is one action, but for
`leaseEvent`, which awaits the preflight. A done or an error is answered whether
or not the lease still lasts, so each reply may be a late one. Two agents are
enough for one to outlive its lease while the other works on what comes next.
`MaxEvents` bounds, together, decisions, restarts, agents that end, publications
that fail and those that do not compile: three of them are a decision, a restart
and a second decision, or an agent that ends on either side of a restart. Leases,
reloads and checkpoints are not bounded.

`live_session` checks that

* one agent holds the lease of an event (`OneLeaseholder`): a poll claims the
  event before it awaits;
* what the user decided and no agent has carried out is in the journal too
  (`DecisionDurable`), so that a restart keeps it;
* nothing late takes a session that was decided back to comparing (`DecisionFences`);
* every decision is carried out, fails visibly, or is left to an agent to clean
  up (`DecisionAnswered`);
* a page that waits for variants gets to see them (`GoAnswered`), through reloads,
  restarts and agents that end.

The fairness: agents go on polling and answer what they were given, which is what
`reference/live.md` asks of them, unless they end; the lease timer fires; an event
stream reconnects (after a restart of the server, which has a new token, that is
a reload of the page); and the page is not reloaded every time within the second
between a completion and the import of what it names, hence the strong fairness of
`Mounted \/ MountFailed`. Nobody has to decide anything.

The exemptions in these properties are what the code does not keep:

* A decision made while the preflight runs is overwritten in the journal by the
  generation that `leaseEvent` journals after the await (`live-server.mjs:256`);
  after a restart the generation is offered again and the decision is gone
  (`Overwritten`).
* An error carries no event type. It is put down to whichever event is leased, or
  to none, and then it is not recognised as late: the error of an agent that was
  superseded ends a session that another agent has served (`count.erred`). It is
  also sent to the page once: a page that reloads meanwhile waits on.
* A publication that does not compile is answered 422 after its event was taken
  off the queue; if the agent ends there, nobody is given it again until the
  server restarts (`count.bounced`).
* An accept that `live-accept.mjs` does not handle is reported like the end of a
  generation, which the journal ignores for a session that was decided: the
  accept stays pending, and is delivered again after each restart (the agent at
  "cleaning").
* A page that lost the response to its discard, and was offline when the agent
  carried it out, goes on waiting (`snap.canceled` in `GoAnswered`).

Not modelled: steering, prefetching and leaving; `retry`, which nothing in the
repository sends; parameters and timings; revisions of checkpoints, of which only
the order of one page's is kept; several sessions, and the variants of one taken
singly; the files of the journal, where two processes that append at a time may
leave a snapshot that lacks an event.

### Proofs

`LiveSessionProofs` proves the three safety properties for any number of agents and
any `MaxEvents`:

* `TypesHold`: besides the types of the variables, that taking an event off the
  queue leaves the others in it, each at a place of its own (`WithoutIsPart`);
* `DecisionsAreFenced`: `FenceInv` says that a session that was decided is in no
  phase of comparing. Nothing resets `canceled`, and each case of `applyEvent`
  either leaves such a snapshot alone or moves it to a phase after the decision;
* `DecisionsAreDurable`: the property alone is not inductive, because a restart
  takes the queue from the journal: `HeldInv` adds that a pending decision is one
  of a session that was decided. A journal that holds the decision (`Held`) keeps
  it, has it answered or has it overwritten in every further step;
* `OneHolder`: a generation is leased twice, before the preflight and after it, so
  that two holders would need a second agent in between. `LeaseInv` says that the
  agent that prepares is the one that holds (`Claimed`), which needs that a type is
  queued once (`Unique`) and that no agent is busy before the page has asked for
  anything (`Picking`).

No assumption on the constants is needed. `DecisionAnswered` and `GoAnswered` are
liveness properties under fairness and stay with the model checker.

## ManualEdits

A person edits texts in the page. Each save goes to a buffer on disk; Apply sends
the edits of a page, in chunks, to the coding agent, which writes the files and
replies what it did; the server judges that, repairs or rolls the files back, and
drops what was applied from the buffer.

| Module | Code |
| --- | --- |
| `source` | the source files, by the texts of the elements that can be edited |
| `buffer` | `pending-manual-edits.json` |
| `txn` | `manual-edit-apply-transaction.json`, what a rollback restores |
| `commits`, `events`, `work` | the commits that run, the apply events that wait for a reply, those an agent has in hand |
| `asked` | the pages that show "Keep fixing" and "Rollback" |
| `Save`, `Commit`, `KeepFixing`, `RollbackDecision`, `Discard` | `stageEntry`, and the routes of `manual-edit-routes.mjs` |
| `Fill`, `ChunkOf`, `Chunks`, `Dispatch`, `ChunkDone`, `Merged` | `splitManualApplyBatch` and `pushBatchInChunksAndWait` |
| `Judge`, `Verified`, `Repair`, `RepairDone`, `RollBack`, `Clear` | `commitManualEdits` and `repairPostApplyValidation` |
| `Reply`, `Timeout`, `Rejected`, `LateReply`, `Abandon` | the agent's answer in time, the hard timeout, and an answer after it |
| `Restart` | the recovery of an abandoned transaction at startup |

A text is the number of the save that made it. What an agent writes and what it
claims are independent: `Results` is every reply that passes the validation. The
continuation of a rejected promise runs before any other handler (`Calm`).
`expected` is a history: the text an element should have by what was cleared as
applied; it becomes `Unknown` where the code promises nothing: two applies that
share the one transaction file, a file another page's transaction holds, what an
agent writes after its event was closed without ever replying, a late reply whose
snapshot undoes a later edit, and an edit a repair pass did not check.

The run `manual_apply` has three elements on two pages in two files, chunks of
one edit, two commits, one agent, and two saves or a save and a restart: enough for
two applies to overlap, for a batch in two chunks of which one fails, and for a
reply after a timeout, a discard or a restart. `AllOrNothing` compares the files with
`expected` once nothing is under way; `TransactionOwned` says that no transaction
is left without a commit or a question to the user that ends it; `ClearedIsApplied`
that an edit leaves the buffer only when its text is in the files; `EveryCommitEnds`
that an apply ends whatever the agent does, by the timer alone.

What the model shows besides: a text that is saved while an Apply works on its
entry is dropped with the entry (excepted in `ClearedIsApplied`); Discard during
an Apply leaves what an earlier chunk has written; after Rollback the buttons stay.

Not modelled: how a text is found in a file, the provider that runs as a
subprocess, discarding from the command line, the evidence files, and a death
between the clearing of the buffer and the removal of the transaction.

### Proofs

`ManualEditsProofs` proves the four safety properties for any number of elements, pages,
files, agents, commits, saves and restarts. They rest on `ManualEditsAssumption`, of
which the finiteness of `Refs` is needed: whether a batch is cut is a question
of its size.

- `Consistent` is what both rest on: a commit that runs waits for at most one event
  that is open or was just rejected, and such an event is of a commit that runs,
  with the whole batch unless the commit goes on in chunks. From it,
  `ReplyOutcome` and `RejectedOutcome` reduce every answer, and every absence of one,
  to four outcomes: rolled back, left to the user, tried again or sent on, and
  cleared, where only what `Verified` found in the source is cleared.
- `TransactionIsOwned`: `TransactionOwned` is not inductive, because it does not say
  that the owner is of the transaction's page, whose user is asked when the owner
  gives up; `Owned` does.
- `ClearedShowsInSource`: `ClearedIsApplied` needs to know what the buffer may hold
  by the time an entry is dropped by its identifier. `Staged` says that an entry is
  of one page and never newer than the last save; `Covers`, that whatever is
  staged under an entry of a running batch is in the batch, as that text or an
  older one. So an element saved under the same entry after the batch was made
  either was in it or is of a new entry.

- `TypesHold`: `Shapes` is what the code may rely on in every file and message it
  reads back: whatever a commit, an event or a transaction says of an element, it says
  of one of its own batch, with texts that were saved; and an agent that works on an
  event keeps its place in the list.
- `AppliesAreAllOrNothing`: `AllOrNothing` speaks only of the moments when nothing is
  under way; `AllSafe` says for every moment and every element whose expected text is
  known why it will be there in the end. Either the file has it, or an agent still
  works on it without being waited for (and what it writes makes the expectation
  unknown), or it was written by the commit that holds the transaction (`Accounted`).
  The transaction's copy of it is the expected text, and no second commit runs whose
  rollback could undo it (`Undoable`, `Alone`); and what a commit remembers as the
  text before its turn is the expected text too, unless a repair has begun
  (`Touched`). Two facts make this inductive: a commit that runs waits for an event
  (`Waited`), so a commit whose answer comes is the only one to act on its outcome;
  and something of the transaction is staged as long as its commit runs. There is
  one lemma for each action.

`EveryCommitEnds` is a liveness property and is only model-checked.

## SourceLock

`lock` is the lock file, `pc` where each process is in `withSourceLockSync`, one
call of the file system or the kernel at a time; `seen` is the owner that
`clearStaleLock` has read; a process in `Stallers` may be suspended until its
unwritten lock is a minute old. The run `source_lock` has three processes, which
may end anywhere, and shows that the promise of the comment at lines 85-90 is not
kept: the first process takes the lock and ends; the second reads its lock; the
third sweeps it and takes its own; the second finds the first gone and unlinks the
file, now the third's, takes the lock, and both are in the section.

The last section of `LiveSessionProofs` proves what does hold, for any number of processes: as long as
none ends and none is suspended over a minute, two are never in the section
(`LiveProcessesExclude`). `LockInv` says that a process between the creation of the
file and its removal owns it, and that nobody is about to sweep; the rest is that
`Create` needs the file to be absent. No assumption on the constants is needed.

## What is not modelled

`PROJECT.json` lists every component with its status. Three quarters of the lines
of the repository's programs are the scripts of the vendored design tool, most of
them one page's drawing code and pattern rules over markup, which keep no state a
step could break; the models cover the parts of it and of the services where the
order of steps decides. Known and left out of the modules: the retry delay of the
agent, `1 << attempt` in an int, which is negative after 31 failures; two
replicas that evaluate an alert rule at once and both open an incident; the pull
request that sets the newest healing action to EXECUTING whatever its status; a
death of the agent between two stores of the ring buffer's header (see
RingBuffer). Planned, in the order above: billing, the operator's rules and guards, risk score, rate limit, retry
delay, alert rules, on-call, the idempotency filter, accounts and sessions,
notifications, runbooks, and the GitHub integration as a sequence of remote
calls. Out of reach or without state of their own: the analyzer (numerical models
over windows of samples), the probes of the agent (reads of the kernel), the
queries of the collector, the frontend, the infrastructure and the generator of
sample data.

## Running it

`tlc -config HealingLoop_overlap.cfg MCHealingLoop`, and so on: a `.cfg` is named
after its module and its question, and belongs to the module `MC...` of the same
name. `tlapm HealingLoopProofs.tla` and so on check the proofs. The runs need
between a few seconds and four minutes each.
