# Formal model of CloudRM

TLA+ modules, TLC configurations and TLAPS proofs for the multi-agent cloud resource
manager of this repository: agents (Python, asyncio) that exchange events through RabbitMQ
and share PostgreSQL and Redis. Paths below are relative to the repository.

## 1. Inventory

| Component | State it keeps | Operations | Talks to |
| --- | --- | --- | --- |
| RabbitMQ transport (`common/cloudrm/rabbit.py`) | queues, unacknowledged message per consumer, `x-retry-count`, `queue.retry`, `queue.dead` | `publish`, `events`, `commit`, `retry_or_dead_letter` | all agents |
| service runtime (`common/cloudrm/runtime.py`, `retry.py`, `db.py`, `persistence.py`) | connections, `ready`, the schema | `start`, `run_migrations`, `stop`, `publish` (row in `events`, then the brokers) | PostgreSQL, Redis, brokers |
| Kafka transport (`common/cloudrm/kafka.py`) | log, position and committed offset of each group | `publish`, `events`, `commit` | agents: consumed in `kafka` mode, produced in `dual` mode too |
| api-service | rows of `tasks`, `task:<id>`, `experiment:mode`, node status | `submit_task`, `simulate_node_failure`, experiment switches | queue-agent, executor, resource-agent |
| queue-agent | `queue:waiting`, `queue:waiting:<class>`, `task:<id>` | enqueue, SLA boost, requeue after scaling, aging loop | coordinator, resource-agent |
| resource-agent | `node:<id>` hashes | `initialize_nodes`, proposals per node | coordinator |
| sla-agent, forecast-agent | rows of violations, a window of queue lengths | risk, boost, violations, moving average | coordinator, queue-agent |
| coordinator-agent | `classified:`, `sla:`, `forecast:`, `proposal:`, `decision:made:` keys with lifetimes, `pending_decisions` in memory | store a signal, open a window, `decide` | executor, scale-agent |
| executor-agent | `node:<id>` reservations, `node:<id>:running`, task rows and hashes | `execute_task`, `fail_tasks_on_node` | sla-agent, forecast-agent |
| scale-agent | `node-auto-*` hashes, cooldown timestamp, sequence | `scale_out`, `scale_in` | queue-agent |

A task goes `POST /tasks` → `request.created` → queue-agent → `request.classified` and
`need_placement` → proposals → decision window → `decision.dispatch` → executor →
`execution.done` / `execution.failed`; without a safe node → `decision.scale` →
scale-agent → `scaling.done` → queue-agent again.

What is hard here:

- **Delivery.** At least once, with retries that pass through the topic exchange again: a
  retry of one agent's failure reaches the other agents bound to the key.
- **Awaits.** Every Redis or SQL call gives the event loop to other coroutines and other
  processes; most updates are a read and a later write.
- **Two stores and a broker** are written one after the other, without a transaction: any
  call may raise, any process may die in between.
- **Lifetimes.** Classification, marker, proposal and node keys run out.
- **Memory.** Decision windows exist in one process only, and their messages are
  acknowledged before the decision is made.

The hazards, each at its line, with the properties that cover it, are in `PROJECT.json`.

What makes each component correct:

- transport: no copy is lost or settled twice; the retry circulation is bounded and ends;
  every event is settled at each consumer that still runs;
- coordinator: one decision at a time per task; no second dispatch without a reason; no
  dispatched status without an event; no classified task forgotten without a reason;
- executor: a dispatch is acknowledged only after its outcome is out; reservations add up;
  running sets are live; the two stores and the last event agree when nothing is under way;
- queue-agent: a task leaves the aggregate and its class queue together and stays away once
  executed; scores settle at what the hash says; classified tasks are announced;
- resource-agent and scale-agent: no reservation is lost with a node hash; the cooldown
  spaces scale-outs; scale-in removes idle nodes only;
- service runtime: what a consumer sees has its row; a service becomes ready although a
  dependency fails or two services migrate at once;
- Kafka transport: a committed offset leaves nothing behind that was not tried;
- all together: the row of a task goes through its stages in order, as a client of
  `GET /tasks/{id}` expects, and a submitted task ends.

## 2. Modules

| Module | Models | With |
| --- | --- | --- |
| `TaskLifecycle` | what a client sees of a task's row, nothing said of the agents | |
| `TaskFlow` | all agents around the broker, a handler a step, the coordinator's attempt beside its worker call by call; implements `TaskLifecycle` | `MCTaskFlow`, `MCTaskFlowPair`, `TaskFlowProofs`, `TaskFlowRefinement` |
| `EventDelivery` | what the transport promises: who is owed an event, nothing said of copies | |
| `RabbitDelivery` | the transport under one event at a time per consumer; implements `EventDelivery` | `MCRabbitDelivery`, `RabbitDeliveryProofs` |
| `Coordinator` | the coordinator's worker and `decide`, await by await | `MCCoordinator`, `CoordinatorProofs` |
| `Executor` | the executor's worker beside `simulate_node_failure`, await by await | `MCExecutor`, `ExecutorProofs` |
| `TaskQueues` | the waiting queues under their four writers, await by await | `MCTaskQueues`, `TaskQueuesProofs` |
| `NodePool` | the node hashes under their writers, call by call | `MCNodePool`, `NodePoolProofs` |
| `Service` | start, migrations, publish, stop, and consumption from Kafka | `MCService`, `ServiceProofs` |

The modules divide the system by the state that is shared without a lock: the broker's
queues, the coordinator's keys, the stores and node of a running task, the waiting queues,
the node hashes, the schema and the brokers. `TaskFlow` puts the agents together at the
grain of messages; what its atomic handlers hide is what the other modules look at, and what
runs beside a worker there, the pending decisions, is not atomic in it either. Its
channel (each copy kept until handled, in any order, duplicated by a retry, lost to the
dead-letter queue) is what `RabbitDelivery` establishes, and `EventDelivery` states: an event
owed to a queue is handled (`Handles`), dead-lettered (`DeadLetter`), or owed again by a
retry, and nothing else takes it out of the broker.

Operators whose name has a suffix (`GiveUp_Requeues`) and a comment "Mutant" are not part
of a specification: they are the faulty variants with which the properties were tried out,
one or more for each property (`PROJECT.json`, "mutants").

### RabbitDelivery

A message is its event and its retry count; queues are bags, as nothing in the code relies
on order and requeues break it. One consumer per queue, `step` says where its `events()`
generator is: `idle` (waiting), `handling` (yielded to the worker), `handled` (before
`commit`), `unsettled` (in the `finally` block), `copied` (retry copy published, original
not acknowledged) and `stopped` (an exception left the generator, which ends the worker's
`async for`; the process and its `/ready` go on). `retryQ` is `queue.retry`; `RetryTtl`
sends a copy back through the exchange to *every* bound queue, since the retry copy keeps
its routing key. `BrokerTtl` is the per-message expiration, which only first deliveries
carry; retry copies are published without one. The broker is external: it routes,
requeues what a dead consumer held, applies TTLs, and loses nothing that is persistent.
The branch for a missing retry exchange is unreachable after `start` and left out, and so
is `consume`, which no agent calls.

`EventDelivery` forgets copies, retry counts and acknowledgements. A pair of a queue and an
event is `owed` while a copy is in the queue, in its consumer's hands, or in `queue.retry` on
its way back; `Handle` and `Drop` may leave the pair owed (another copy exists) or not, and
`Again` is a retry copy, which owes the event to every bound queue once more. So the
acknowledgement of an original whose copy is out, a restart and the TTL of `queue.retry` must
be invisible, and a pair may stop being owed only as its own queue handles or drops a copy.

### Coordinator

`inbox` holds the signals of `queue.coordinator`; the worker (`wsig`, `wpc`) stores one,
calls `schedule_decision` and commits. An attempt is one asyncio task of
`pending_decisions`: `window` while it sleeps, then one value of `pc` after each await of
`decide`, with the locals read so far. Keys are sets of tasks; their lifetimes are actions,
with the one ordering the code gives: classification and marker live equally long from
their last write (`renewed` says which is younger). `sla:<t>` is written as a string by the
coordinator and as a hash by the sla-agent (`SlaWritesHash`), after which the
coordinator's GET raises (`LoadRiskRaises`). `updated` counts
the rows set to dispatched, `dispatched` the events that went out; `unsent` the attempts that
died exactly between the two, which is all that may make the counts differ
(`DispatchedHasEvent`). What other processes may change at any time is a free choice where a
step reads it: the experiment mode in `LoadMode`, and in `Degrade` and `DegradeRaises`
whether some node runs a task. So is what ranks the safe candidates (utility, forecast).
The branch of the worker for `node.unavailable` (line 300) is not in the model: that event
carries no `task_id`, so line 288 acknowledges it first.

`ScheduleSkipped` and the history variables are the interesting part: they say *why* a
classified task may end without a decision. `aborted`: an exception or a crash ended an
attempt (no retry exists, the signals were acknowledged). `skipped`: the classification
was stored after the attempt in flight had looked for it in vain, but before the attempt
was gone, so its window was suppressed; the task then waits for some further signal.
Without either excuse `UndecidedHasReason` is violated.

### Executor

One message at a time. `pc` names the next call: `zrem` (the queues are `TaskQueues`'),
`readNode`/`reserve`, `sadd`, `pgRunning`, `hashRunning`, `poll`, `release*`, `srem`,
`pgDone`, `hashDone`, `publishDone`, `doneSent` (the event is out, `publish` has not
returned); with `x` the calls of the `except` block; `members` ... `del` those of
`fail_tasks_on_node`. `reserve` is two calls, so a value read may be old when it is
written. `TryRaises` is an exception inside the `try`, `Abandon` one outside it or the end
of the process: the message goes to the retry queue or, its retries spent, to the
dead-letter queue. The API request has its own `apiPc`: mark the node, `UPDATE` the running
rows, then read each task hash and act on what was read. Demands are one unit of one resource
(CPU and RAM go through the same two fields of one `HSET`). The number of polls is left open:
a poll that finds the node alive changes nothing.

The other writers of a task's row and hash are here with the steps by which they write: the
coordinator's attempt in three (`DispatchRow`, `DispatchHash`, `DispatchEvent`, and
`AttemptDies` between any two), the queue-agent's handling of a redelivered `request.created`
in two (`EnqueueHash`, `EnqueueRow`, `EnqueueDies`), `Duplicate` for another queue's retry
copy. Four history variables name what may keep the stores apart, each cleared by the next
dispatch that is published: `torn` (a writer was stopped between row and hash, or another
wrote between its two), `overwritten` (the API wrote the hash by what it had read before),
`unfinished` (recorded for an execution that is not on its way); `belied` counts the
executions published as done and, as that `publish` raised afterwards, as failed too.

### TaskQueues

`queues` maps `waiting` and each class to a function from members to scores, as a Redis
sorted set. The queue-agent's worker takes a message, computes its score from what the
payload or the hash says then, and works off the awaits of its handler (`Program`) with that
score; a handler that fails is delivered again or dead-lettered. `aging_loop` lists one
class queue and rewrites it member by member, class queue first. The executor removes a task
in two calls; either may raise, and then the `except` block ends the execution with the
removal not done or half done (`halved`), as it does when `reserve` finds the node failed; or
the process dies and the dispatch comes back, or its last attempt is spent. The API puts a
critical task of a failed node back in three calls, by what it read of the hash before them.
The sla-agent's
`Assess` sends its risk and boost, so that each assessment boosts twice. `Classify`,
`DynamicPriority`, `Risk` and `Severity` are the code's formulas, in integers (percent,
seconds). `excused` records who had a task in hand while it was being removed: the
reasons for which an executed task may still stand in a queue.

### NodePool

A node's hash is `absent`, `partial` (an agent's fields written into a missing key), `named`
(the API's, which bring the `node_id` with them, so that `scale_in` takes the node for a
candidate) or `whole`, with its status and load. The API writes the failure into whatever the
key holds (`FailNode`) and announces it awaits later or never (`Announces`). `initialize_nodes` reads a node and writes back what it read; the
worker then scans for fitting nodes and handles `node.unavailable`. The coordinator's answer
to a scan is taken at once: a dispatch to a node that fits, or a scale-out. The executor
reserves, marks, unmarks and releases. The scale-agent's `scale_out` compares the time of
its last action with the time it read, adds a node, stamps that time and reports;
`scale_in` looks at the keys `node:node-auto-*` one by one, the running sets among them
(on which HGETALL raises), counts, and deletes. A call that fails is retried through the
broker up to `MaxRetries`; when the broker is what fails, the `except` block raises as well
and the worker ends (`ScalerDies`). A `decision.scale` for a scale-in comes from outside
only: the coordinator never asks for one.

### Service

`backend` is chosen at the start (one value for the whole deployment, the unknown one
included, which an agent refuses and the API takes for none). `start` is a list of steps
(`StepsOf`), some under `retry_async`, some not; `run_migrations` is a transaction in
which two services may both see no tables, and the second to commit raises. `publish`
works off `PublishSteps`. The Kafka worker polls, handles and commits; the log is one for
all topics of an agent. A service whose `start` raised is started again, as
`docker-compose.yml` says.

### TaskFlow and TaskLifecycle

`TaskFlow` has the broker's copies in `inbox`, the row and its node, the coordinator's keys,
the pending attempts, the nodes, and what runs. The bindings are those of the topology, as
far as a consumer does something with the event that was not done before: `node.unavailable`
repeats here what the API did, `sla.boost` what `sla.risk` did, and `forecast.queue` only
opens windows in which nothing is decided. A node fits one task.

A consumer's handler is one step, but for two. The coordinator's worker stores a signal
(`Signal`: its task is then `stored`) and schedules a decision in a second step, which
opens no window while an attempt is in `pending_decisions`. The attempt goes from `window`
through its reads to `asking` for a node, or to `recording`, `sending`, `marking` and
`advising`, and stays pending (`over`) until it has left. An attempt without proposals is
`degrading`: it will not read them again, and raises if a task runs by then
(`DegradeRaises`). What the worker stores in that time is overlooked: `skipped` names the
tasks whose last signal came so. And the API's failure request marks the node (`FailNode`)
some time before it comes to the rows (`FailRows`).

The task hashes are not here. They are written beside the row in awaits of their own
(`Executor`) and go their own way when calls fail, so what a handler reads of one is a
choice: whether a boost or a scale-out finds the task classified, which it must where the
row was never further. Lifetimes of keys are `Coordinator`'s. `retried` counts what was
begun again for a task and `regressed` how often its row went back.

`TaskLifecycle` knows the row alone: stages in order, with a `credit` of retries, of which
going back costs one, and none of which may be skipped without a retry. The mapping is
`stage <- row`, `credit <- retried - regressed`, `replayed <-` the tasks with a retry.
That `Enqueue` writes `classified` unconditionally, so that a second copy of
`request.created` sets a running task back, is what the credit is for: the refinement shows
that nothing *but* such a copy, and a decision that failed half way, does it.

## 3. Runs

| Run | Shows | Instance | Distinct states |
| --- | --- | --- | --- |
| `delivery` | types, conservation of copies, at-least-once, bound on the retry storm, `RabbitDelivery` implements `EventDelivery`; in the end everything is settled or its worker has stopped, and the circulation ends | one expiring event bound to two queues, one malformed, 1 retry, 1 fault | 88 000 |
| `delivery_limit` | *violated*: "up to 3 attempts" (finding 1) | 3 retries, no faults | |
| `coordinator` | one attempt per task, no unexplained redispatch, finality, an event for each dispatched task, reasons for the undecided, and every classified task decided or excused | 1 task, 1 node and "none", 3 signals of any kind, 2 attempt identities, 1 fault | 1 143 000 |
| `coordinator_fallback` | *violated*: the fallback decides (finding 2) | 2 signals, no faults | |
| `executor` | outcome before acknowledgement, reservations, running sets, done stands; at rest the row says what the last event said, and row and hash agree, but for the reasons named | 1 critical task, 1 node, 2 dispatches, 1 duplicate, 1 redelivered `request.created`, 1 failure request, 1 fault | 5 254 000 |
| `executor_node_failure` | *violated*: a recorded node failure stands (finding 3) | 1 node, no faults | |
| `task_queues` | executed tasks stay away, the two queues agree, classified tasks are announced, scores settle | 1 critical task whose deadline is near, 1 tick, 1 fault | 866 000 |
| `node_pool` | reservations and failures survive restarts of the resource-agent, scale-in removes idle nodes, the cooldown spaces scale-outs, every scale decision is answered | 1 configured node, 4 automatic nodes, cooldown 2, 2 ticks, 2 placements, 1 scale-in, 2 faults | 2 300 000 |
| `scale_in_unsafe` | *violated*: an unsafe scale-in is blocked (finding 4) | 2 automatic nodes, no faults | |
| `service` | order of row and brokers, offsets, readiness under outages and concurrent migrations, consumption | the API and 1 agent, each backend, 2 events of which one expires, 1 outage, 2 exits, 1 failing handler | 142 000 |
| `task_flow` | types, the row lives the life of `TaskLifecycle`, a submitted task ends | 1 task, 2 nodes of which 1 configured, an assessment that boosts and one that does not, 1 retry or loss or 2 node failures | 748 000 |
| `task_flow_pair` | nobody is stranded, but for the two ways in which the code does it without a fault | 2 tasks that compete for 1 configured node, 1 more to be added, 1 cooldown that ends, no faults | 1 441 000 |

Why the bounds are enough to meet the cases:

- *delivery*: two consumers are the fewest for which a retry amplifies. One level of retries
  shows how it does, as the bound goes level by level; `delivery_limit` goes through all three.
- *coordinator*: three signals make a second window overlap the end of the first and leave
  one signal for after it; all state is per task, so tasks do not influence each other.
- *executor*: with two dispatches and a duplicate, a redispatch and an orphan of the first
  execution meeting the second occur, and each of the other writers comes once between any two
  steps of an execution. One node is enough for a row that names it or none; the theorems
  say the same for any number of nodes.
- *queues*: the state of a task in the queues depends on other tasks only through the
  queue's length, and the payload is urgent at any length, so that every handler boosts. A
  tick separates the score the worker computed from the one the loop computes.
- *nodes*: an action, a cooldown and a second action fit into two ticks; each of the two
  faults may let one node more pass, which makes four the most that can be added.
- *services*: two services meet in the migration; one outage of any dependency meets
  every step of `start` and `publish`; two exits restart a consumer twice.
- *flow*: a fault that weighs two can put the row back or lose the task, and one of two
  node failures can hit a task that runs and one that waits for its second execution. There
  are as many nodes as the scale-outs can add (`Configured`, one, and one for each cooldown
  that ends), so that scale-out never has to wait for a name. A second task is what an
  attempt without proposals raises over and what a node is refused for; it needs no fault
  for either, so that run has none.

One fault at any call is otherwise enough for each partial failure: the properties say what
a fault may cost, so a second one repeats the first. Bounds are constants named `Max...`.
Deadlock is not checked: with all bounded events spent, the systems rest. Symmetry is used
only in runs without liveness.

### Fairness

- Weak fairness of each coroutine's own steps: asyncio runs every ready coroutine, and
  handlers are loops over finite data and sleeps of bounded length. So in `Coordinator`
  (worker; the decision of each task), `TaskQueues` (worker, the API's handler, the aging
  loop), `NodePool` (the scale-agent, until its worker dies), `Service` (start; the Kafka
  worker), `TaskFlow` (consumption and
  decision of each task, execution: every attempt gets its answers and ends).
- `TaskQueues` has strong fairness for listing each class: the loop goes through the
  classes in turn, so none in use is passed over for ever.
- The broker delivers to an idle consumer and applies the retry TTL (`RabbitDelivery`).
- Containers that exit are restarted (`restart: unless-stopped` in `docker-compose.yml`),
  and a dependency that fails comes back (`Service`).

Nothing is assumed of arrivals, faults, crashes, expiry, or of a stopped worker being
started again in a process that lives on: the code does not do it.

### Findings

1. `README.md:22` and `:95` promise up to 3 redeliveries per message; a retry is copied to
   every bound queue, so with k failing consumers a queue sees the sum of k^0 ... k^3
   deliveries. `docs/asyncapi.yaml:25-26` mentions the fan-out, not what it does to the limit.
2. `README.md:109` promises a fallback; `degrade_proposals` raises WRONGTYPE on
   `node:<id>:running` as soon as any task runs, and the decision is dropped silently.
   The resource-agent guards against this in its own scan (`iter_node_hashes`).
3. `docs/FINAL_REPORT.md:17` promises `execution.failed` for the tasks of a failed node; one
   whose executor has passed its last poll ends as done after the API recorded its failure.
4. `docs/FINAL_REPORT.md:15` has the scale-agent block an unsafe scale-in. `scale_in` reads
   a node's hash (`scale_agent/main.py:81`), counts its running set and deletes the key
   (`:90`) by what it read; the executor may have reserved the node in between.

Observed while modelling and stated as excuses in properties rather than as findings:

- a duplicate dispatch taken after its node failed turns a finished task into a failed one
  (`DoneStands`), and an `SREM` that fails leaves the task in the running set, so that a
  later node failure fails it again (`RunningIsLive`, `DoneStands`);
- row and hash of a task stay different when the API's loop over task hashes acts on a stale
  read, or a writer dies between its two (`StoresAgree`), and a critical task
  it puts back has a failed row, and no event that announces it (`AnnouncedOrParked`);
- a task whose scale-out met the cooldown waits for ever: `scaling.blocked` has no consumer
  (`EventuallyEnds`, `NoneStranded`);
- so does a task whose last proposal or risk is stored while its pending attempt has already
  found no proposals and raises, or has found that another agent's hash is in its way:
  `schedule_decision` returns (`coordinator_agent/main.py:266`), and nothing comes after
  (`skipped` in the same two properties; no fault is needed);
- an executed task may return to the queues when aging, the worker or the API had it in
  hand as it was removed, or when a scaling ends after it failed (`GhostsExplained`);
- `initialize_nodes` overwrites a reservation made between its read and its write
  (`ReservationsKept`);
- a scale-out repeated after its stamp failed adds a second node within the cooldown
  (`ScaleOutsBounded`), and a running set among the keys of `scale_in` ends in the
  dead-letter queue (`ScaleAnswered`);
- over Kafka, a later commit covers an event whose handler raised (`CommittedSettled`), and a
  commit that raises for an expired event ends the worker of a service that stays ready
  (`EventuallyConsumed`).

## 4. Proofs

All theorems hold for every value of the constants that satisfies the named assumptions of
the module; `tlapm` checks each from nothing, and each invariant was first checked with TLC.

`RabbitDeliveryProofs`: `TypeCorrect`, `CopiesConserved` (`Conservation`), `AtLeastOnce`
(`NoMessageLost`), `RetriesBounded` (`RetryStormBounded`) and `TransportImplementsDelivery`
(`ImplementsDelivery`). The inductive invariant of the first three is
`TypeOK /\ HandInv /\ Conservation /\ NoMessageLost`; `HandInv` (a consumer past `idle`
that is not `stopped` holds a message, an idle one none) is what makes the settling actions
move exactly one copy. At-least-once needs it too: a message whose copy is already out no
longer counts, so `PublishRetry` must add to `retryQ` before `AckOriginal` may drop it.
The retry storm is bounded level by level (`StormInv`): each copy at level r + 1 goes back to
an original at level r that one of the bound queues exchanged or holds with its copy already
out, or to a fault that made an exchange be repeated. Originals are counted as pairs of a
queue and a number below its count, so that a sum over queues is a cardinality, and
`Conservation` bounds each queue's by the number of routings. The refinement adds `CopiedInv`:
a consumer that published its retry copy finds that copy, in `queue.retry` or back in its own
queue, until it acknowledges the original. It needs that its queue is bound to the event
(`BoundHolders`, from `Conservation`), and makes `AckOriginal` a stutter of `EventDelivery`.

`CoordinatorProofs`: `TypeCorrect`, `OneAttemptPerTask` (`SingleFlight`),
`NoDuplicateDispatch` (`NoUnexplainedRedispatch`), `Finality` (`DecisionIsFinal`),
`EventForEachDispatch` (`DispatchedHasEvent`) and `NoTaskForgotten` (`UndecidedHasReason`).
`EventForEachDispatch` is inductive with the types and `SingleFlight`: one attempt at most is
between the row and the event, and a fault that finds it there is counted. For the first four
the invariant is `IndInv`: types, `WorkerInv` (the worker holds a
message where its step needs one) and `Guarded`: a task whose dispatches are not all
accounted for by dead attempts and late classifications has its marker, or an attempt about
to set it, or no classification any more; a classification younger than the marker exists
only for accounted tasks; and an attempt that found no marker, or has read the
classification, did so while that was still true. That is where the equal lifetimes of the
two keys enter. The last adds `Reasons`: what is announced was stored, a task that can
still be decided has an attempt or a signal that will make one, and an attempt past its
first reads knows the classification.

`ExecutorProofs`: `TypeCorrect`, `OutcomeBeforeCommit` (`OutcomePerDispatch`),
`ReservationsAddUp` (`ReservationsAccounted`), `RunningSetsLive` (`RunningIsLive`),
`DoneIsFinal` (`DoneStands`), `RowTellsLastEvent` (`RowMatchesLastEvent`) and
`StoresAgreeAtRest` (`StoresAgree`). Three invariants on top of the types: `CountInv`, a delivery
being executed has no outcome yet (or one that was out when `publish` raised) and one that is
acknowledged has one; `ResInv`, between
the read and the write of `reserve` the node still has the value read, and the flag that
decides about the release in the `except` block follows the order of the calls; `CalmInv`,
without a fault the running sets and the done rows are what the program counter says
(`LiveInv`, `DoneInv`). The coordinator's and the
queue-agent's steps touch nothing of this, which one lemma says for all of them (`BeyondKeeps`,
over `Beyond`). The last two theorems have an invariant of their own, `Stores`: a task is
settled (`OnRecord`: its row says what was announced; `Consistent`: its hash agrees), or
excused, or a dispatch of it is queued or being executed, or it is in the running set of a node
whose failure is queued or being handled; that handler's members stay in the set while it
loops (`LoopInv`). What a writer between the two stores wrote first is still there unless
another wrote meanwhile (`PairInv`), so its second write makes the stores agree or the task
`torn`. The API's UPDATE touches rows in status `running` only, and such a row always has an
execution current or to come, which is why it unsettles nothing.

`ServiceProofs`: `TypeCorrect`; `RowBeforeBroker` (`PublishedInOrder`), by what the steps left of each
`publish` say about those done (`PubInv`), and `OffsetsSettled` (`CommittedSettled`), by the
same claim for a consumer's position, but for the event in hand (`AgentInv`).

`NodePoolProofs`: `TypeCorrect`, `LoadsKept` (`ReservationsKept`), `FailuresStand` (`FailureSticks`),
`RemovalsSafe` (`ScaleInSafe`) and `CooldownSpaces` (`ScaleOutsBounded`). The middle three
share `Inv`: numbers not yet given out are nobody's node (`Places`), loads are what the
executor holds and what `initialize_nodes` or the executor read still stands unless it is
excused (`Books`), a failure not marked has its event under way, even while
`initialize_nodes` holds an older state (`Marked`), and what `scale_in` saw idle is reserved
only `late`, or has lost its reservation with an earlier hash (`Looked`). The cooldown's invariant (`Spaced`) counts nodes by the cooldowns
that fit before the stamp, which is read before the node is added; the one step between
node and stamp is where a failure costs a node.

`TaskFlowProofs`: `TypeCorrect`. It is about the broker's bag too: a step takes away one
copy at most and spreads at most some events over their bound queues (`Transfers`), so no
copy is ever in a queue that does not exist; and an attempt past its choice has a node.

`TaskFlowRefinement`: `FlowImplementsLifecycle` (`Implements`) and `NobodyStranded`
(`NoneStranded`). The refinement needs that the row goes back no more often than something was
retried. What is still under way can set it back `Debt(t)` times: once for every copy of
`request.created` but the one that finds the row `created`, once for every execution but the
first, and twice for a task that can still be decided although a dispatch of it was recorded
(the row of the new decision, and of its execution). A task counts as decided from the
recorded row on, while its attempt is `sending` or `marking` or once the marker is there
(`Decided`), and an execution as coming from there on too (`Coming`): so the steps between row,
event and marker change nothing, and an attempt that dies among them costs what it is
credited. `Solvent` says that `regressed` plus that debt never exceeds `retried`; executions
are counted as a cardinality of pairs of a node and a copy number, as a task may be dispatched
to several nodes. Beside it, `Heard` (nobody hears of a task without a row), `Attempting` (an
attempt that looked knows the task, and nobody else has decided it), `Executed` (a running row
has its execution), `InOrder` (without a retry the stages come in order) and `Routed` (copies
lie in bound queues) make each step either leave the row, advance it one stage, or spend a
credit. `NobodyStranded` adds `Underway`, each part excused by what the property excuses:
`Undecided` (nothing is executed before the decision is recorded), `Known` (the coordinator
knows the task or a message to that effect is held), `Foreign` (the sla-agent's hash will be
overwritten by a string), `Advised`, and `Alive`: an undecided task is `Pending`, a decided one
has an execution to come, running, or over. Pending means a message that leads to proposals, an
attempt that asks or records, or proposals that an attempt will read (`Heeded`): its window is
open, or a signal is in the worker's hand or queue that will open one, or the last one was
`skipped`. The last disjunct is the lost wake-up; without it `LookInVain` and `DegradeRaises`
break the invariant.

`TaskQueuesProofs`: `TypeCorrect`, `RemovedStaysRemoved` (`GhostsExplained`),
`QueuesAgreeAtRest` (`QueuesAgree`) and `ClassifiedAnnounced` (`AnnouncedOrParked`), all from
one invariant `Inv`, kept by each action in a lemma of its own. Its parts follow a task from
its first enqueueing on: the order of what happens to it (`Life`), what a first enqueueing
that nobody repeats may still assume (`Fresh`), how far it came (`Progress`), that whoever is
done with it left it in both queues (`Both`), and that the executor, once it has begun to
remove it, finds nobody about to put it back (`Gone`); `InvBreaks` is about its failures. `Gone` is not inductive alone: that a
signal finds the task no longer classified needs `Life`, and `Life` needs `Fresh` where
`enqueue_task` writes `classified` without looking.

Every invariant and every action property of a passing run, and both refinements, are thus
theorems; the types of `Service` are a theorem only, no run checks them again. Only model-checked: the liveness properties (`EventuallySettled`, `Quiesces`,
`EventuallyDecided`, `EventuallyEnds`, `ScoresSettle`, `ScaleAnswered`, `EventuallyReady`,
`EventuallyConsumed`), since fairness and ENABLED are out of the prover's reach. Not proved
either is what needs induction over data: that `RetryStormBounded`, which bounds one level by
the level below, bounds level r by (k + faults)^r for k bound queues.

## 5. Not modelled

- forecast-agent: its moving average only ranks safe candidates, which is a free choice in
  the models; what it sends opens decision windows, which `Coordinator` has as signals of
  kind `other`.
- sla-agent's `handle_execution`: it adds rows to `sla_violations` that nothing reads. Rows
  of `decisions`, `execution_history` and `events` are only appended; of these, `events`
  alone appears (`Service`), as `publish` orders it before the brokers.
- `score_node` and `utility`, the numbers that rank nodes which fit.
- Configuration, logging, metrics, health and read-only endpoints: no protocol state.
- The experiment switches of the API, other than as a free choice of the mode.
- The load generator, scripts and deployment files: clients and drivers of the system.

Payload formatting and SQL text are abstracted in the modules above. A call that raises is
taken not to have had its effect. But `publish` is several calls: `Service` takes them apart,
and in `Executor` `execution.done` may be with one broker as `publish` raises (`doneSent`,
`belied`). In `TaskFlow` an execution fails over a failed node only; any other exception of
`execute_task` records and announces the same (`Executor`).
Whether a node is overbooked is not asked: a `reserve` reads and writes without looking at
the capacity. The start order of the containers (`depends_on` lets the API migrate first in
`docker-compose.yml`) is not assumed in `Service`, where any two may migrate at once.

## 6. What is left

1. A refinement between a module at the grain of awaits and `TaskFlow` (the coordinator's
   attempt, the executor's as one execution), in place of the informal correspondence of
   section 2.
2. `TaskFlow`'s broker as an instance of `EventDelivery`. The steps correspond, but `TaskFlow`
   names an event by its content and handles one and publishes others in one step, while an
   event of `EventDelivery` is published once: the copies would have to carry an identity.
