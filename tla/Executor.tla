------------------------------- MODULE Executor -------------------------------
(***************************************************************************)
(* executor-agent (services/executor_agent/main.py) and the node failure   *)
(* endpoint of api-service (simulate_node_failure), with the stores both   *)
(* write: the node hashes, running sets and task hashes in Redis and the   *)
(* tasks table in PostgreSQL.  The coordinator and the queue-agent are here*)
(* with the three calls each by which they write the same row and hash.    *)
(*                                                                         *)
(* The executor handles one message of queue.executor at a time; a step    *)
(* runs from one await to the next.  The API request runs beside it, one   *)
(* request at a time, one await per step.                                  *)
(*                                                                         *)
(* Every task needs one unit of one resource: cpu and ram are reserved and *)
(* released by the same two hash fields in one HSET.                       *)
(***************************************************************************)
EXTENDS Naturals, FiniteSets

CONSTANTS
    Tasks, Nodes,
    Critical,        \* tasks of class critical
    NoTask, NoNode, NoMessage,
    MaxDispatches,   \* bound: decision.dispatch events, redispatches included
    MaxDuplicates,   \* bound: further copies of one, by another queue's retries
    MaxRequests,     \* bound: request.created delivered once more
    MaxFailures,     \* bound: node failure requests
    MaxFaults        \* bound: failing calls and process crashes

ASSUME CriticalAssumption == Critical \subseteq Tasks
ASSUME NullAssumption == NoTask \notin Tasks /\ NoNode \notin Nodes
ASSUME BoundsAssumption == /\ MaxDispatches \in Nat /\ MaxDuplicates \in Nat
                           /\ MaxRequests \in Nat /\ MaxFailures \in Nat /\ MaxFaults \in Nat

(* decision.dispatch carries a task and a node, node.unavailable a node.   *)
Messages == [task : Tasks \cup {NoTask}, node : Nodes]

ASSUME NoMessageAssumption == NoMessage \notin Messages

VARIABLES
    failed,      \* nodes whose hash says status = failed
    used,        \* cpu_used of each node's hash
    expired,     \* nodes whose hash ran out its TTL at some time
    running,     \* node:<n>:running
    hash,        \* status and node_id in task:<t>
    pg,          \* tasks.status and tasks.assigned_node_id
    inbox,       \* messages waiting in queue.executor
    attempt,     \* where the coordinator's attempt at a task is, and its node
    enqueued,    \* tasks the queue-agent has written to the hash, not yet to the row
    msg, pc,     \* the executor's message and where its handler is
    reserved,    \* execute_task's local flag
    seen,        \* cpu_used as reserve() read it
    todo, cur,   \* fail_tasks_on_node's loop
    apiNode, apiPc, apiTodo, apiTask, apiSeen,  \* simulate_node_failure
    sent,        \* dispatches that were published (history)
    deliveries,  \* dispatches of a task taken from the queue (history)
    outcomes,    \* events execute_task published for a task (history)
    belied,      \* of these, an execution.done whose publish raised after it was out (history)
    last,        \* the last execution.* event of a task (history)
    commits,     \* dispatches of a task acknowledged (history)
    leaked,      \* reservations whose owner died (history)
    overwritten, \* tasks whose hash the API wrote since their dispatch (history)
    torn,        \* tasks a writer of both stores left halfway, or two wrote at once (history)
    unfinished,  \* tasks recorded for an execution that is not on its way (history)
    budget       \* what is left of each bound

nodeState == <<failed, used, expired, running>>
taskState == <<hash, pg>>
writers == <<attempt, enqueued>>
handler == <<msg, pc, reserved, seen, todo, cur>>
request == <<apiNode, apiPc, apiTodo, apiTask, apiSeen>>
counts == <<deliveries, outcomes, belied, commits>>
marks == <<overwritten, torn, unfinished>>
history == <<sent, counts, last, leaked, marks>>
vars == <<nodeState, taskState, writers, inbox, handler, request, history, budget>>

Statuses == {"created", "classified", "dispatched", "running", "done", "failed"}
TaskRecord == [status : Statuses, node : Nodes \cup {NoNode}]

TryPoints == {"zrem", "readNode", "reserve", "sadd", "pgRunning",
              "hashRunning", "poll", "releaseRead", "releaseWrite", "srem", "pgDone",
              "hashDone", "publishDone", "doneSent"}
ExceptPoints == {"xReleaseRead", "xReleaseWrite", "xSrem", "xPg", "xHash", "xPublish"}
UnavailablePoints == {"members", "next", "uPg", "uHash", "uPublish", "del"}
ApiPoints == {"idle", "update", "next", "mark", "requeue"}

TypeOK ==
    /\ failed \subseteq Nodes /\ expired \subseteq Nodes
    /\ used \in [Nodes -> Nat]
    /\ running \in [Nodes -> SUBSET Tasks]
    /\ hash \in [Tasks -> TaskRecord] /\ pg \in [Tasks -> TaskRecord]
    /\ attempt \in [Tasks -> [at : {"none", "hash", "event"}, node : Nodes \cup {NoNode}]]
    /\ enqueued \subseteq Tasks
    /\ inbox \in [Messages -> Nat] /\ sent \subseteq Messages
    /\ msg \in Messages \cup {NoMessage}
    /\ pc \in {"idle", "commit"} \cup TryPoints \cup ExceptPoints \cup UnavailablePoints
    /\ reserved \in BOOLEAN /\ seen \in Nat
    /\ todo \subseteq Tasks /\ cur \in Tasks \cup {NoTask}
    /\ apiNode \in Nodes \cup {NoNode} /\ apiPc \in ApiPoints
    /\ apiTodo \subseteq Tasks /\ apiTask \in Tasks \cup {NoTask} /\ apiSeen \in TaskRecord
    /\ deliveries \in [Tasks -> Nat] /\ outcomes \in [Tasks -> Nat]
    /\ belied \in [Tasks -> Nat] /\ commits \in [Tasks -> Nat]
    /\ last \in [Tasks -> {"none", "done", "failed"}]
    /\ leaked \in [Nodes -> Nat] /\ overwritten \cup torn \cup unfinished \subseteq Tasks
    /\ budget \in [{"dispatches", "duplicates", "requests", "failures", "faults"} -> Nat]

NoAttempt == [at |-> "none", node |-> NoNode]
Nobody == [status |-> "created", node |-> NoNode]

Init ==
    /\ failed = {} /\ expired = {}
    /\ used = [n \in Nodes |-> 0]
    /\ running = [n \in Nodes |-> {}]
    /\ hash = [t \in Tasks |-> [Nobody EXCEPT !.status = "classified"]]
    /\ pg = [t \in Tasks |-> [Nobody EXCEPT !.status = "classified"]]
    /\ attempt = [t \in Tasks |-> NoAttempt] /\ enqueued = {}
    /\ inbox = [m \in Messages |-> 0] /\ sent = {}
    /\ msg = NoMessage /\ pc = "idle" /\ reserved = FALSE /\ seen = 0
    /\ todo = {} /\ cur = NoTask
    /\ apiNode = NoNode /\ apiPc = "idle" /\ apiTodo = {} /\ apiTask = NoTask /\ apiSeen = Nobody
    /\ deliveries = [t \in Tasks |-> 0] /\ outcomes = [t \in Tasks |-> 0]
    /\ belied = [t \in Tasks |-> 0] /\ commits = [t \in Tasks |-> 0]
    /\ last = [t \in Tasks |-> "none"]
    /\ leaked = [n \in Nodes |-> 0] /\ overwritten = {} /\ torn = {} /\ unfinished = {}
    /\ budget = [dispatches |-> MaxDispatches, duplicates |-> MaxDuplicates,
                 requests |-> MaxRequests, failures |-> MaxFailures, faults |-> MaxFaults]

Spend(kind) == budget[kind] > 0 /\ budget' = [budget EXCEPT ![kind] = @ - 1]
Fault == Spend("faults")

(***************************************************************************)
(* The coordinator and the queue-agent, beside the executor.               *)
(***************************************************************************)
(* The writers of row and hash that are between the two.  What an execution*)
(* writes first, running, it writes over itself.                           *)
Recording(t) == attempt[t].at = "hash"
Enqueueing(t) == t \in enqueued
Ending(t) == \/ pc \in {"hashDone", "xHash"} /\ msg.task = t
             \/ pc = "uHash" /\ cur = t

Tear(t, crossed) == torn' = IF crossed THEN torn \cup {t} ELSE torn

Beside == <<nodeState, handler, request, sent, counts, last, leaked, overwritten>>

(* The coordinator records its decision: update_task, then the hash.       *)
DispatchRow(t, n) ==
    /\ attempt[t] = NoAttempt /\ Spend("dispatches")
    /\ pg' = [pg EXCEPT ![t] = [status |-> "dispatched", node |-> n]]
    /\ attempt' = [attempt EXCEPT ![t] = [at |-> "hash", node |-> n]]
    /\ Tear(t, Ending(t) \/ Enqueueing(t))
    /\ UNCHANGED <<hash, enqueued, inbox, Beside, unfinished>>

DispatchHash(t) ==
    /\ Recording(t)
    /\ hash' = [hash EXCEPT ![t] = [status |-> "dispatched", node |-> attempt[t].node]]
    /\ attempt' = [attempt EXCEPT ![t].at = "event"]
    /\ Tear(t, Ending(t) \/ Enqueueing(t))
    /\ UNCHANGED <<pg, enqueued, inbox, Beside, unfinished, budget>>

(* ... and publishes it: the task is on its way again.                     *)
DispatchEvent(t) ==
    /\ attempt[t].at = "event"
    /\ LET m == [task |-> t, node |-> attempt[t].node]
       IN  inbox' = [inbox EXCEPT ![m] = @ + 1] /\ sent' = sent \cup {m}
    /\ attempt' = [attempt EXCEPT ![t] = NoAttempt]
    /\ overwritten' = overwritten \ {t} /\ torn' = torn \ {t} /\ unfinished' = unfinished \ {t}
    /\ UNCHANGED <<nodeState, taskState, enqueued, handler, request, counts, last, leaked, budget>>

(* A call of the attempt raises, or the coordinator dies: what it recorded *)
(* stays recorded, and nothing follows.                                    *)
AttemptDies(t) ==
    /\ attempt[t] # NoAttempt /\ Fault
    /\ attempt' = [attempt EXCEPT ![t] = NoAttempt]
    /\ Tear(t, Recording(t))
    /\ unfinished' = unfinished \cup {t}
    /\ UNCHANGED <<taskState, enqueued, inbox, Beside>>

(* A request.created that is delivered again: enqueue_task writes the hash,*)
(* then the row.  The dispatch that should follow is not part of it.       *)
EnqueueHash(t) ==
    /\ t \notin enqueued /\ Spend("requests")
    /\ hash' = [hash EXCEPT ![t].status = "classified"]
    /\ enqueued' = enqueued \cup {t}
    /\ Tear(t, Ending(t) \/ Recording(t))
    /\ unfinished' = unfinished \cup {t}
    /\ UNCHANGED <<pg, attempt, inbox, Beside>>

EnqueueRow(t) ==
    /\ Enqueueing(t)
    /\ pg' = [pg EXCEPT ![t].status = "classified"]
    /\ enqueued' = enqueued \ {t}
    /\ Tear(t, Ending(t) \/ Recording(t))
    /\ unfinished' = unfinished \cup {t}
    /\ UNCHANGED <<hash, attempt, inbox, Beside, budget>>

EnqueueDies(t) ==
    /\ Enqueueing(t) /\ Fault
    /\ enqueued' = enqueued \ {t}
    /\ Tear(t, TRUE)
    /\ UNCHANGED <<taskState, attempt, inbox, Beside, unfinished>>

(***************************************************************************)
(* The surroundings.                                                       *)
(***************************************************************************)
(* decision.dispatch is bound to queue.sla too: when the SLA agent fails   *)
(* to commit it, its retry copy reaches queue.executor as well.            *)
Duplicate(m) ==
    /\ m \in sent
    /\ Spend("duplicates")
    /\ inbox' = [inbox EXCEPT ![m] = @ + 1]
    /\ UNCHANGED <<nodeState, taskState, writers, handler, request, history>>

(* runtime_ttl_seconds after the resource agent wrote it, the node's hash  *)
(* is gone, with its status and its reservations.                          *)
NodeKeyExpires(n) ==
    /\ n \notin expired
    /\ expired' = expired \cup {n}
    /\ failed' = failed \ {n}
    /\ used' = [used EXCEPT ![n] = 0]
    /\ UNCHANGED <<running, taskState, writers, inbox, handler, request, history, budget>>

(***************************************************************************)
(* worker(): one message at a time.                                        *)
(***************************************************************************)
TaskId == msg.task
NodeId == msg.node

Goto(from, to) == pc = from /\ pc' = to
Rest == <<msg, reserved, seen, todo, cur>>

Receive(m) ==
    /\ pc = "idle" /\ inbox[m] > 0
    /\ inbox' = [inbox EXCEPT ![m] = @ - 1]
    /\ msg' = m
    /\ \/ /\ m.task = NoTask
          /\ pc' = "members" /\ UNCHANGED deliveries
       \/ /\ m.task # NoTask
          /\ pc' = "zrem"
          /\ deliveries' = [deliveries EXCEPT ![m.task] = @ + 1]
    /\ UNCHANGED <<nodeState, taskState, writers, reserved, seen, todo, cur, request, sent, outcomes,
                   belied, last, commits, leaked, marks, budget>>

Finish ==
    /\ pc' = "idle" /\ msg' = NoMessage
    /\ reserved' = FALSE /\ seen' = 0 /\ todo' = {} /\ cur' = NoTask

Commit ==
    /\ pc = "commit"
    /\ commits' = IF TaskId = NoTask THEN commits ELSE [commits EXCEPT ![TaskId] = @ + 1]
    /\ Finish
    /\ UNCHANGED <<nodeState, taskState, writers, inbox, request, sent, deliveries, outcomes, belied,
                   last, leaked, marks, budget>>

(* The except block releases without resetting the flag.                   *)
Holding == reserved /\ pc \in TryPoints \cup {"xReleaseRead", "xReleaseWrite"}

(* What execute_task still held is nobody's any more.                      *)
Leak == leaked' = IF Holding THEN [leaked EXCEPT ![NodeId] = @ + 1] ELSE leaked

(* What the message in hand still had to do, and for which tasks.          *)
Unserved ==
    {task \in Tasks :
        \/ pc \in TryPoints \cup ExceptPoints /\ pc # "doneSent" /\ task = TaskId
        \/ pc = "members" /\ task \in running[NodeId]
        \/ pc \in {"next", "uPg", "uHash", "uPublish"} /\ task \in todo
        \/ pc \in {"uPg", "uHash", "uPublish"} /\ task = cur}

(* Outside execute_task's try block an exception reaches worker(), which   *)
(* does not commit: the message returns through the retry queue, or is     *)
(* dead-lettered when it did so too often (RabbitDelivery counts).  A crash*)
(* of the process, wherever it is, returns it.                             *)
Abandon ==
    /\ pc # "idle"
    /\ Fault
    /\ \/ inbox' = [inbox EXCEPT ![msg] = @ + 1] /\ UNCHANGED <<torn, unfinished>>
       \/ /\ torn' = torn \cup Unserved /\ unfinished' = unfinished \cup Unserved
          /\ UNCHANGED inbox
    /\ Leak /\ Finish
    /\ UNCHANGED <<nodeState, taskState, writers, request, sent, counts, last, overwritten>>

(***************************************************************************)
(* execute_task, the try block.                                            *)
(***************************************************************************)
HandleFailure == pc' = IF reserved THEN "xReleaseRead" ELSE "xPg"

(* Any of its calls may raise; the except block takes over.                *)
TryRaises ==
    /\ pc \in TryPoints
    /\ Fault
    /\ HandleFailure
    /\ belied' = IF pc = "doneSent" THEN [belied EXCEPT ![TaskId] = @ + 1] ELSE belied
    /\ UNCHANGED <<Rest, nodeState, taskState, writers, inbox, request, sent, deliveries, outcomes,
                   commits, last, leaked, marks>>

(* The two ZREMs: the queues are TaskQueues'.                              *)
RemoveFromWaiting ==
    /\ Goto("zrem", "readNode")
    /\ UNCHANGED <<Rest, nodeState, taskState, writers, inbox, request, history, budget>>

(* reserve(+1) reads the whole hash and writes the sum in a second call.   *)
ReadNode ==
    /\ pc = "readNode"
    /\ \/ NodeId \in failed /\ HandleFailure /\ UNCHANGED seen
       \/ NodeId \notin failed /\ pc' = "reserve" /\ seen' = used[NodeId]
    /\ UNCHANGED <<msg, reserved, todo, cur, nodeState, taskState, writers, inbox, request, history, budget>>

Reserve ==
    /\ Goto("reserve", "sadd")
    /\ used' = [used EXCEPT ![NodeId] = seen + 1]
    /\ reserved' = TRUE
    /\ UNCHANGED <<msg, seen, todo, cur, failed, expired, running, taskState, writers, inbox,
                   request, history, budget>>

AddRunning ==
    /\ Goto("sadd", "pgRunning")
    /\ running' = [running EXCEPT ![NodeId] = @ \cup {TaskId}]
    /\ UNCHANGED <<Rest, failed, used, expired, taskState, writers, inbox, request, history, budget>>

RecordRunning ==
    /\ \/ /\ Goto("pgRunning", "hashRunning")
          /\ pg' = [pg EXCEPT ![TaskId] = [status |-> "running", node |-> NodeId]]
          /\ UNCHANGED hash
       \/ /\ Goto("hashRunning", "poll")
          /\ hash' = [hash EXCEPT ![TaskId] = [status |-> "running", node |-> NodeId]]
          /\ UNCHANGED pg
    /\ UNCHANGED <<Rest, nodeState, writers, inbox, request, history, budget>>

(* Every half second of the task; a look that finds the node alive changes *)
(* nothing, except that after the last one the task is done.               *)
Poll ==
    /\ pc = "poll"
    /\ IF NodeId \in failed THEN HandleFailure ELSE pc' = "releaseRead"
    /\ UNCHANGED <<Rest, nodeState, taskState, writers, inbox, request, history, budget>>

(* Mutant: cpu_used is not kept from falling below zero.                   *)
Release_BelowZero(from, to) ==
    /\ Goto(from, to)
    /\ used' = [used EXCEPT ![NodeId] = seen - 1]
    /\ UNCHANGED <<msg, seen, todo, cur, failed, expired, running, taskState, writers, inbox,
                   request, history, budget>>

Release(from, to) ==
    /\ Goto(from, to)
    /\ used' = [used EXCEPT ![NodeId] = IF seen > 0 THEN seen - 1 ELSE 0]
    /\ UNCHANGED <<msg, seen, todo, cur, failed, expired, running, taskState, writers, inbox,
                   request, history, budget>>

ReadBeforeRelease ==
    /\ \/ Goto("releaseRead", "releaseWrite")
       \/ Goto("xReleaseRead", "xReleaseWrite")
    /\ seen' = used[NodeId]
    /\ UNCHANGED <<msg, reserved, todo, cur, nodeState, taskState, writers, inbox, request, history, budget>>

(* Mutant: the flag is not reset after the release.                        *)
ReleaseDone_KeepsFlag == Release("releaseWrite", "srem") /\ UNCHANGED reserved

ReleaseDone == Release("releaseWrite", "srem") /\ reserved' = FALSE

RemoveRunning ==
    /\ Goto("srem", "pgDone") \/ Goto("xSrem", "xPg")
    /\ running' = [running EXCEPT ![NodeId] = @ \ {TaskId}]
    /\ UNCHANGED <<Rest, failed, used, expired, taskState, writers, inbox, request, history, budget>>

RecordStatus(task, status, from, to, hashFrom, hashTo) ==
    /\ \/ /\ Goto(from, to)
          /\ pg' = [pg EXCEPT ![task].status = status]
          /\ UNCHANGED hash
       \/ /\ Goto(hashFrom, hashTo)
          /\ hash' = [hash EXCEPT ![task].status = status]
          /\ UNCHANGED pg
    /\ Tear(task, Recording(task) \/ Enqueueing(task))
    /\ UNCHANGED <<Rest, nodeState, writers, inbox, request, sent, counts, last, leaked, overwritten,
                   unfinished, budget>>

(* Mutant: only the row says done.                                         *)
RecordDone_RowOnly == RecordStatus(TaskId, "done", "pgDone", "publishDone", "hashDone", "publishDone")

RecordDone == RecordStatus(TaskId, "done", "pgDone", "hashDone", "hashDone", "publishDone")

(* save_execution and the event.  It is out before publish() returns: what *)
(* raises behind it leads to the except block all the same.                *)
Publish(from, event, to) ==
    /\ Goto(from, to)
    /\ outcomes' = [outcomes EXCEPT ![TaskId] = @ + 1]
    /\ last' = [last EXCEPT ![TaskId] = event]
    /\ UNCHANGED <<Rest, nodeState, taskState, writers, inbox, request, sent, deliveries, belied, commits,
                   leaked, marks, budget>>

PublishDone == Publish("publishDone", "done", "doneSent")

Published ==
    /\ Goto("doneSent", "commit")
    /\ UNCHANGED <<Rest, nodeState, taskState, writers, inbox, request, history, budget>>

(* Mutant: the except block releases without leaving the running set.      *)
ReleaseFailed_NoSrem == Release("xReleaseWrite", "xPg") /\ UNCHANGED reserved

(***************************************************************************)
(* execute_task, the except block.                                         *)
(***************************************************************************)
ReleaseFailed == Release("xReleaseWrite", "xSrem") /\ UNCHANGED reserved
(* Mutant: the except block writes the hash only.                          *)
RecordFailed_HashOnly ==
    \/ /\ Goto("xPg", "xHash")
       /\ UNCHANGED <<Rest, nodeState, taskState, writers, inbox, request, history, budget>>
    \/ RecordStatus(TaskId, "failed", "none", "none", "xHash", "xPublish")

RecordFailed == RecordStatus(TaskId, "failed", "xPg", "xHash", "xHash", "xPublish")
(* Mutant: a failed execution is acknowledged without an event.            *)
PublishFailed_Silent ==
    /\ Goto("xPublish", "commit")
    /\ UNCHANGED <<Rest, nodeState, taskState, writers, inbox, request, history, budget>>

PublishFailed == Publish("xPublish", "failed", "commit")

(***************************************************************************)
(* fail_tasks_on_node.                                                     *)
(***************************************************************************)
ReadMembers ==
    /\ Goto("members", "next")
    /\ todo' = running[NodeId]
    /\ UNCHANGED <<msg, reserved, seen, cur, nodeState, taskState, writers, inbox, request, history, budget>>

NextMember ==
    /\ pc = "next"
    /\ \/ todo = {} /\ pc' = "del" /\ UNCHANGED <<cur, todo>>
       \/ /\ cur' \in todo
          /\ todo' = todo \ {cur'}
          /\ pc' = "uPg"
    /\ UNCHANGED <<msg, reserved, seen, nodeState, taskState, writers, inbox, request, history, budget>>

FailMember == RecordStatus(cur, "failed", "uPg", "uHash", "uHash", "uPublish")

PublishMember ==
    /\ Goto("uPublish", "next")
    /\ last' = [last EXCEPT ![cur] = "failed"]
    /\ UNCHANGED <<Rest, nodeState, taskState, writers, inbox, request, sent, counts, leaked, marks,
                   budget>>

ForgetMembers ==
    /\ Goto("del", "commit")
    /\ running' = [running EXCEPT ![NodeId] = {}]
    /\ UNCHANGED <<Rest, failed, used, expired, taskState, writers, inbox, request, history, budget>>

(***************************************************************************)
(* simulate_node_failure.                                                  *)
(***************************************************************************)
FailNode(node) ==
    /\ apiPc = "idle"
    /\ Spend("failures")
    /\ failed' = failed \cup {node}
    /\ apiNode' = node /\ apiPc' = "update"
    /\ UNCHANGED <<used, expired, running, taskState, writers, inbox, handler, apiTodo, apiTask, apiSeen, history>>

OnNode(record) == record.node = apiNode /\ record.status = "running"

(* Mutant: the UPDATE does not ask for status = 'running'.                 *)
FailRows_AnyStatus ==
    /\ apiPc = "update" /\ apiPc' = "next"
    /\ pg' = [task \in Tasks |-> IF pg[task].node = apiNode
                                 THEN [pg[task] EXCEPT !.status = "failed"] ELSE pg[task]]
    /\ apiTodo' = Tasks
    /\ UNCHANGED <<nodeState, hash, writers, inbox, handler, apiNode, apiTask, apiSeen, history, budget>>

(* UPDATE tasks ... WHERE assigned_node_id = :node_id AND status =         *)
(* 'running', then the keys of all task hashes.                            *)
FailRows ==
    /\ apiPc = "update" /\ apiPc' = "next"
    /\ pg' = [task \in Tasks |-> IF OnNode(pg[task]) THEN [pg[task] EXCEPT !.status = "failed"]
                                                    ELSE pg[task]]
    /\ apiTodo' = Tasks
    /\ UNCHANGED <<nodeState, hash, writers, inbox, handler, apiNode, apiTask, apiSeen, history, budget>>

(* What both ifs of the loop go by is the hash as it was read here.        *)
ReadTask ==
    /\ apiPc = "next"
    /\ apiTask' \in apiTodo
    /\ apiTodo' = apiTodo \ {apiTask'}
    /\ apiSeen' = hash[apiTask']
    /\ apiPc' = IF OnNode(apiSeen') THEN "mark"
                ELSE IF apiTask' \in Critical /\ apiSeen'.status = "failed" THEN "requeue"
                ELSE "next"
    /\ UNCHANGED <<nodeState, taskState, writers, inbox, handler, apiNode, history, budget>>

Overwrite(from, status) ==
    /\ apiPc = from /\ apiPc' = "next"
    /\ hash' = [hash EXCEPT ![apiTask].status = status]
    /\ overwritten' = overwritten \cup {apiTask}
    /\ UNCHANGED <<nodeState, pg, writers, inbox, handler, apiNode, apiTodo, apiTask, apiSeen, sent,
                   counts, last, leaked, torn, unfinished, budget>>

MarkFailed == Overwrite("mark", "failed")

(* ... and adds the task to the queues, which are TaskQueues'.             *)
MarkClassified == Overwrite("requeue", "classified")

EndRequest == apiPc' = "idle" /\ apiNode' = NoNode /\ apiTask' = NoTask /\ apiSeen' = Nobody

PublishUnavailable ==
    /\ apiPc = "next" /\ apiTodo = {}
    /\ inbox' = [inbox EXCEPT ![[task |-> NoTask, node |-> apiNode]] = @ + 1]
    /\ EndRequest
    /\ UNCHANGED <<nodeState, taskState, writers, handler, apiTodo, history, budget>>

(* A call raises, or api-service dies: the request is not repeated.        *)
RequestDies ==
    /\ apiPc # "idle"
    /\ Fault
    /\ EndRequest /\ apiTodo' = {}
    /\ UNCHANGED <<nodeState, taskState, writers, inbox, handler, history>>

-----------------------------------------------------------------------------
ExecutorStep ==
    \/ \E m \in Messages : Receive(m)
    \/ Commit
    \/ RemoveFromWaiting \/ ReadNode \/ Reserve \/ AddRunning \/ RecordRunning \/ Poll
    \/ ReadBeforeRelease \/ ReleaseDone \/ RemoveRunning \/ RecordDone \/ PublishDone \/ Published
    \/ ReleaseFailed \/ RecordFailed \/ PublishFailed
    \/ ReadMembers \/ NextMember \/ FailMember \/ PublishMember \/ ForgetMembers

RequestStep ==
    \/ FailRows \/ ReadTask \/ MarkFailed \/ MarkClassified \/ PublishUnavailable

Surroundings ==
    \/ \E task \in Tasks, node \in Nodes : DispatchRow(task, node)
    \/ \E task \in Tasks :
          DispatchHash(task) \/ DispatchEvent(task) \/ EnqueueHash(task) \/ EnqueueRow(task)
    \/ \E m \in Messages : Duplicate(m)
    \/ \E node \in Nodes : NodeKeyExpires(node) \/ FailNode(node)

Failure ==
    \/ Abandon \/ TryRaises \/ RequestDies
    \/ \E task \in Tasks : AttemptDies(task) \/ EnqueueDies(task)

Next == ExecutorStep \/ RequestStep \/ Surroundings \/ Failure

Spec == Init /\ [][Next]_vars

(***************************************************************************)
(* Properties.                                                             *)
(***************************************************************************)
(* A dispatch is acknowledged only after its outcome was published (an     *)
(* execution.done, or the except block's execution.failed), and no         *)
(* delivery publishes two, but for an execution.done that was out when its *)
(* publish() raised.                                                       *)
OutcomePerDispatch ==
    \A task \in Tasks : /\ commits[task] <= outcomes[task]
                        /\ outcomes[task] <= deliveries[task] + belied[task]

(* Read-modify-write reservations lose nothing: until its hash has expired *)
(* once, a node's cpu_used is what the running execution holds and what    *)
(* dead executions left behind, whatever fails and wherever.               *)
ReservationsAccounted ==
    \A node \in Nodes \ expired :
        used[node] = leaked[node] + (IF Holding /\ NodeId = node THEN 1 ELSE 0)

Faulty == budget.faults < MaxFaults

(* While nothing has failed, a node's running set holds only the task the  *)
(* executor is executing there.                                            *)
RunningIsLive ==
    \A node \in Nodes : \A task \in running[node] :
        Faulty \/ (msg = [task |-> task, node |-> node] /\ pc \in TryPoints \cup ExceptPoints)

AtRest ==
    /\ pc = "idle" /\ apiPc = "idle" /\ \A m \in Messages : inbox[m] = 0
    /\ enqueued = {} /\ \A task \in Tasks : attempt[task] = NoAttempt

(* When nothing is under way, the row in PostgreSQL says what the last     *)
(* execution event said, although API, coordinator, queue-agent and        *)
(* executor all write it: unless, since the last dispatch was published,   *)
(* one was recorded by an attempt that died before publishing it, or the   *)
(* task was enqueued anew, or what would have executed or failed it was    *)
(* dead-lettered.                                                          *)
RowMatchesLastEvent ==
    AtRest => \A task \in Tasks :
        last[task] # "none" => pg[task].status = last[task] \/ task \in unfinished

(* When nothing is under way, both stores have the same status of a task,  *)
(* unless, since its last dispatch, the API wrote its hash by what it had  *)
(* read before, a writer was stopped between row and hash or another wrote *)
(* there meanwhile, or what would have written both was dead-lettered.     *)
StoresAgree ==
    AtRest => \A task \in Tasks :
        pg[task].status = hash[task].status \/ task \in overwritten \cup torn

(* A task recorded as done is recorded as failed afterwards only when a    *)
(* call failed, or a further copy of its dispatch was taken: the API       *)
(* touches rows in status running only.                                    *)
DoneStands ==
    [][\A task \in Tasks :
         pg[task].status = "done" /\ pg'[task].status = "failed" =>
             Faulty' \/ deliveries[task] > 1]_vars

(* docs/FINAL_REPORT.md:16-17 has a failed node's tasks end in             *)
(* execution.failed: a row the API set to failed because its node failed   *)
(* is not set to done by the execution that was running there.             *)
NodeFailureStands ==
    [][\A task \in Tasks : pg[task].status = "failed" => pg'[task].status # "done"]_vars
=============================================================================
