-------------------------------- MODULE TaskFlow --------------------------------
(***************************************************************************)
(* The agents together, at the grain of messages: api-service, queue-,     *)
(* resource-, sla-, coordinator-, executor- and scale-agent around the     *)
(* broker, the tasks table and Redis.  A consumer's handler is one step;   *)
(* the coordinator's decision, which runs beside its worker, goes from one *)
(* await that matters to other agents to the next, and so does the API's   *)
(* node failure.  What else happens between awaits is the subject of       *)
(* Coordinator, Executor, TaskQueues and NodePool, and so are the task     *)
(* hashes: what a handler reads of one is a choice here.                   *)
(*                                                                         *)
(* The broker copies an event to every queue bound to it and keeps each    *)
(* copy until it is handled, in any order (RabbitDelivery).  Every node    *)
(* fits one task.  The forecast agent only ranks, and is left out.         *)
(***************************************************************************)
EXTENDS Naturals, FiniteSets, Bags

CONSTANTS
    Tasks,
    Nodes,           \* configured nodes and those scale-out may add
    Configured,      \* resource-agent's nodes, there from the start
    NoTask, NoNode,
    Severities,      \* the outcomes of an assessment that are regarded
    MaxCooldowns,    \* bound: cooldowns that end
    MaxFaults        \* bound: retry copies, losses and node failures together

ASSUME NodesAssumption == Configured \subseteq Nodes /\ NoNode \notin Nodes
ASSUME TasksAssumption == NoTask \notin Tasks /\ Severities \subseteq {"low", "high"}
ASSUME BoundsAssumption == MaxCooldowns \in Nat /\ MaxFaults \in Nat

Event(kind, task, about) == [kind |-> kind, task |-> task, about |-> about]

(* "about" is a node, a severity, or what a decision.scale asks for.       *)
Events ==
    [kind : {"created", "classified", "place", "scaled"}, task : Tasks, about : {"none"}]
    \cup [kind : {"fit"}, task : Tasks, about : Nodes \cup {NoNode}]
    \cup [kind : {"risk"}, task : Tasks, about : {"low", "high"}]
    \cup [kind : {"dispatch"}, task : Tasks, about : Nodes]
    \cup [kind : {"scale"}, task : Tasks, about : {"requeue", "advisory"}]

(* The bindings, as far as a consumer does anything with the event that    *)
(* was not done before: node.unavailable only repeats here what the API    *)
(* did (Executor and NodePool tell them apart).                            *)
BoundTo(e) ==
    CASE e.kind \in {"created", "scaled"}      -> {"requests"}
      [] e.kind = "classified"                 -> {"coordinator", "sla"}
      [] e.kind = "place"                      -> {"resources"}
      [] e.kind = "risk" /\ e.about = "high"   -> {"requests", "coordinator"}
      [] e.kind = "dispatch"                   -> {"executor"}
      [] e.kind = "scale"                      -> {"scale"}
      [] OTHER                                 -> {"coordinator"}

Queues == {"requests", "resources", "sla", "coordinator", "executor", "scale"}

VARIABLES
    inbox,      \* bag of <<queue, event>>: the copies not yet handled
    row,        \* tasks.status
    assigned,   \* tasks.assigned_node_id
    classified, proposals, made, risk,  \* the coordinator's keys
    stored,     \* the task of the signal the coordinator's worker has in hand
    attempt,    \* pending_decisions: where a task's is, and its locals
    nodes,      \* nodes with a hash
    failed,     \* nodes whose hash says failed
    failing,    \* nodes whose failure request has not come to the rows
    exec,       \* what the executor runs
    cooling,    \* scaling:last_action_ts is less than a cooldown old
    blocked,    \* tasks whose request for a node the cooldown refused (history)
    lost,       \* tasks that lost a message, an attempt or their submission (history)
    skipped,    \* tasks whose last signal met an attempt that was past its reads (history)
    retried, regressed, \* what was begun again, and rows set back, per task (history)
    cooldowns, faults

bounds == <<cooldowns, faults>>
stores == <<row, assigned, regressed>>
keys == <<classified, proposals, made, risk>>
deciding == <<stored, attempt, skipped>>
pool == <<nodes, failed, failing, exec, cooling>>
history == <<blocked, lost, retried>>
vars == <<inbox, stores, keys, deciding, pool, history, bounds>>

Lifecycle == INSTANCE TaskLifecycle WITH
    stage <- row,
    credit <- [t \in Tasks |-> retried[t] - regressed[t]],
    replayed <- {t \in Tasks : retried[t] > 0}

Idle == [task |-> NoTask, node |-> NoNode]

(* Where an attempt is; and once it has chosen a node.                     *)
Open == {"none", "window", "degrading", "asking", "over"}
Chosen == {"recording", "sending", "marking", "advising"}

Attempts ==
    [at : Open, node : Nodes \cup {NoNode}, advise : BOOLEAN]
    \cup [at : Chosen, node : Nodes, advise : BOOLEAN]

NoAttempt == [at |-> "none", node |-> NoNode, advise |-> FALSE]

TypeOK ==
    /\ IsABag(inbox) /\ BagToSet(inbox) \subseteq Queues \X Events
    /\ row \in [Tasks -> Lifecycle!Stages]
    /\ assigned \in [Tasks -> Nodes \cup {NoNode}]
    /\ classified \subseteq Tasks /\ made \subseteq Tasks
    /\ proposals \in [Tasks -> SUBSET (Nodes \cup {NoNode})]
    /\ risk \in [Tasks -> {"none", "foreign", "low", "high"}]
    /\ stored \in Tasks \cup {NoTask}
    /\ attempt \in [Tasks -> Attempts]
    /\ nodes \subseteq Nodes /\ failed \subseteq nodes /\ failing \subseteq Nodes
    /\ exec \in [task : Tasks, node : Nodes] \cup {Idle}
    /\ cooling \in BOOLEAN
    /\ blocked \subseteq Tasks /\ lost \subseteq Tasks /\ skipped \subseteq Tasks
    /\ retried \in [Tasks -> Nat] /\ regressed \in [Tasks -> Nat]
    /\ cooldowns \in 0 .. MaxCooldowns /\ faults \in 0 .. MaxFaults

Init ==
    /\ inbox = EmptyBag
    /\ row = [t \in Tasks |-> "absent"]
    /\ assigned = [t \in Tasks |-> NoNode]
    /\ classified = {} /\ made = {}
    /\ proposals = [t \in Tasks |-> {}]
    /\ risk = [t \in Tasks |-> "none"]
    /\ stored = NoTask /\ attempt = [t \in Tasks |-> NoAttempt]
    /\ nodes = Configured /\ failed = {} /\ failing = {} /\ exec = Idle /\ cooling = FALSE
    /\ blocked = {} /\ lost = {} /\ skipped = {}
    /\ retried = [t \in Tasks |-> 0] /\ regressed = [t \in Tasks |-> 0]
    /\ cooldowns = 0 /\ faults = 0

(***************************************************************************)
(* The broker.                                                             *)
(***************************************************************************)
(* publish: the event's row, then one copy for each queue bound to it.     *)
Copies(events) == SetToBag(UNION {BoundTo(e) \X {e} : e \in events})

Publish(events) == inbox' = inbox (+) Copies(events)

(* A consumer takes a copy, its handler publishes events and commits.      *)
Handles(queue, event, events) ==
    /\ BagIn(<<queue, event>>, inbox)
    /\ inbox' = (inbox (-) SetToBag({<<queue, event>>})) (+) Copies(events)

(* The bound counts a retry copy or a loss as two node failures.           *)
Fault(weight) == faults + weight <= MaxFaults /\ faults' = faults + weight /\ UNCHANGED cooldowns

CopiesOf(t) == {c \in BagToSet(inbox) : c[2].task = t}

(* Some handler fails to commit what it did: while its copy is worked off, *)
(* the retry copy goes to every queue bound to the event.                  *)
Redeliver(t) ==
    /\ Fault(2)
    /\ \E c \in CopiesOf(t) : Publish({c[2]})
    /\ retried' = [retried EXCEPT ![t] = @ + 1]
    /\ UNCHANGED <<stores, keys, deciding, pool, blocked, lost>>

Lose(t) == Fault(2) /\ lost' = lost \cup {t}

(* Its handler failed once more than the retry limit.                      *)
DeadLetter(t) ==
    /\ Lose(t)
    /\ \E c \in CopiesOf(t) : inbox' = inbox (-) SetToBag({c})
    /\ UNCHANGED <<stores, keys, deciding, pool, blocked, retried>>

(***************************************************************************)
(* The tasks table.                                                        *)
(***************************************************************************)
SetRow(t, s) ==
    /\ row' = [row EXCEPT ![t] = s]
    /\ regressed' = IF Lifecycle!Rank[s] < Lifecycle!Rank[row[t]]
                    THEN [regressed EXCEPT ![t] = @ + 1] ELSE regressed

(* api-service, submit_task: the row, (the hash,) the event.               *)
Submit(t) ==
    /\ row[t] = "absent"
    /\ SetRow(t, "created")
    /\ Publish({Event("created", t, "none")})
    /\ UNCHANGED <<assigned, keys, deciding, pool, history, bounds>>

(* A call after the INSERT raises: the row stays, and nobody is told.      *)
SubmitFails(t) ==
    /\ row[t] = "absent"
    /\ Lose(t)
    /\ SetRow(t, "created")
    /\ UNCHANGED <<inbox, assigned, keys, deciding, pool, blocked, retried>>

(***************************************************************************)
(* queue-agent.                                                            *)
(***************************************************************************)
Announced(t) == {Event("classified", t, "none"), Event("place", t, "none")}

(* enqueue_task asks nobody whether the task went on since.                *)
Enqueue(t) ==
    /\ Handles("requests", Event("created", t, "none"), Announced(t))
    /\ SetRow(t, "classified")
    /\ UNCHANGED <<assigned, keys, deciding, pool, history, bounds>>

(* apply_sla_signal: a task whose risk asks for a boost is offered for     *)
(* placement again if its hash says classified and the mode is not         *)
(* baseline.  (sla.boost follows sla.risk and does the same.)              *)
Boost(t, severity) ==
    /\ \E events \in SUBSET {Event("place", t, "none")} :
         /\ severity = "low" => events = {}
         /\ Handles("requests", Event("risk", t, severity), events)
    /\ UNCHANGED <<stores, keys, deciding, pool, history, bounds>>

(* handle_scaling_done goes by the hash, which is no further than the row  *)
(* ever was.                                                               *)
RequeueScaled(t) ==
    /\ \E events \in SUBSET {Event("place", t, "none")} :
         /\ row[t] \in {"created", "classified"} /\ regressed[t] = 0 => events # {}
         /\ Handles("requests", Event("scaled", t, "none"), events)
    /\ UNCHANGED <<stores, keys, deciding, pool, history, bounds>>

(***************************************************************************)
(* resource-agent and sla-agent.                                           *)
(***************************************************************************)
Fitting == {n \in nodes \ failed : exec.node # n}

Propose(t) ==
    /\ Handles("resources", Event("place", t, "none"),
               IF Fitting = {} THEN {Event("fit", t, NoNode)}
               ELSE {Event("fit", t, n) : n \in Fitting})
    /\ UNCHANGED <<stores, keys, deciding, pool, history, bounds>>

(* handle_classified writes sla:<t> as a hash, which the coordinator cannot*)
(* read, and publishes the assessment, which depends on the event.         *)
Assess(t, severity) ==
    /\ risk[t] \in {"none", "foreign"}
    /\ risk' = [risk EXCEPT ![t] = "foreign"]
    /\ Handles("sla", Event("classified", t, "none"), {Event("risk", t, severity)})
    /\ UNCHANGED <<stores, classified, proposals, made, deciding, pool, history, bounds>>

(* A second assessment finds the coordinator's string there and raises,    *)
(* as often as it is tried.                                                *)
AssessRaises(t) ==
    /\ risk[t] \in {"low", "high"}
    /\ Handles("sla", Event("classified", t, "none"), {})
    /\ UNCHANGED <<stores, keys, deciding, pool, history, bounds>>

(***************************************************************************)
(* coordinator-agent: the worker.                                          *)
(***************************************************************************)
(* It stores the signal ...                                                *)
Signal(t, event) ==
    /\ stored = NoTask
    /\ Handles("coordinator", event, {})
    /\ stored' = t
    /\ UNCHANGED <<made, attempt, skipped, stores, pool, history, bounds>>

SignalClassified(t) ==
    /\ Signal(t, Event("classified", t, "none"))
    /\ classified' = classified \cup {t}
    /\ UNCHANGED <<proposals, risk>>

SignalFit(t, n) ==
    /\ Signal(t, Event("fit", t, n))
    /\ proposals' = [proposals EXCEPT ![t] = @ \cup {n}]
    /\ UNCHANGED <<classified, risk>>

SignalRisk(t, severity) ==
    /\ Signal(t, Event("risk", t, severity))
    /\ risk' = [risk EXCEPT ![t] = severity]
    /\ UNCHANGED <<classified, proposals>>

(* ... and schedules a decision, unless one is pending: even one that will *)
(* not read any more what was stored.                                      *)
Schedule(t) ==
    /\ stored = t /\ stored' = NoTask
    /\ \/ /\ attempt[t].at = "none"
          /\ attempt' = [attempt EXCEPT ![t].at = "window"]
          /\ skipped' = skipped \ {t}
       \/ /\ attempt[t].at # "none"
          /\ skipped' = IF attempt[t].at \in {"degrading", "over"} THEN skipped \cup {t} ELSE skipped
          /\ UNCHANGED attempt
    /\ UNCHANGED <<inbox, stores, keys, pool, history, bounds>>

(***************************************************************************)
(* coordinator-agent: the attempt, from the end of its window on.          *)
(***************************************************************************)
GoesOn(t, from, to) ==
    /\ attempt[t].at = from
    /\ attempt' = [attempt EXCEPT ![t].at = to]

(* What the answers to the first reads lead to; the order of the reads     *)
(* among themselves matters to Coordinator only.                           *)
Nothing(t) == t \in made \/ t \notin classified \/ risk[t] = "foreign"

LookInVain(t) ==
    /\ GoesOn(t, "window", "over")
    /\ Nothing(t)
    /\ UNCHANGED <<inbox, stores, keys, stored, skipped, pool, history, bounds>>

(* Mutant: an answer "no node fits" is taken for a node.                   *)
Safe_Any(candidates) == candidates

(* safe_proposals.                                                         *)
Safe(candidates) == candidates \ {NoNode}

(* The choice among the candidates: a request for a node, or a decision.   *)
Chooses(t, candidates, advise) ==
    \/ /\ Safe(candidates) = {}
       /\ attempt' = [attempt EXCEPT ![t] = [at |-> "asking", node |-> NoNode, advise |-> FALSE]]
    \/ \E n \in Safe(candidates) :
          attempt' = [attempt EXCEPT ![t] = [at |-> "recording", node |-> n, advise |-> advise]]

(* In baseline mode the risk is not regarded.                              *)
Look(t) ==
    /\ attempt[t].at = "window" /\ ~Nothing(t)
    /\ \E advise \in {FALSE, risk[t] = "high"} :
         \/ /\ proposals[t] = {}
            /\ attempt' = [attempt EXCEPT ![t] = [at |-> "degrading", node |-> NoNode, advise |-> advise]]
         \/ proposals[t] # {} /\ Chooses(t, proposals[t], advise)
    /\ UNCHANGED <<inbox, stores, keys, stored, skipped, pool, history, bounds>>

(* degrade_proposals looks at the nodes itself, and raises while any task  *)
(* runs on one.                                                            *)
Degrade(t) ==
    /\ attempt[t].at = "degrading" /\ exec = Idle
    /\ Chooses(t, Fitting, attempt[t].advise)
    /\ skipped' = skipped \ {t}
    /\ UNCHANGED <<inbox, stores, keys, stored, pool, history, bounds>>

DegradeRaises(t) ==
    /\ GoesOn(t, "degrading", "over")
    /\ exec # Idle
    /\ UNCHANGED <<inbox, stores, keys, stored, skipped, pool, history, bounds>>

(* Mutant: the request does not ask to be requeued after the scale-out.    *)
AskScale_Advisory(t) ==
    /\ GoesOn(t, "asking", "over")
    /\ Publish({Event("scale", t, "advisory")})
    /\ UNCHANGED <<stores, keys, stored, skipped, pool, history, bounds>>

AskScale(t) ==
    /\ GoesOn(t, "asking", "over")
    /\ Publish({Event("scale", t, "requeue")})
    /\ UNCHANGED <<stores, keys, stored, skipped, pool, history, bounds>>

(* The dispatch: the row, the event, decision:made, the advisory request.  *)
RecordRow(t) ==
    /\ GoesOn(t, "recording", "sending")
    /\ SetRow(t, "dispatched")
    /\ assigned' = [assigned EXCEPT ![t] = attempt[t].node]
    /\ UNCHANGED <<inbox, keys, stored, skipped, pool, history, bounds>>

SendDispatch(t) ==
    /\ GoesOn(t, "sending", "marking")
    /\ Publish({Event("dispatch", t, attempt[t].node)})
    /\ UNCHANGED <<stores, keys, stored, skipped, pool, history, bounds>>

(* Mutant: decision:made is not written.                                   *)
Mark_NotSet(t) ==
    /\ GoesOn(t, "marking", IF attempt[t].advise THEN "advising" ELSE "over")
    /\ UNCHANGED <<inbox, stores, keys, stored, skipped, pool, history, bounds>>

Mark(t) ==
    /\ GoesOn(t, "marking", IF attempt[t].advise THEN "advising" ELSE "over")
    /\ made' = made \cup {t}
    /\ UNCHANGED <<inbox, stores, classified, proposals, risk, stored, skipped, pool, history, bounds>>

Advise(t) ==
    /\ GoesOn(t, "advising", "over")
    /\ Publish({Event("scale", t, "advisory")})
    /\ UNCHANGED <<stores, keys, stored, skipped, pool, history, bounds>>

(* The attempt has the answer to its last call and leaves pending_decisions.*)
Leave(t) ==
    /\ attempt[t].at = "over"
    /\ attempt' = [attempt EXCEPT ![t] = NoAttempt]
    /\ UNCHANGED <<inbox, stores, keys, stored, skipped, pool, history, bounds>>

(* A call of the attempt raises, or the coordinator dies with it.  Nobody  *)
(* repeats it; after a row was recorded a later signal decides again, and  *)
(* the task may be executed twice.                                         *)
AttemptDies(t) ==
    /\ attempt[t].at \notin {"none", "over"}
    /\ Lose(t)
    /\ attempt' = [attempt EXCEPT ![t].at = "over"]
    /\ retried' = IF attempt[t].at \in {"sending", "marking"} THEN [retried EXCEPT ![t] = @ + 2]
                  ELSE retried
    /\ UNCHANGED <<inbox, stores, keys, stored, skipped, pool, blocked>>

(***************************************************************************)
(* executor-agent.                                                         *)
(***************************************************************************)
Start(t, n) ==
    /\ exec = Idle
    /\ Handles("executor", Event("dispatch", t, n), {})
    /\ \/ n \in failed /\ SetRow(t, "failed") /\ UNCHANGED exec
       \/ n \notin failed /\ SetRow(t, "running") /\ exec' = [task |-> t, node |-> n]
    /\ UNCHANGED <<assigned, keys, deciding, nodes, failed, failing, cooling, history, bounds>>

(* execution.done, or execution.failed when a look found the node failed;  *)
(* a node that failed after the last look is not noticed.                  *)
End ==
    /\ exec # Idle
    /\ \/ SetRow(exec.task, "done")
       \/ exec.node \in failed /\ SetRow(exec.task, "failed")
    /\ exec' = Idle
    /\ UNCHANGED <<inbox, assigned, keys, deciding, nodes, failed, failing, cooling, history, bounds>>

(***************************************************************************)
(* scale-agent.                                                            *)
(***************************************************************************)
(* Mutant: the node is added and nobody is told.                           *)
ScaleOut_Silent(t, purpose) ==
    /\ ~cooling
    /\ \E n \in Nodes \ nodes : nodes' = nodes \cup {n}
    /\ cooling' = TRUE
    /\ Handles("scale", Event("scale", t, purpose), {})
    /\ UNCHANGED <<stores, keys, deciding, failed, failing, exec, history, bounds>>

(* scaling.done matters to the queue-agent with requeue_after_scale only.  *)
ScaleOut(t, purpose) ==
    /\ ~cooling
    /\ \E n \in Nodes \ nodes : nodes' = nodes \cup {n}
    /\ cooling' = TRUE
    /\ Handles("scale", Event("scale", t, purpose),
               IF purpose = "requeue" THEN {Event("scaled", t, "none")} ELSE {})
    /\ UNCHANGED <<stores, keys, deciding, failed, failing, exec, history, bounds>>

(* scaling.blocked has no consumer.                                        *)
ScaleBlocked(t, purpose) ==
    /\ cooling
    /\ Handles("scale", Event("scale", t, purpose), {})
    /\ blocked' = IF purpose = "requeue" THEN blocked \cup {t} ELSE blocked
    /\ UNCHANGED <<stores, keys, deciding, pool, lost, retried, bounds>>

CooldownEnds ==
    /\ cooling /\ cooldowns < MaxCooldowns
    /\ cooling' = FALSE /\ cooldowns' = cooldowns + 1
    /\ UNCHANGED <<inbox, stores, keys, deciding, nodes, failed, failing, exec, history, faults>>

(***************************************************************************)
(* api-service, simulate_node_failure.                                     *)
(***************************************************************************)
(* The node's hash says failed; then running tasks of the node fail.  (What*)
(* it does to the hashes is Executor's.)  The request may die before.      *)
FailNode(n) ==
    /\ n \in nodes \ failing /\ Fault(1)
    /\ failed' = failed \cup {n} /\ failing' = failing \cup {n}
    /\ UNCHANGED <<inbox, stores, keys, deciding, nodes, exec, cooling, history>>

FailRows(n) ==
    /\ n \in failing /\ failing' = failing \ {n}
    /\ row' = [t \in Tasks |-> IF row[t] = "running" /\ assigned[t] = n THEN "failed" ELSE row[t]]
    /\ UNCHANGED <<inbox, assigned, regressed, keys, deciding, nodes, failed, exec, cooling, history, bounds>>

--------------------------------------------------------------------------------
Consume(t) ==
    \/ Enqueue(t) \/ RequeueScaled(t) \/ Propose(t) \/ AssessRaises(t)
    \/ SignalClassified(t) \/ Schedule(t)
    \/ \E s \in Severities : Boost(t, s) \/ Assess(t, s) \/ SignalRisk(t, s)
    \/ \E n \in Nodes \cup {NoNode} : SignalFit(t, n)
    \/ \E p \in {"requeue", "advisory"} : ScaleOut(t, p) \/ ScaleBlocked(t, p)

Decide(t) ==
    \/ LookInVain(t) \/ Look(t) \/ Degrade(t) \/ DegradeRaises(t) \/ AskScale(t)
    \/ RecordRow(t) \/ SendDispatch(t) \/ Mark(t) \/ Advise(t) \/ Leave(t)

Execute == End \/ \E t \in Tasks, n \in Nodes : Start(t, n)

Surroundings ==
    \/ \E t \in Tasks : \/ Submit(t) \/ SubmitFails(t)
                       \/ Redeliver(t) \/ DeadLetter(t) \/ AttemptDies(t)
    \/ CooldownEnds
    \/ \E n \in Nodes : FailNode(n) \/ FailRows(n)

Next ==
    \/ \E t \in Tasks : Consume(t) \/ Decide(t)
    \/ Execute \/ Surroundings

Spec == Init /\ [][Next]_vars

(* Every consumer works off what its queue holds, every attempt and every  *)
(* execution ends.                                                         *)
FairSpec == Spec /\ WF_vars(Execute) /\ \A t \in Tasks : WF_vars(Consume(t)) /\ WF_vars(Decide(t))

(***************************************************************************)
(* Properties.                                                             *)
(***************************************************************************)
(* The row's life is that of TaskLifecycle: it goes back at most once for  *)
(* each retry on the task's behalf and never skips a stage without one.    *)
Implements == Lifecycle!Spec

(* Nothing of a task is left to be handled, attempted or executed.         *)
Quiet(t) == CopiesOf(t) = {} /\ stored # t /\ attempt[t].at = "none" /\ exec.task # t

(* A submitted task ends, whatever the agents and nodes do, unless one of  *)
(* its messages or attempts was lost, or the cooldown refused it a node    *)
(* (nobody asks again for a task whose scale-out was blocked), or its last *)
(* signal came when the pending attempt had already read its keys and was  *)
(* about to raise, and nothing else is left of it.                         *)
EventuallyEnds ==
    \A t \in Tasks : (row[t] = "created") ~>
        \/ row[t] \in {"failed", "done"}
        \/ t \in blocked \cup lost
        \/ t \in skipped /\ Quiet(t)

(* Nobody is stranded: a task of which no message, no attempt and no       *)
(* execution is left has ended, unless something of it was lost, the       *)
(* cooldown refused it a node, a retry set its row back, or its last signal*)
(* came too late for an attempt that came to nothing.                      *)
NoneStranded ==
    \A t \in Tasks : Quiet(t) =>
        \/ row[t] \in {"absent", "failed", "done"}
        \/ t \in blocked \cup lost \cup skipped \/ regressed[t] > 0

================================================================================
