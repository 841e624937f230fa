------------------------------ MODULE TaskQueues -------------------------------
(***************************************************************************)
(* The waiting queues in Redis: queue:waiting and one queue for each class *)
(* of tasks, kept by four writers that share no lock: the queue-agent's    *)
(* worker, its aging_loop, the executor-agent, which removes what it was   *)
(* given to run, and the API, which puts back critical tasks of a failed   *)
(* node.  A step here is what a writer does between two awaits.            *)
(*                                                                         *)
(* All tasks are submitted at time 0 and age by one point a tick.          *)
(***************************************************************************)
EXTENDS Naturals, Sequences, FiniteSets, Bags, Functions

CONSTANTS
    Tasks,
    NoTask,
    Payload,      \* what POST /tasks says of each task
    MaxAge,       \* bound: ticks of the clock
    MaxFaults     \* bound: calls that raise, processes that die and duplicated messages

ASSUME PayloadAssumption ==
    /\ NoTask \notin Tasks
    /\ Payload \in [Tasks -> [critical : BOOLEAN, gpu : BOOLEAN, priority : 0 .. 10, cpu : Nat,
                              ram : Nat, duration : Nat, deadline : Nat \ {0}]]
ASSUME BoundsAssumption == MaxAge \in Nat /\ MaxFaults \in Nat

Least(a, b) == IF a < b THEN a ELSE b

TaskClasses == {"standard", "cpu-heavy", "memory-heavy", "gpu", "critical"}

Classify(p) ==
    CASE p.critical \/ p.priority >= 9 -> "critical"
      [] ~(p.critical \/ p.priority >= 9) /\ p.gpu -> "gpu"
      [] OTHER -> IF p.cpu >= 4 THEN "cpu-heavy"
                  ELSE IF p.ram >= 8192 THEN "memory-heavy" ELSE "standard"

ClassOf(t) == Classify(Payload[t])

DynamicPriority(t, boost, now) == Least(20, Payload[t].priority + boost + now)

(* Mutant: the priority is not cut to what a task may have.                *)
Priority_Uncut(score) == score

Priority(score) == Least(10, score)

(* assess_risk, in percent: half a second of waiting for each task queued. *)
Risk(t, length) == Least(100, (50 * length + 100 * Payload[t].duration) \div Payload[t].deadline)

Severity(risk) ==
    CASE risk >= 95 -> "critical"
      [] risk \in 80 .. 94 -> "high"
      [] risk \in 50 .. 79 -> "medium"
      [] OTHER -> "low"

BoostOf == [low |-> 0, medium |-> 1, high |-> 2, critical |-> 4]

Message(kind, t, severity) == [kind |-> kind, task |-> t, severity |-> severity]

(* What each handler awaits once it has computed its score.                *)
Program ==
    [created |-> <<"all", "class", "hash", "classified", "placement">>,
     signal |-> <<"hash", "all", "class", "placement">>,
     scaled |-> <<"all", "class", "placement">>]

VARIABLES
    hash,        \* task:<t>: status, priority, sla_boost
    queues,      \* the sorted sets: scores of their members
    requests,    \* bag of messages of the queue-agent
    assessments, \* bag of request.classified: task, queue_length
    worker,      \* message, todo, score and boost of the handler
    aging,       \* the loop's ids, time, and the task and score in hand
    executor,    \* the task in hand and where it is
    api,         \* the task put back, what is still to do, and the score
    dispatches,  \* decision.dispatch waiting for the executor
    clock,
    asked,       \* tasks a need_placement was published for (history)
    decided,     \* tasks the coordinator dispatched (history)
    removed,     \* tasks the executor removed (history)
    excused,     \* tasks another writer had in hand meanwhile (history)
    requeued,    \* tasks the API put back (history)
    dead,        \* tasks a message of which was dead-lettered (history)
    halved,      \* tasks whose execution failed between its two removals (history)
    faults

agents == <<worker, aging, executor, api>>
messages == <<requests, assessments, dispatches>>
history == <<asked, decided, removed, excused, requeued, dead, halved>>
vars == <<hash, queues, messages, agents, clock, history, faults>>

QueueNames == TaskClasses \cup {"waiting"}

Free == [task |-> NoTask, todo |-> <<>>, kind |-> "none", severity |-> "low", score |-> 0, boost |-> 0]
Resting == [ids |-> {}, now |-> 0, task |-> NoTask, score |-> 0, todo |-> <<>>]

Idle == [task |-> NoTask, todo |-> <<>>, score |-> 0]

Scores == 0 .. 20

TypeOK ==
    /\ hash \in [Tasks -> [status : {"absent", "created", "classified", "dispatched", "running",
                                     "done", "failed"},
                           priority : 0 .. 10, boost : Nat]]
    /\ \A q \in QueueNames : DOMAIN queues[q] \subseteq Tasks /\ Range(queues[q]) \subseteq Scores
    /\ IsABag(requests) /\ IsABag(assessments)
    /\ worker.task \in Tasks \cup {NoTask} /\ worker.score \in Scores /\ worker.boost \in Nat
    /\ aging.ids \subseteq Tasks /\ aging.now \in 0 .. MaxAge /\ aging.score \in Scores
    /\ executor \in [task : Tasks \cup {NoTask}, at : {"idle", "class", "start", "running", "failing"}]
    /\ api.task \in Tasks \cup {NoTask} /\ api.score \in Scores
    /\ dispatches \subseteq Tasks /\ clock \in 0 .. MaxAge /\ faults \in 0 .. MaxFaults
    /\ \A s \in {asked, decided, removed, excused, requeued, dead, halved} : s \subseteq Tasks

Init ==
    /\ hash = [t \in Tasks |-> [status |-> "absent", priority |-> 0, boost |-> 0]]
    /\ queues = [q \in QueueNames |-> <<>>]
    /\ requests = EmptyBag /\ assessments = EmptyBag /\ dispatches = {}
    /\ worker = Free /\ aging = Resting
    /\ executor = [task |-> NoTask, at |-> "idle"]
    /\ api = Idle
    /\ clock = 0 /\ faults = 0
    /\ asked = {} /\ decided = {} /\ removed = {} /\ excused = {} /\ requeued = {} /\ dead = {}
    /\ halved = {}

(***************************************************************************)
(* Redis.                                                                  *)
(***************************************************************************)
ZAdd(q, t, score) ==
    queues' = [queues EXCEPT ![q] = [u \in DOMAIN @ \cup {t} |-> IF u = t THEN score ELSE @[u]]]
ZRem(q, t) == queues' = [queues EXCEPT ![q] = Restrict(@, DOMAIN @ \ {t})]

SetStatus(t, s) == hash' = [hash EXCEPT ![t].status = s]

(* The queue a step named "all" or "class" writes.                         *)
Target(step, t) == IF step = "all" THEN "waiting" ELSE ClassOf(t)

Put(m) == requests' = requests (+) SetToBag({m})
Fault == faults < MaxFaults /\ faults' = faults + 1

(***************************************************************************)
(* api-service: submit_task, and the tail of simulate_node_failure.        *)
(***************************************************************************)
Submit(t) ==
    /\ hash[t].status = "absent"
    /\ hash' = [hash EXCEPT ![t] = [status |-> "created", priority |-> Payload[t].priority,
                                    boost |-> 0]]
    /\ Put(Message("created", t, "low"))
    /\ UNCHANGED <<queues, assessments, dispatches, agents, clock, history, faults>>

(* It judges a task, and scores it, by what it read of the hash.           *)
Requeue(t) ==
    /\ api.task = NoTask
    /\ ClassOf(t) = "critical" /\ hash[t].status = "failed"
    /\ api' = [task |-> t, todo |-> <<"hash", "all", "class">>, score |-> hash[t].priority + 5]
    /\ requeued' = requeued \cup {t}
    /\ UNCHANGED <<hash, queues, messages, worker, aging, executor, clock, asked, decided, removed,
                   excused, dead, halved, faults>>

ApiAdvance == api' = IF Len(api.todo) > 1 THEN [api EXCEPT !.todo = Tail(@)] ELSE Idle

RequeueStatus ==
    /\ api.task # NoTask /\ Head(api.todo) = "hash"
    /\ SetStatus(api.task, "classified")
    /\ ApiAdvance
    /\ UNCHANGED <<queues, messages, worker, aging, executor, clock, history, faults>>

RequeueAdds ==
    /\ api.task # NoTask /\ Head(api.todo) # "hash"
    /\ ZAdd(Target(Head(api.todo), api.task), api.task, api.score)
    /\ ApiAdvance
    /\ UNCHANGED <<hash, messages, worker, aging, executor, clock, history, faults>>

(***************************************************************************)
(* queue-agent, worker.                                                    *)
(***************************************************************************)
Take(m) == BagIn(m, requests) /\ worker.task = NoTask /\ requests' = requests (-) SetToBag({m})

Handle(m, score, boost) ==
    worker' = [task |-> m.task, todo |-> Program[m.kind], kind |-> m.kind,
               severity |-> m.severity, score |-> score, boost |-> boost]

(* enqueue_task asks nobody what became of the task since.                 *)
TakeCreated(t) ==
    LET m == Message("created", t, "low") IN
    /\ Take(m)
    /\ Handle(m, DynamicPriority(t, 0, clock), 0)
    /\ excused' = IF hash[t].status = "created" THEN excused ELSE excused \cup {t}
    /\ UNCHANGED <<hash, queues, assessments, dispatches, aging, executor, api, clock,
                   asked, decided, removed, requeued, dead, halved, faults>>

(* Mutant: a signal boosts the task whatever became of it.                 *)
TakeSignal_AnyStatus(t, severity) ==
    LET m == Message("signal", t, severity)
        boost == hash[t].boost + BoostOf[severity] IN
    /\ Take(m)
    /\ Handle(m, DynamicPriority(t, boost, clock), boost)
    /\ UNCHANGED <<hash, queues, assessments, dispatches, aging, executor, api, clock, history, faults>>

(* apply_sla_signal: its read of the hash; in baseline mode it returns.    *)
TakeSignal(t, severity) ==
    LET m == Message("signal", t, severity)
        boost == hash[t].boost + BoostOf[severity] IN
    /\ Take(m)
    /\ \/ UNCHANGED worker
       \/ /\ hash[t].status = "classified" /\ BoostOf[severity] > 0
          /\ Handle(m, DynamicPriority(t, boost, clock), boost)
    /\ UNCHANGED <<hash, queues, assessments, dispatches, aging, executor, api, clock, history, faults>>

(* handle_scaling_done: the score falls back to the priority, at most 10.  *)
(* A task that failed meanwhile is queued like one that waits.             *)
TakeScaled(t) ==
    LET m == Message("scaled", t, "low") IN
    /\ Take(m)
    /\ IF hash[t].status \in {"running", "done", "dispatched"} THEN UNCHANGED worker
       ELSE Handle(m, hash[t].priority, hash[t].boost)
    /\ excused' = IF hash[t].status = "failed" THEN excused \cup {t} ELSE excused
    /\ UNCHANGED <<hash, queues, assessments, dispatches, aging, executor, api, clock,
                   asked, decided, removed, requeued, dead, halved, faults>>

(* The next await of the handler; commit follows the last.                 *)
Advance == worker' = IF Len(worker.todo) > 1 THEN [worker EXCEPT !.todo = Tail(@)] ELSE Free

Does(step) == worker.task # NoTask /\ Head(worker.todo) = step

WorkerAdds ==
    /\ \E step \in {"all", "class"} :
         Does(step) /\ ZAdd(Target(step, worker.task), worker.task, worker.score)
    /\ Advance
    /\ UNCHANGED <<hash, messages, aging, executor, api, clock, history, faults>>

(* enqueue_task writes the status too, and begins the boost anew.          *)
WorkerWritesHash ==
    /\ Does("hash")
    /\ hash' = [hash EXCEPT ![worker.task] =
                  [status |-> IF worker.kind = "created" THEN "classified" ELSE @.status,
                   priority |-> Priority(worker.score), boost |-> worker.boost]]
    /\ Advance
    /\ UNCHANGED <<queues, messages, aging, executor, api, clock, history, faults>>

Classified ==
    /\ Does("classified")
    /\ assessments' = assessments (+) SetToBag({[task |-> worker.task,
                                                 length |-> Cardinality(DOMAIN queues["waiting"])]})
    /\ Advance
    /\ UNCHANGED <<hash, queues, requests, dispatches, aging, executor, api, clock, history, faults>>

NeedPlacement ==
    /\ Does("placement")
    /\ asked' = asked \cup {worker.task}
    /\ Advance
    /\ UNCHANGED <<hash, queues, messages, aging, executor, api, clock, decided, removed,
                   excused, requeued, dead, halved, faults>>

(* Mutant: the handler's failure is acknowledged.                          *)
WorkerFails_Commits ==
    /\ worker.task # NoTask /\ Fault
    /\ worker' = Free
    /\ UNCHANGED <<hash, queues, messages, aging, executor, api, clock, history>>

(* A call raises: the message is retried, or its last attempt is spent.    *)
WorkerFails ==
    /\ worker.task # NoTask /\ Fault
    /\ worker' = Free
    /\ \/ Put(Message(worker.kind, worker.task, worker.severity)) /\ UNCHANGED dead
       \/ dead' = dead \cup {worker.task} /\ UNCHANGED requests
    /\ UNCHANGED <<hash, queues, assessments, dispatches, aging, executor, api, clock,
                   asked, decided, removed, excused, requeued, halved>>

(* request.created is delivered once more (another consumer's retry).      *)
Duplicate(t) ==
    /\ hash[t].status # "absent" /\ Fault
    /\ Put(Message("created", t, "low"))
    /\ UNCHANGED <<hash, queues, assessments, dispatches, agents, clock, history>>

(***************************************************************************)
(* queue-agent, aging_loop, one class queue after the other.               *)
(***************************************************************************)
AgingLists(c) ==
    /\ aging = Resting /\ queues[c] # <<>>
    /\ aging' = [Resting EXCEPT !.ids = DOMAIN queues[c], !.now = clock]
    /\ excused' = IF executor.at = "class" THEN excused \cup (aging'.ids \cap {executor.task})
                  ELSE excused
    /\ UNCHANGED <<hash, queues, messages, worker, executor, api, clock, asked, decided,
                   removed, requeued, dead, halved, faults>>

AgingReads(t) ==
    /\ t \in aging.ids /\ aging.task = NoTask
    /\ aging' = [aging EXCEPT !.task = t, !.todo = <<"class", "all">>,
                              !.score = DynamicPriority(t, hash[t].boost, aging.now)]
    /\ UNCHANGED <<hash, queues, messages, worker, executor, api, clock, history, faults>>

AgedOne == [aging EXCEPT !.ids = @ \ {aging.task}, !.task = NoTask, !.score = 0, !.todo = <<>>]

(* Mutant: only the queue of the class ages.                               *)
AgingAdds_ClassOnly ==
    /\ aging.task # NoTask
    /\ ZAdd(ClassOf(aging.task), aging.task, aging.score)
    /\ aging' = IF aging.ids = {aging.task} THEN Resting ELSE AgedOne
    /\ UNCHANGED <<hash, messages, worker, executor, api, clock, history, faults>>

AgingAdds ==
    /\ aging.task # NoTask
    /\ ZAdd(Target(Head(aging.todo), aging.task), aging.task, aging.score)
    /\ aging' = IF Len(aging.todo) > 1 THEN [aging EXCEPT !.todo = Tail(@)]
                ELSE IF aging.ids = {aging.task} THEN Resting ELSE AgedOne
    /\ UNCHANGED <<hash, messages, worker, executor, api, clock, history, faults>>

(***************************************************************************)
(* sla-agent, coordinator-agent, scale-agent, executor-agent, the clock.   *)
(***************************************************************************)
(* handle_classified: sla.risk, and sla.boost too unless the risk is low.  *)
Assess(a) ==
    LET severity == Severity(Risk(a.task, a.length)) IN
    /\ BagIn(a, assessments)
    /\ assessments' = assessments (-) SetToBag({a})
    /\ requests' = requests (+) SetToBag({Message("signal", a.task, severity)})
                   (+) (IF severity = "low" THEN EmptyBag
                        ELSE SetToBag({Message("signal", a.task, severity)}))
    /\ UNCHANGED <<hash, queues, dispatches, agents, clock, history, faults>>

Dispatch(t) ==
    /\ t \in asked \ decided
    /\ SetStatus(t, "dispatched")
    /\ decided' = decided \cup {t} /\ dispatches' = dispatches \cup {t}
    /\ UNCHANGED <<queues, requests, assessments, agents, clock, asked, removed, excused,
                   requeued, dead, halved, faults>>

(* No node fits: scale-out adds one and says so (once in this model).      *)
ScalingDone(t) ==
    /\ t \in asked \ decided /\ Fault
    /\ Put(Message("scaled", t, "low"))
    /\ UNCHANGED <<hash, queues, assessments, dispatches, agents, clock, history>>

InHand(t) == worker.task = t \/ t \in aging.ids \/ api.task = t

(* remove_from_waiting: first queue:waiting, then the queue of the class.  *)
RemoveFromWaiting(t) ==
    /\ executor.at = "idle" /\ t \in dispatches
    /\ ZRem("waiting", t)
    /\ dispatches' = dispatches \ {t}
    /\ executor' = [task |-> t, at |-> "class"]
    /\ excused' = IF InHand(t) THEN excused \cup {t} ELSE excused
    /\ UNCHANGED <<hash, requests, assessments, worker, aging, api, clock, asked, decided,
                   removed, requeued, dead, halved, faults>>

RemoveFromClass ==
    /\ executor.at = "class"
    /\ ZRem(ClassOf(executor.task), executor.task)
    /\ executor' = [executor EXCEPT !.at = "start"]
    /\ removed' = removed \cup {executor.task} /\ halved' = halved \ {executor.task}
    /\ excused' = IF InHand(executor.task) THEN excused \cup {executor.task} ELSE excused
    /\ UNCHANGED <<hash, messages, worker, aging, api, clock, asked, decided, requeued, dead, faults>>

Start ==
    /\ executor.at = "start"
    /\ SetStatus(executor.task, "running")
    /\ executor' = [executor EXCEPT !.at = "running"]
    /\ UNCHANGED <<queues, messages, worker, aging, api, clock, history, faults>>

(* execute_task raises: at its first removal, at its second, or when its   *)
(* node has failed (reserve).  The except block then ends the execution.   *)
FirstRemovalRaises(t) ==
    /\ executor.at = "idle" /\ t \in dispatches /\ Fault
    /\ dispatches' = dispatches \ {t}
    /\ executor' = [task |-> t, at |-> "failing"]
    /\ UNCHANGED <<hash, queues, requests, assessments, worker, aging, api, clock, history>>

SecondRemovalRaises ==
    /\ executor.at = "class" /\ Fault
    /\ executor' = [executor EXCEPT !.at = "failing"]
    /\ halved' = halved \cup {executor.task}
    /\ UNCHANGED <<hash, queues, messages, worker, aging, api, clock, asked, decided, removed,
                   excused, requeued, dead>>

ReserveRaises ==
    /\ executor.at = "start"
    /\ executor' = [executor EXCEPT !.at = "failing"]
    /\ UNCHANGED <<hash, queues, messages, worker, aging, api, clock, history, faults>>

End ==
    /\ \/ executor.at = "running" /\ \E s \in {"done", "failed"} : SetStatus(executor.task, s)
       \/ executor.at = "failing" /\ SetStatus(executor.task, "failed")
    /\ executor' = [task |-> NoTask, at |-> "idle"]
    /\ UNCHANGED <<queues, messages, worker, aging, api, clock, history, faults>>

(* The process dies, or the except block raises: the message is delivered  *)
(* once more, or its last attempt is spent.                                *)
ExecutionLost ==
    /\ executor.at # "idle" /\ Fault
    /\ executor' = [task |-> NoTask, at |-> "idle"]
    /\ dispatches' \in {dispatches, dispatches \cup {executor.task}}
    /\ halved' = IF executor.at = "class" THEN halved \cup {executor.task} ELSE halved
    /\ UNCHANGED <<hash, queues, requests, assessments, worker, aging, api, clock, asked, decided,
                   removed, excused, requeued, dead>>

Tick ==
    /\ clock < MaxAge /\ clock' = clock + 1
    /\ UNCHANGED <<hash, queues, messages, agents, history, faults>>

--------------------------------------------------------------------------------
WorkerTakes ==
    \E t \in Tasks :
        \/ TakeCreated(t) \/ TakeScaled(t)
        \/ \E s \in DOMAIN BoostOf : TakeSignal(t, s)

WorkerSteps == WorkerTakes \/ WorkerAdds \/ WorkerWritesHash \/ Classified \/ NeedPlacement

AgingLoop ==
    \/ \E c \in TaskClasses : AgingLists(c)
    \/ \E t \in Tasks : AgingReads(t)
    \/ AgingAdds

RequeueSteps == RequeueStatus \/ RequeueAdds

Others ==
    \/ WorkerFails \/ Tick
    \/ \E t \in Tasks : \/ Submit(t) \/ Requeue(t) \/ Duplicate(t)
                        \/ Dispatch(t) \/ ScalingDone(t) \/ RemoveFromWaiting(t)
                        \/ FirstRemovalRaises(t)
    \/ \E a \in BagToSet(assessments) : Assess(a)
    \/ RequeueSteps \/ RemoveFromClass \/ SecondRemovalRaises
    \/ Start \/ ReserveRaises \/ End \/ ExecutionLost

Next == WorkerSteps \/ AgingLoop \/ Others

Spec == Init /\ [][Next]_vars

(* The worker and the loop run while the service does; the API's handler   *)
(* ends.  The classes are aged in turn.                                    *)
FairSpec ==
    /\ Spec /\ WF_vars(WorkerSteps) /\ WF_vars(RequeueSteps) /\ WF_vars(AgingLoop)
    /\ \A c \in {ClassOf(t) : t \in Tasks} : SF_vars(AgingLists(c))

(***************************************************************************)
(* Properties.                                                             *)
(***************************************************************************)
(* What the executor removed stays removed, unless the worker, the loop or *)
(* the API had the task in hand while it was being removed, request.created*)
(* was handled again, a scaling ended after the task had failed, or the API*)
(* put it back: a signal that comes later finds the task dispatched.       *)
GhostsExplained ==
    \A t \in removed \ (excused \cup requeued) :
        executor.at # "class" => \A q \in QueueNames : t \notin DOMAIN queues[q]

(* Between two steps of the writers, a task is in queue:waiting if and only*)
(* if it is in the queue of its class, with the same exceptions, while a   *)
(* handler that failed half way is not yet repeated, and but for a task    *)
(* whose execution failed after the first of its two removals.             *)
AtRest(t) == ~InHand(t) /\ executor.task # t

QueuesAgree ==
    \A t \in Tasks \ (excused \cup requeued \cup dead \cup halved) :
        AtRest(t) /\ ~BagIn(Message("created", t, "low"), requests)
            => (t \in DOMAIN queues["waiting"] <=> t \in DOMAIN queues[ClassOf(t)])

(* No task is left classified without anyone having been asked for a node, *)
(* except one the API put back or one whose message was dead-lettered.     *)
AnnouncedOrParked ==
    \A t \in Tasks :
        hash[t].status = "classified" /\ AtRest(t)
            => \/ t \in asked \cup requeued \cup dead
               \/ BagIn(Message("created", t, "low"), requests)

(* Both queues end with the score that the hash gives a task, whatever     *)
(* order the writers took: a boost the loop overwrote with an older score, *)
(* or a score cut to the priority, is put right by a later round.          *)
ScoresSettle ==
    \A t \in Tasks :
        <>[](t \in DOMAIN queues[ClassOf(t)] =>
                /\ queues[ClassOf(t)][t] = DynamicPriority(t, hash[t].boost, clock)
                /\ t \in DOMAIN queues["waiting"]
                /\ queues["waiting"][t] = queues[ClassOf(t)][t])
================================================================================
