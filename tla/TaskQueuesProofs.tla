---------------------------- MODULE TaskQueuesProofs ----------------------------
(***************************************************************************)
(* Theorems about TaskQueues, for any tasks and payloads, any number of    *)
(* ticks, failed handlers and duplicated messages.                         *)
(***************************************************************************)
EXTENDS TaskQueues, TLAPS

(***************************************************************************)
(* Types.                                                                  *)
(***************************************************************************)
Kinds == {"created", "signal", "scaled"}
Ended == {"dispatched", "running", "done", "failed"}
Statuses == {"absent", "created", "classified"} \cup Ended
Severities == {"low", "medium", "high", "critical"}

(* What is left of a handler, by how far it came.                          *)
P1 == <<"all", "class", "hash", "classified", "placement">>
P2 == <<"class", "hash", "classified", "placement">>
P3 == <<"hash", "classified", "placement">>
P4 == <<"classified", "placement">>
P5 == <<"placement">>
S1 == <<"hash", "all", "class", "placement">>
S2 == <<"all", "class", "placement">>
S3 == <<"class", "placement">>

Left == [created |-> {P1, P2, P3, P4, P5}, signal |-> {S1, S2, S3, P5}, scaled |-> {S2, S3, P5}]

Todos == {<<>>, P1, P2, P3, P4, P5, S1, S2, S3}
AgingTodos == {<<>>, <<"class", "all">>, <<"all">>}
ApiTodos == {<<>>, <<"hash", "all", "class">>, <<"all", "class">>, <<"class">>}

HashType == hash \in [Tasks -> [status : Statuses, priority : 0 .. 10, boost : Nat]]

QueuesType ==
    /\ DOMAIN queues = QueueNames
    /\ \A q \in QueueNames :
         /\ DOMAIN queues[q] \subseteq Tasks
         /\ \A t \in DOMAIN queues[q] : queues[q][t] \in Scores

MessagesType == IsABag(requests) /\ IsABag(assessments)

WorkerType ==
    /\ worker \in [task : Tasks \cup {NoTask}, todo : Todos, kind : Kinds \cup {"none"},
                   severity : Severities, score : Scores, boost : Nat]
    /\ worker.task # NoTask => worker.kind \in Kinds /\ worker.todo \in Left[worker.kind]

AgingType ==
    /\ aging \in [ids : SUBSET Tasks, now : 0 .. MaxAge, task : Tasks \cup {NoTask},
                  score : Scores, todo : AgingTodos]
    /\ aging.task # NoTask => aging.task \in aging.ids /\ aging.todo # <<>>

ExecutorType ==
    /\ executor \in [task : Tasks \cup {NoTask}, at : {"idle", "class", "start", "running", "failing"}]
    /\ executor.task = NoTask <=> executor.at = "idle"

ApiType ==
    /\ api \in [task : Tasks \cup {NoTask}, todo : ApiTodos, score : Scores]
    /\ api.task # NoTask => api.todo # <<>>

SetsType ==
    /\ dispatches \subseteq Tasks
    /\ \A S \in {asked, decided, removed, excused, requeued, dead, halved} : S \subseteq Tasks

BoundsType == clock \in 0 .. MaxAge /\ faults \in 0 .. MaxFaults

Types ==
    /\ HashType /\ QueuesType /\ MessagesType /\ WorkerType /\ AgingType
    /\ ExecutorType /\ ApiType /\ SetsType /\ BoundsType

(***************************************************************************)
(* Helpers.                                                                *)
(***************************************************************************)
LEMMA BagPut ==
    ASSUME NEW B, IsABag(B), NEW x
    PROVE  /\ IsABag(B (+) SetToBag({x}))
           /\ \A y : BagIn(y, B (+) SetToBag({x})) <=> BagIn(y, B) \/ y = x
  BY DEF IsABag, SetToBag, BagIn, BagToSet, \oplus

LEMMA BagTake ==
    ASSUME NEW B, IsABag(B), NEW x, BagIn(x, B)
    PROVE  /\ IsABag(B (-) SetToBag({x}))
           /\ \A y : BagIn(y, B (-) SetToBag({x})) => BagIn(y, B)
           /\ \A y : y # x /\ BagIn(y, B) => BagIn(y, B (-) SetToBag({x}))
  BY DEF IsABag, SetToBag, BagIn, BagToSet, \ominus

LEMMA ClassOfTask == \A t \in Tasks : ClassOf(t) \in TaskClasses /\ ClassOf(t) # "waiting"
  BY DEF ClassOf, Classify, TaskClasses

LEMMA DynamicScore ==
    ASSUME NEW t \in Tasks, NEW boost \in Nat, NEW now \in Nat
    PROVE  DynamicPriority(t, boost, now) \in Scores
<1>1. Payload[t].priority \in 0 .. 10
  BY PayloadAssumption
<1> QED BY <1>1 DEF DynamicPriority, Least, Scores

LEMMA AddsMember ==
    ASSUME QueuesType, NEW q \in QueueNames, NEW t \in Tasks, NEW score \in Scores, ZAdd(q, t, score)
    PROVE  /\ QueuesType'
           /\ \A p \in QueueNames, u \in Tasks : u \in DOMAIN queues'[p] <=> u \in DOMAIN queues[p] \/ (p = q /\ u = t)
<1> DEFINE f == [u \in DOMAIN queues[q] \cup {t} |-> IF u = t THEN score ELSE queues[q][u]]
<1>1. queues' = [queues EXCEPT ![q] = f]
  BY DEF ZAdd
<1>2. /\ DOMAIN f = DOMAIN queues[q] \cup {t}
      /\ f[t] = score /\ \A u \in DOMAIN queues[q] : u # t => f[u] = queues[q][u]
  OBVIOUS
<1> HIDE DEF f
<1>3. DOMAIN queues' = QueueNames /\ queues'[q] = f /\ \A p \in QueueNames : p # q => queues'[p] = queues[p]
  BY <1>1 DEF QueuesType
<1> QED BY <1>2, <1>3 DEF QueuesType

LEMMA RemovesMember ==
    ASSUME QueuesType, NEW q \in QueueNames, NEW t \in Tasks, ZRem(q, t)
    PROVE  /\ QueuesType'
           /\ \A p \in QueueNames, u \in Tasks : u \in DOMAIN queues'[p] <=> u \in DOMAIN queues[p] /\ ~(p = q /\ u = t)
<1> DEFINE f == [u \in DOMAIN queues[q] \ {t} |-> queues[q][u]]
<1>1. queues' = [queues EXCEPT ![q] = f]
  BY DEF ZRem, Restrict
<1>2. DOMAIN f = DOMAIN queues[q] \ {t} /\ \A u \in DOMAIN f : f[u] = queues[q][u]
  OBVIOUS
<1> HIDE DEF f
<1>3. DOMAIN queues' = QueueNames /\ queues'[q] = f /\ \A p \in QueueNames : p # q => queues'[p] = queues[p]
  BY <1>1 DEF QueuesType
<1> QED BY <1>2, <1>3 DEF QueuesType

LEMMA SetsStatus ==
    ASSUME HashType, NEW t \in Tasks, NEW s \in Statuses, SetStatus(t, s)
    PROVE  HashType' /\ \A u \in Tasks : hash'[u].status = IF u = t THEN s ELSE hash[u].status
<1> DEFINE h == [hash[t] EXCEPT !.status = s]
<1>1. hash' = [hash EXCEPT ![t] = h]
  BY DEF SetStatus
<1>2. h \in [status : Statuses, priority : 0 .. 10, boost : Nat] /\ h.status = s
  BY DEF HashType
<1> HIDE DEF h
<1> QED BY <1>1, <1>2 DEF HashType

(***************************************************************************)
(* Every step keeps the types.                                             *)
(***************************************************************************)
HashSteps ==
    \/ WorkerWritesHash \/ RequeueStatus \/ Start \/ End
    \/ \E t \in Tasks : Submit(t) \/ Dispatch(t)

LEMMA HashUnchanged == [Next]_vars => HashSteps \/ hash' = hash
  BY DEF HashSteps, Next, vars, WorkerSteps, WorkerTakes, AgingLoop, Others, TakeCreated, TakeScaled, TakeSignal,
         WorkerAdds, Classified, NeedPlacement, AgingLists, AgingReads, AgingAdds, WorkerFails, Tick,
         Duplicate, ScalingDone, RemoveFromWaiting, Assess, Requeue, RequeueSteps, RequeueAdds, RemoveFromClass,
         FirstRemovalRaises, SecondRemovalRaises, ReserveRaises, ExecutionLost

(* The rests of the programs.                                              *)
LEMMA Tails ==
    /\ Tail(P1) = P2 /\ Tail(P2) = P3 /\ Tail(P3) = P4 /\ Tail(P4) = P5
    /\ Tail(S1) = S2 /\ Tail(S2) = S3 /\ Tail(S3) = P5
    /\ Tail(<<"class", "all">>) = <<"all">> /\ Tail(<<"all", "class">>) = <<"class">>
    /\ Tail(<<"hash", "all", "class">>) = <<"all", "class">>
<1>1. Tail(P1) = P2
  BY DEF P1, P2
<1>2. Tail(P2) = P3
  BY DEF P2, P3
<1>3. Tail(P3) = P4
  BY DEF P3, P4
<1>4. Tail(P4) = P5
  BY DEF P4, P5
<1>5. Tail(S1) = S2
  BY DEF S1, S2
<1>6. Tail(S2) = S3
  BY DEF S2, S3
<1>7. Tail(S3) = P5
  BY DEF S3, P5
<1>8. /\ Tail(<<"class", "all">>) = <<"all">> /\ Tail(<<"all", "class">>) = <<"class">>
      /\ Tail(<<"hash", "all", "class">>) = <<"all", "class">>
  OBVIOUS
<1> QED BY <1>1, <1>2, <1>3, <1>4, <1>5, <1>6, <1>7, <1>8

LEMMA Lengths ==
    /\ Len(P1) = 5 /\ Len(P2) = 4 /\ Len(P3) = 3 /\ Len(P4) = 2 /\ Len(P5) = 1
    /\ Len(S1) = 4 /\ Len(S2) = 3 /\ Len(S3) = 2
    /\ Head(P1) = "all" /\ Head(P2) = "class" /\ Head(P3) = "hash" /\ Head(P4) = "classified"
    /\ Head(P5) = "placement"
    /\ Head(S1) = "hash" /\ Head(S2) = "all" /\ Head(S3) = "class"
  BY DEF P1, P2, P3, P4, P5, S1, S2, S3

LEMMA RestOfProgram ==
    ASSUME NEW kind \in Kinds, NEW todo \in Left[kind]
    PROVE  /\ Len(todo) > 1 => Tail(todo) \in Left[kind]
           /\ todo \in Todos /\ Len(todo) >= 1
<1>1. CASE kind = "created"
  <2>1. todo \in {P1, P2, P3, P4, P5} /\ Left[kind] = {P1, P2, P3, P4, P5}
    BY <1>1 DEF Left
  <2>2. CASE todo = P1
    BY <2>1, <2>2, Tails, Lengths DEF Todos
  <2>3. CASE todo = P2
    BY <2>1, <2>3, Tails, Lengths DEF Todos
  <2>4. CASE todo = P3
    BY <2>1, <2>4, Tails, Lengths DEF Todos
  <2>5. CASE todo = P4
    BY <2>1, <2>5, Tails, Lengths DEF Todos
  <2>6. CASE todo = P5
    BY <2>1, <2>6, Tails, Lengths DEF Todos
  <2> QED BY <2>1, <2>2, <2>3, <2>4, <2>5, <2>6
<1>2. CASE kind = "signal"
  <2>1. todo \in {S1, S2, S3, P5} /\ Left[kind] = {S1, S2, S3, P5}
    BY <1>2 DEF Left
  <2>2. CASE todo = S1
    BY <2>1, <2>2, Tails, Lengths DEF Todos
  <2>3. CASE todo = S2
    BY <2>1, <2>3, Tails, Lengths DEF Todos
  <2>4. CASE todo = S3
    BY <2>1, <2>4, Tails, Lengths DEF Todos
  <2>5. CASE todo = P5
    BY <2>1, <2>5, Tails, Lengths DEF Todos
  <2> QED BY <2>1, <2>2, <2>3, <2>4, <2>5
<1>3. CASE kind = "scaled"
  <2>1. todo \in {S2, S3, P5} /\ Left[kind] = {S2, S3, P5}
    BY <1>3 DEF Left
  <2>2. CASE todo = S2
    BY <2>1, <2>2, Tails, Lengths DEF Todos
  <2>3. CASE todo = S3
    BY <2>1, <2>3, Tails, Lengths DEF Todos
  <2>4. CASE todo = P5
    BY <2>1, <2>4, Tails, Lengths DEF Todos
  <2> QED BY <2>1, <2>2, <2>3, <2>4
<1> QED BY <1>1, <1>2, <1>3 DEF Kinds

LEMMA RestOfPair ==
    /\ \A todo \in AgingTodos : Len(todo) > 1 => todo = <<"class", "all">> /\ Tail(todo) = <<"all">> /\ Tail(todo) # <<>>
    /\ \A todo \in ApiTodos : Len(todo) > 1 => Tail(todo) \in ApiTodos /\ Tail(todo) # <<>>
<1>1. Len(<<"all">>) = 1 /\ Len(<<"class">>) = 1 /\ Len(<<>>) = 0
  OBVIOUS
<1> QED BY <1>1, Tails DEF AgingTodos, ApiTodos

LEMMA HashTypeStep ==
    ASSUME Types, HashSteps
    PROVE  HashType'
<1>0. HashType
  BY DEF Types
<1>1. ASSUME NEW t \in Tasks, NEW s \in Statuses, SetStatus(t, s)
      PROVE  HashType'
  BY <1>0, <1>1, SetsStatus
<1>2. ASSUME NEW t \in Tasks, Submit(t)
      PROVE  HashType'
  <2>1. hash' = [hash EXCEPT ![t] = [status |-> "created", priority |-> Payload[t].priority, boost |-> 0]]
    BY <1>2 DEF Submit
  <2>2. Payload[t].priority \in 0 .. 10
    BY PayloadAssumption
  <2> QED BY <1>0, <2>1, <2>2 DEF HashType, Statuses
<1>3. CASE RequeueStatus
  <2>1. api.task \in Tasks /\ SetStatus(api.task, "classified")
    BY <1>3 DEF RequeueStatus, Types, ApiType
  <2> QED BY <1>1, <2>1 DEF Statuses
<1>4. ASSUME NEW t \in Tasks, Dispatch(t)
      PROVE  HashType'
  BY <1>1, <1>4 DEF Dispatch, Statuses, Ended
<1>5. CASE Start \/ End
  <2>1. PICK s \in Statuses : SetStatus(executor.task, s)
    BY <1>5 DEF Start, End, Statuses, Ended
  <2>2. executor.task \in Tasks \/ hash' = hash
    BY <1>0, <2>1 DEF Types, ExecutorType, SetStatus, HashType
  <2> QED BY <1>0, <1>1, <2>1, <2>2 DEF HashType
<1>6. CASE WorkerWritesHash
  <2> DEFINE t == worker.task
             h == [status |-> IF worker.kind = "created" THEN "classified" ELSE hash[t].status,
                   priority |-> Priority(worker.score), boost |-> worker.boost]
  <2>1. hash' = [hash EXCEPT ![t] = h] /\ t \in Tasks
    BY <1>6 DEF WorkerWritesHash, Does, Types, WorkerType
  <2>2. worker.score \in Scores /\ worker.boost \in Nat
    BY DEF Types, WorkerType
  <2>3. Priority(worker.score) \in 0 .. 10
    BY <2>2 DEF Priority, Least, Scores
  <2>4. h \in [status : Statuses, priority : 0 .. 10, boost : Nat]
    BY <1>0, <2>1, <2>2, <2>3 DEF HashType, Statuses
  <2> HIDE DEF h
  <2> QED BY <1>0, <2>1, <2>4 DEF HashType
<1> QED BY <1>2, <1>3, <1>4, <1>5, <1>6 DEF HashSteps

QueueSteps == RequeueAdds \/ WorkerAdds \/ AgingAdds \/ RemoveFromClass \/ \E t \in Tasks : RemoveFromWaiting(t)

LEMMA QueuesUnchanged == [Next]_vars => QueueSteps \/ queues' = queues
  BY DEF QueueSteps, Next, vars, WorkerSteps, WorkerTakes, AgingLoop, Others, TakeCreated, TakeScaled, TakeSignal,
         WorkerWritesHash, Classified, NeedPlacement, AgingLists, AgingReads, WorkerFails, Tick, Submit, Requeue,
         RequeueSteps, RequeueStatus, Duplicate, ScalingDone, Dispatch, Assess, Start, End, FirstRemovalRaises,
         SecondRemovalRaises, ReserveRaises, ExecutionLost

LEMMA TargetQueue == \A t \in Tasks, step \in {"all", "class"} : Target(step, t) \in QueueNames
  BY ClassOfTask DEF Target, QueueNames

LEMMA QueuesTypeStep ==
    ASSUME Types, QueueSteps
    PROVE  QueuesType'
<1>0. QueuesType
  BY DEF Types
<1>1. CASE RequeueAdds
  <2>1. api.task \in Tasks /\ Head(api.todo) \in {"all", "class"} /\ api.score \in Scores
    BY <1>1 DEF RequeueAdds, Types, ApiType, ApiTodos
  <2>2. ZAdd(Target(Head(api.todo), api.task), api.task, api.score)
    BY <1>1 DEF RequeueAdds
  <2> QED BY <1>0, <2>1, <2>2, TargetQueue, AddsMember
<1>2. CASE WorkerAdds
  <2>1. PICK step \in {"all", "class"} :
          Does(step) /\ ZAdd(Target(step, worker.task), worker.task, worker.score)
    BY <1>2 DEF WorkerAdds
  <2>2. worker.task \in Tasks /\ worker.score \in Scores
    BY <2>1 DEF Does, Types, WorkerType
  <2> QED BY <1>0, <2>1, <2>2, TargetQueue, AddsMember
<1>3. CASE AgingAdds
  <2>1. ZAdd(Target(Head(aging.todo), aging.task), aging.task, aging.score) /\ aging.task # NoTask
    BY <1>3 DEF AgingAdds
  <2>2. aging.task \in Tasks /\ aging.score \in Scores /\ Head(aging.todo) \in {"all", "class"}
    BY <2>1 DEF Types, AgingType, AgingTodos
  <2> QED BY <1>0, <2>1, <2>2, TargetQueue, AddsMember
<1>4. CASE RemoveFromClass
  <2>1. ZRem(ClassOf(executor.task), executor.task)
    BY <1>4 DEF RemoveFromClass
  <2>2. executor.task \in Tasks \cup {NoTask}
    BY DEF Types, ExecutorType
  <2>3. CASE executor.task \in Tasks
    BY <1>0, <2>1, <2>3, ClassOfTask, RemovesMember DEF QueueNames
  <2>4. CASE executor.task \notin Tasks
    <3>1. \A q \in QueueNames : DOMAIN queues[q] \ {executor.task} = DOMAIN queues[q]
      BY <1>0, <2>4 DEF QueuesType
    <3> QED BY <1>0, <2>1, <3>1 DEF QueuesType, ZRem, Restrict
  <2> QED BY <2>2, <2>3, <2>4
<1>5. ASSUME NEW t \in Tasks, RemoveFromWaiting(t)
      PROVE  QueuesType'
  BY <1>0, <1>5, RemovesMember DEF RemoveFromWaiting, QueueNames
<1> QED BY <1>1, <1>2, <1>3, <1>4, <1>5 DEF QueueSteps

LEMMA MessagesTypeStep ==
    ASSUME Types, [Next]_vars
    PROVE  MessagesType'
<1>0. IsABag(requests) /\ IsABag(assessments)
  BY DEF Types, MessagesType
<1>1. \/ requests' = requests
      \/ \E m : requests' = requests (+) SetToBag({m})
      \/ \E m : BagIn(m, requests) /\ requests' = requests (-) SetToBag({m})
      \/ \E a \in BagToSet(assessments) : Assess(a)
  BY DEF Next, vars, messages, WorkerSteps, WorkerTakes, AgingLoop, Others, TakeCreated, TakeScaled, TakeSignal,
         Take, Put, WorkerAdds, WorkerWritesHash, Classified, NeedPlacement, AgingLists, AgingReads, AgingAdds,
         WorkerFails, Tick, Submit, Requeue, RequeueSteps, RequeueStatus, RequeueAdds, Duplicate, ScalingDone,
         Dispatch, Start, End,
         RemoveFromWaiting, RemoveFromClass,
         FirstRemovalRaises, SecondRemovalRaises, ReserveRaises, ExecutionLost
<1>2. \/ assessments' = assessments
      \/ \E a : assessments' = assessments (+) SetToBag({a})
      \/ \E a \in BagToSet(assessments) : Assess(a)
  BY DEF Next, vars, messages, WorkerSteps, WorkerTakes, AgingLoop, Others, TakeCreated, TakeScaled, TakeSignal,
         WorkerAdds, WorkerWritesHash, Classified, NeedPlacement, AgingLists, AgingReads, AgingAdds,
         WorkerFails, Tick, Submit, Requeue, RequeueSteps, RequeueStatus, RequeueAdds, Duplicate, ScalingDone,
         Dispatch, Start, End,
         RemoveFromWaiting, RemoveFromClass,
         FirstRemovalRaises, SecondRemovalRaises, ReserveRaises, ExecutionLost
<1>3. ASSUME NEW a \in BagToSet(assessments), Assess(a)
      PROVE  MessagesType'
  <2>1. PICK m : requests' \in {requests (+) SetToBag({m}) (+) EmptyBag,
                                requests (+) SetToBag({m}) (+) SetToBag({m})}
    BY <1>3 DEF Assess
  <2>2. IsABag(requests (+) SetToBag({m})) /\ IsABag(requests (+) SetToBag({m}) (+) SetToBag({m}))
    BY <1>0, BagPut
  <2>3. IsABag(requests (+) SetToBag({m}) (+) EmptyBag)
    BY <2>2 DEF IsABag, EmptyBag, SetToBag, \oplus
  <2>4. BagIn(a, assessments) /\ assessments' = assessments (-) SetToBag({a})
    BY <1>3 DEF Assess
  <2> QED BY <1>0, <2>1, <2>2, <2>3, <2>4, BagTake DEF MessagesType
<1>4. CASE ~ \E a \in BagToSet(assessments) : Assess(a)
  <2>1. IsABag(requests')
    BY <1>0, <1>1, <1>4, BagPut, BagTake
  <2>2. IsABag(assessments')
    BY <1>0, <1>2, <1>4, BagPut
  <2> QED BY <2>1, <2>2 DEF MessagesType
<1> QED BY <1>3, <1>4

LEMMA WorkerTypeStep ==
    ASSUME Types, [Next]_vars
    PROVE  WorkerType'
<1>0. WorkerType
  BY DEF Types
<1>1. \/ worker' = worker \/ worker' = Free
      \/ worker.task # NoTask /\ Advance
      \/ \E t \in Tasks : \/ Handle(Message("created", t, "low"), DynamicPriority(t, 0, clock), 0)
                         \/ Handle(Message("scaled", t, "low"), hash[t].priority, hash[t].boost)
                         \/ \E s \in DOMAIN BoostOf :
                              Handle(Message("signal", t, s),
                                     DynamicPriority(t, hash[t].boost + BoostOf[s], clock),
                                     hash[t].boost + BoostOf[s])
  BY DEF Next, vars, agents, WorkerSteps, WorkerTakes, AgingLoop, Others, TakeCreated, TakeScaled, TakeSignal,
         WorkerAdds, WorkerWritesHash, Classified, NeedPlacement, Does, AgingLists, AgingReads, AgingAdds,
         WorkerFails, Tick, Submit, Requeue, RequeueSteps, RequeueStatus, RequeueAdds, Duplicate, ScalingDone,
         Dispatch, Start, End, Assess,
         RemoveFromWaiting, RemoveFromClass,
         FirstRemovalRaises, SecondRemovalRaises, ReserveRaises, ExecutionLost
<1>2. CASE worker' = worker \/ worker' = Free
  BY <1>0, <1>2 DEF WorkerType, Free, Todos, Kinds, Severities, Scores
<1>3. CASE worker.task # NoTask /\ Advance
  <2>1. worker.todo \in Left[worker.kind] /\ worker.kind \in Kinds /\ worker.task \in Tasks
    BY <1>0, <1>3 DEF WorkerType
  <2>2. CASE Len(worker.todo) > 1
    <3>1. Tail(worker.todo) \in Left[worker.kind]
      BY <2>1, <2>2, RestOfProgram
    <3>2. Left[worker.kind] \subseteq Todos
      BY <2>1, RestOfProgram
    <3>3. worker' = [worker EXCEPT !.todo = Tail(worker.todo)]
      BY <1>3, <2>2 DEF Advance
    <3> QED BY <1>0, <2>1, <3>1, <3>2, <3>3 DEF WorkerType
  <2>3. CASE ~(Len(worker.todo) > 1)
    BY <1>2, <1>3, <2>3 DEF Advance
  <2> QED BY <2>2, <2>3
<1>4. ASSUME NEW t \in Tasks, NEW kind \in Kinds, NEW s \in Severities, NEW score \in Scores, NEW boost \in Nat,
             Handle(Message(kind, t, s), score, boost)
      PROVE  WorkerType'
  <2>1. worker' = [task |-> t, todo |-> Program[kind], kind |-> kind, severity |-> s, score |-> score,
                   boost |-> boost]
    BY <1>4 DEF Handle, Message
  <2>2. Program[kind] \in Todos /\ Program[kind] \in Left[kind]
    BY DEF Program, Left, Todos, Kinds, P1, S1, S2
  <2> QED BY <2>1, <2>2 DEF WorkerType
<1>5. clock \in Nat /\ hash \in [Tasks -> [status : Statuses, priority : 0 .. 10, boost : Nat]]
  BY BoundsAssumption DEF Types, HashType, BoundsType
<1>6. ASSUME NEW t \in Tasks
      PROVE  /\ DynamicPriority(t, 0, clock) \in Scores /\ hash[t].priority \in Scores /\ hash[t].boost \in Nat
             /\ \A s \in Severities : /\ hash[t].boost + BoostOf[s] \in Nat
                                      /\ DynamicPriority(t, hash[t].boost + BoostOf[s], clock) \in Scores
  <2>1. hash[t].priority \in 0 .. 10 /\ hash[t].boost \in Nat
    BY <1>5
  <2>2. \A s \in Severities : BoostOf[s] \in Nat
    BY DEF BoostOf, Severities
  <2>3. \A s \in Severities : hash[t].boost + BoostOf[s] \in Nat
    BY <2>1, <2>2
  <2>4. hash[t].priority \in Scores
    BY <2>1 DEF Scores
  <2> QED BY <1>5, <2>1, <2>3, <2>4, DynamicScore
<1>7. DOMAIN BoostOf = Severities /\ "low" \in Severities /\ {"created", "signal", "scaled"} = Kinds
  BY DEF BoostOf, Severities, Kinds
<1>8. ASSUME NEW t \in Tasks
      PROVE  /\ Handle(Message("created", t, "low"), DynamicPriority(t, 0, clock), 0) => WorkerType'
             /\ Handle(Message("scaled", t, "low"), hash[t].priority, hash[t].boost) => WorkerType'
             /\ \A s \in DOMAIN BoostOf :
                  Handle(Message("signal", t, s), DynamicPriority(t, hash[t].boost + BoostOf[s], clock),
                         hash[t].boost + BoostOf[s]) => WorkerType'
  BY <1>4, <1>6, <1>7
<1> QED BY <1>1, <1>2, <1>3, <1>8

LEMMA AgingTypeStep ==
    ASSUME Types, [Next]_vars
    PROVE  AgingType'
<1>0. AgingType /\ clock \in 0 .. MaxAge
  BY DEF Types, BoundsType
<1>1. \/ aging' = aging \/ AgingAdds
      \/ \E c \in TaskClasses : AgingLists(c)
      \/ \E t \in Tasks : AgingReads(t)
  BY DEF Next, vars, agents, WorkerSteps, WorkerTakes, AgingLoop, Others, TakeCreated, TakeScaled, TakeSignal,
         WorkerAdds, WorkerWritesHash, Classified, NeedPlacement, WorkerFails, Tick, Submit, Requeue, RequeueSteps, RequeueStatus, RequeueAdds, Duplicate,
         ScalingDone, Dispatch, Start, End, Assess, RemoveFromWaiting, RemoveFromClass,
         FirstRemovalRaises, SecondRemovalRaises, ReserveRaises, ExecutionLost
<1>2. CASE aging' = aging
  BY <1>0, <1>2 DEF AgingType
<1>3. CASE AgingAdds
  <2>1. \/ aging' = Resting
        \/ aging' = [aging EXCEPT !.ids = @ \ {aging.task}, !.task = NoTask, !.score = 0, !.todo = <<>>]
        \/ aging' = [aging EXCEPT !.todo = Tail(aging.todo)] /\ Len(aging.todo) > 1
    BY <1>3 DEF AgingAdds, AgedOne
  <2>2. CASE aging' = Resting
    BY <1>0, <2>2, BoundsAssumption DEF AgingType, Resting, AgingTodos, Scores
  <2>3. CASE aging' = [aging EXCEPT !.ids = @ \ {aging.task}, !.task = NoTask, !.score = 0, !.todo = <<>>]
    <3>1. aging.ids \ {aging.task} \in SUBSET Tasks
      BY <1>0 DEF AgingType
    <3>2. aging' = [ids |-> aging.ids \ {aging.task}, now |-> aging.now, task |-> NoTask, score |-> 0,
                    todo |-> <<>>]
      BY <1>0, <2>3 DEF AgingType
    <3>3. aging.now \in 0 .. MaxAge
      BY <1>0 DEF AgingType
    <3> QED BY <3>1, <3>2, <3>3 DEF AgingType, AgingTodos, Scores
  <2>4. CASE aging' = [aging EXCEPT !.todo = Tail(aging.todo)] /\ Len(aging.todo) > 1
    <3>1. aging.todo \in AgingTodos
      BY <1>0 DEF AgingType
    <3>2. Tail(aging.todo) \in AgingTodos /\ Tail(aging.todo) # <<>>
      BY <2>4, <3>1, RestOfPair, <<"all">> \in AgingTodos DEF AgingTodos
    <3> QED BY <1>0, <2>4, <3>2 DEF AgingType
  <2> QED BY <2>1, <2>2, <2>3, <2>4
<1>4. ASSUME NEW c \in TaskClasses, AgingLists(c)
      PROVE  AgingType'
  <2>1. aging' = [Resting EXCEPT !.ids = DOMAIN queues[c], !.now = clock]
    BY <1>4 DEF AgingLists
  <2>2. DOMAIN queues[c] \in SUBSET Tasks
    BY DEF Types, QueuesType, QueueNames
  <2>3. aging' = [ids |-> DOMAIN queues[c], now |-> clock, task |-> NoTask, score |-> 0, todo |-> <<>>]
    BY <2>1 DEF Resting
  <2> QED BY <1>0, <2>2, <2>3 DEF AgingType, AgingTodos, Scores
<1>5. ASSUME NEW t \in Tasks, AgingReads(t)
      PROVE  AgingType'
  <2>1. /\ t \in aging.ids
        /\ aging' = [aging EXCEPT !.task = t, !.todo = <<"class", "all">>,
                                  !.score = DynamicPriority(t, hash[t].boost, aging.now)]
    BY <1>5 DEF AgingReads
  <2>2. hash[t].boost \in Nat /\ aging.now \in Nat
    BY <1>0, BoundsAssumption DEF AgingType, Types, HashType
  <2>3. DynamicPriority(t, hash[t].boost, aging.now) \in Scores
    BY <2>2, DynamicScore
  <2> QED BY <1>0, <2>1, <2>3 DEF AgingType, AgingTodos
<1> QED BY <1>1, <1>2, <1>3, <1>4, <1>5

LEMMA OthersTypeStep ==
    ASSUME Types, [Next]_vars
    PROVE  ExecutorType' /\ ApiType' /\ SetsType' /\ BoundsType'
<1>0. ExecutorType /\ ApiType /\ SetsType /\ BoundsType /\ executor.task \in Tasks \cup {NoTask}
      /\ worker.task \in Tasks \cup {NoTask}
  BY DEF Types, ExecutorType, WorkerType
<1>1. ExecutorType'
  <2>1. \/ executor' = executor \/ executor' = [task |-> NoTask, at |-> "idle"]
        \/ executor.at # "idle" /\ executor' = [executor EXCEPT !.at = "start"]
        \/ executor.at # "idle" /\ executor' = [executor EXCEPT !.at = "running"]
        \/ executor.at # "idle" /\ executor' = [executor EXCEPT !.at = "failing"]
        \/ \E t \in Tasks : executor' = [task |-> t, at |-> "class"]
        \/ \E t \in Tasks : executor' = [task |-> t, at |-> "failing"]
    BY DEF Next, vars, agents, WorkerSteps, WorkerTakes, AgingLoop, Others, TakeCreated, TakeScaled, TakeSignal,
           WorkerAdds, WorkerWritesHash, Classified, NeedPlacement, AgingLists, AgingReads, AgingAdds, WorkerFails,
           Tick, Submit, Requeue, RequeueSteps, RequeueStatus, RequeueAdds, Duplicate, ScalingDone,
           Dispatch, Start, End, Assess, RemoveFromWaiting, RemoveFromClass, FirstRemovalRaises,
           SecondRemovalRaises, ReserveRaises, ExecutionLost
  <2> QED BY <1>0, <2>1, PayloadAssumption DEF ExecutorType
<1>2. ApiType'
  <2>1. \/ api' = api \/ api' = Idle
        \/ \E t \in Tasks : api' = [task |-> t, todo |-> <<"hash", "all", "class">>,
                                     score |-> hash[t].priority + 5]
        \/ api' = [api EXCEPT !.todo = Tail(api.todo)] /\ Len(api.todo) > 1
    BY DEF Next, vars, agents, WorkerSteps, WorkerTakes, AgingLoop, Others, TakeCreated, TakeScaled, TakeSignal,
           WorkerAdds, WorkerWritesHash, Classified, NeedPlacement, AgingLists, AgingReads, AgingAdds, WorkerFails,
           Tick, Submit, Requeue, RequeueSteps, RequeueStatus, RequeueAdds, ApiAdvance, Duplicate, ScalingDone,
           Dispatch, Start, End, Assess, RemoveFromWaiting, RemoveFromClass, FirstRemovalRaises,
           SecondRemovalRaises, ReserveRaises, ExecutionLost
  <2>2. CASE api' = [api EXCEPT !.todo = Tail(api.todo)] /\ Len(api.todo) > 1
    <3>1. api.todo \in ApiTodos
      BY <1>0 DEF ApiType
    <3>2. Tail(api.todo) \in ApiTodos /\ Tail(api.todo) # <<>>
      BY <2>2, <3>1, RestOfPair
    <3> QED BY <1>0, <2>2, <3>2 DEF ApiType
  <2>3. ASSUME NEW t \in Tasks
        PROVE  hash[t].priority + 5 \in Scores
    <3>1. hash[t].priority \in 0 .. 10
      BY DEF Types, HashType
    <3> QED BY <3>1 DEF Scores
  <2>4. CASE api' = Idle
    BY <2>4 DEF Idle, ApiType, ApiTodos, Scores
  <2>5. CASE \E t \in Tasks : api' = [task |-> t, todo |-> <<"hash", "all", "class">>,
                                     score |-> hash[t].priority + 5]
    <3>1. PICK t \in Tasks : api' = [task |-> t, todo |-> <<"hash", "all", "class">>,
                                     score |-> hash[t].priority + 5]
      BY <2>5
    <3>2. <<"hash", "all", "class">> \in ApiTodos /\ <<"hash", "all", "class">> # <<>>
      BY DEF ApiTodos
    <3> QED BY <2>3, <3>1, <3>2 DEF ApiType
  <2>6. CASE api' = api
    BY <1>0, <2>6 DEF ApiType
  <2> QED BY <2>1, <2>2, <2>4, <2>5, <2>6
<1>3. SetsType'
  <2>1. \/ dispatches' = dispatches
        \/ \E t \in Tasks : dispatches' = dispatches \cup {t} \/ dispatches' = dispatches \ {t}
        \/ executor.at # "idle" /\ dispatches' = dispatches \cup {executor.task}
    BY DEF Next, vars, messages, WorkerSteps, WorkerTakes, AgingLoop, Others, TakeCreated, TakeScaled, TakeSignal,
           WorkerAdds, WorkerWritesHash, Classified, NeedPlacement, AgingLists, AgingReads, AgingAdds, WorkerFails,
           Tick, Submit, Requeue, RequeueSteps, RequeueStatus, RequeueAdds, Duplicate, ScalingDone,
           Dispatch, Start, End, Assess, RemoveFromWaiting, RemoveFromClass, FirstRemovalRaises,
           SecondRemovalRaises, ReserveRaises, ExecutionLost
  <2>2. /\ asked' = asked \/ (worker.task # NoTask /\ asked' = asked \cup {worker.task})
        /\ dead' = dead \/ (worker.task # NoTask /\ dead' = dead \cup {worker.task})
        /\ removed' = removed \/ (executor.at = "class" /\ removed' = removed \cup {executor.task})
        /\ decided' = decided \/ \E t \in Tasks : decided' = decided \cup {t}
        /\ requeued' = requeued \/ \E t \in Tasks : requeued' = requeued \cup {t}
        /\ halved' \subseteq halved \/ (executor.at # "idle" /\ halved' = halved \cup {executor.task})
    BY DEF Next, vars, history, WorkerSteps, WorkerTakes, AgingLoop, Others, TakeCreated, TakeScaled, TakeSignal,
           WorkerAdds, WorkerWritesHash, Classified, NeedPlacement, AgingLists, AgingReads, AgingAdds, WorkerFails,
           Does, Tick, Submit, Requeue, RequeueSteps, RequeueStatus, RequeueAdds, Duplicate, ScalingDone,
           Dispatch, Start, End, Assess, RemoveFromWaiting, RemoveFromClass, FirstRemovalRaises,
           SecondRemovalRaises, ReserveRaises, ExecutionLost
  <2>3. \/ excused' = excused
        \/ \E t \in Tasks : excused' = excused \cup {t}
        \/ executor.at # "idle" /\ excused' = excused \cup {executor.task}
        \/ \E S \in SUBSET {executor.task} : executor.at = "class" /\ excused' = excused \cup S
    BY DEF Next, vars, history, WorkerSteps, WorkerTakes, AgingLoop, Others, TakeCreated, TakeScaled, TakeSignal,
           WorkerAdds, WorkerWritesHash, Classified, NeedPlacement, AgingLists, AgingReads, AgingAdds, WorkerFails,
           Does, Tick, Submit, Requeue, RequeueSteps, RequeueStatus, RequeueAdds, Duplicate, ScalingDone,
           Dispatch, Start, End, Assess, RemoveFromWaiting, RemoveFromClass, FirstRemovalRaises,
           SecondRemovalRaises, ReserveRaises, ExecutionLost
  <2>4. executor.at # "idle" => executor.task \in Tasks
    BY <1>0 DEF ExecutorType
  <2>5. excused' \subseteq Tasks
    BY <1>0, <2>3, <2>4 DEF SetsType
  <2> QED BY <1>0, <2>1, <2>2, <2>4, <2>5 DEF SetsType
<1>4. BoundsType'
  <2>1. /\ clock' = clock \/ (clock < MaxAge /\ clock' = clock + 1)
        /\ faults' = faults \/ (faults < MaxFaults /\ faults' = faults + 1)
    BY DEF Next, vars, WorkerSteps, WorkerTakes, AgingLoop, Others, TakeCreated, TakeScaled, TakeSignal, Fault,
           WorkerAdds, WorkerWritesHash, Classified, NeedPlacement, AgingLists, AgingReads, AgingAdds, WorkerFails,
           Tick, Submit, Requeue, RequeueSteps, RequeueStatus, RequeueAdds, Duplicate, ScalingDone,
           Dispatch, Start, End, Assess, RemoveFromWaiting, RemoveFromClass, FirstRemovalRaises,
           SecondRemovalRaises, ReserveRaises, ExecutionLost
  <2> QED BY <1>0, <2>1, BoundsAssumption DEF BoundsType
<1> QED BY <1>1, <1>2, <1>3, <1>4

LEMMA TypesInit == Init => Types
<1> SUFFICES ASSUME Init PROVE Types
  OBVIOUS
<1>1. HashType /\ SetsType /\ BoundsType
  BY BoundsAssumption DEF Init, HashType, Statuses, SetsType, BoundsType
<1>2. QueuesType
  BY DEF Init, QueuesType
<1>3. MessagesType
  BY DEF Init, MessagesType, IsABag, EmptyBag, SetToBag
<1>4. WorkerType
  BY DEF Init, WorkerType, Free, Todos, Severities, Scores
<1>5. AgingType /\ ApiType /\ ExecutorType
  BY BoundsAssumption DEF Init, AgingType, Resting, AgingTodos, Scores, Idle, ApiType, ApiTodos, ExecutorType
<1> QED BY <1>1, <1>2, <1>3, <1>4, <1>5 DEF Types

LEMMA TypesStep == Types /\ [Next]_vars => Types'
<1> SUFFICES ASSUME Types, [Next]_vars PROVE Types'
  OBVIOUS
<1>1. HashType'
  BY HashUnchanged, HashTypeStep DEF Types, HashType
<1>2. QueuesType'
  BY QueuesUnchanged, QueuesTypeStep DEF Types, QueuesType
<1> QED BY <1>1, <1>2, MessagesTypeStep, WorkerTypeStep, AgingTypeStep, OthersTypeStep DEF Types

(***************************************************************************)
(* The invariant.                                                          *)
(***************************************************************************)
Status(t) == hash[t].status
In(t, q) == t \in DOMAIN queues[q]
Has(t, kind) == BagIn(Message(kind, t, "low"), requests)
Enqueues(t) == worker.task = t /\ worker.kind = "created"

WorkerInv ==
    worker.task # NoTask =>
        /\ worker.kind # "signal" => worker.severity = "low"
        /\ worker.kind = "signal" \/ worker.todo \in {P4, P5}
             => Status(worker.task) \notin {"absent", "created"}
        /\ worker.kind = "scaled" => worker.task \in asked

ExecutorInv ==
    /\ executor.at # "idle" => executor.task \in decided
    /\ executor.at \in {"start", "running"} => executor.task \in removed
    /\ executor.task \notin dispatches

ApiInv == api.task # NoTask => api.task \in requeued /\ api.task \in asked

(* The order in which things happen to a task.                             *)
Life(t) ==
    /\ t \in decided => t \in asked
    /\ t \in dispatches \cup removed => t \in decided
    /\ Status(t) = "absent" => ~InHand(t) /\ ~Has(t, "created") /\ \A q \in QueueNames : ~In(t, q)
    /\ Status(t) \in {"absent", "created"} => t \notin asked
    /\ Status(t) \in Ended => t \in decided
    /\ t \in decided \ (excused \cup requeued) => Status(t) \in Ended
    /\ Has(t, "scaled") => t \in asked
    /\ \A q \in QueueNames : In(t, q) => q \in {"waiting", ClassOf(t)}

(* A first enqueueing that nobody repeats comes before everything else.    *)
Fresh(t) ==
    Enqueues(t) /\ t \notin excused =>
        t \notin asked /\ (worker.todo \in {P1, P2, P3} => Status(t) = "created")

Announced(t) ==
    Status(t) = "classified" =>
        t \in asked \cup requeued \cup dead \/ Has(t, "created") \/ Enqueues(t)

(* The executor has removed a task from queue:waiting only.                *)
Halfway(t) == executor.task = t /\ executor.at = "class"

(* The executor leaves nothing behind of what it removed, nor does it find *)
(* anyone about to put it back.                                            *)
Gone(t) ==
    (t \in removed \/ Halfway(t)) /\ t \notin excused \cup requeued =>
        /\ ~InHand(t) /\ ~In(t, "waiting")
        /\ t \in removed => ~In(t, ClassOf(t))

(* Whatever was enqueued and not yet removed is in both queues.            *)
Both(t) ==
    /\ t \notin excused \cup requeued \cup dead \cup removed \cup halved
    /\ ~Halfway(t) /\ Status(t) # "absent" /\ ~Has(t, "created") /\ ~Enqueues(t)
    => In(t, "waiting") /\ In(t, ClassOf(t))

(* So is what is being enqueued, as far as that came.                      *)
Progress(t) ==
    Enqueues(t) /\ t \notin excused \cup requeued \cup dead =>
        /\ worker.todo # P1 => In(t, "waiting")
        /\ worker.todo \notin {P1, P2} => In(t, ClassOf(t))

Task(t) == Life(t) /\ Fresh(t) /\ Announced(t) /\ Gone(t) /\ Both(t) /\ Progress(t)

Inv == Types /\ WorkerInv /\ ExecutorInv /\ ApiInv /\ \A t \in Tasks : Task(t)

LEMMA InvInit == Init => Inv
<1> SUFFICES ASSUME Init PROVE Inv
  OBVIOUS
<1>1. Types
  BY TypesInit
<1>2. WorkerInv /\ ExecutorInv /\ ApiInv
  BY DEF Init, WorkerInv, ExecutorInv, ApiInv, Free, Idle
<1>3. ASSUME NEW t \in Tasks
      PROVE  Task(t)
  <2>1. /\ Status(t) = "absent" /\ (\A q \in QueueNames : ~In(t, q)) /\ ~InHand(t) /\ ~Enqueues(t)
        /\ executor.task # t /\ ~Halfway(t) /\ \A kind : ~Has(t, kind)
    BY PayloadAssumption
       DEF Init, Status, In, InHand, Halfway, Enqueues, Has, Free, Resting, Idle, EmptyBag, SetToBag, BagIn,
           BagToSet
  <2>2. t \notin asked \cup decided \cup removed \cup excused \cup requeued \cup dead \cup dispatches \cup halved
    BY DEF Init
  <2> QED BY <2>1, <2>2 DEF Task, Life, Fresh, Announced, Gone, Halfway, Both, Progress, Ended, QueueNames
<1> QED BY <1>1, <1>2, <1>3 DEF Inv

(***************************************************************************)
(* What a step leaves alone, and what the calls do to the messages.        *)
(***************************************************************************)
Calls == {"created", "scaled"}

SameStatus == \A u \in Tasks : Status(u)' = Status(u)
SameQueues == \A u \in Tasks, q \in QueueNames : In(u, q)' <=> In(u, q)
SameCalls == \A u \in Tasks, k \in Calls : Has(u, k)' <=> Has(u, k)

LEMMA Same ==
    /\ hash' = hash => SameStatus
    /\ queues' = queues => SameQueues
    /\ requests' = requests => SameCalls
  BY DEF SameStatus, SameQueues, SameCalls, Status, In, Has

LEMMA Puts ==
    ASSUME Types, NEW s \in Tasks, NEW kind \in Kinds, NEW severity, Put(Message(kind, s, severity))
    PROVE  \A u \in Tasks, k \in Calls : Has(u, k)' <=> Has(u, k) \/ (u = s /\ k = kind /\ severity = "low")
<1> DEFINE m == Message(kind, s, severity)
<1>1. requests' = requests (+) SetToBag({m})
  BY DEF Put
<1>2. \A y : BagIn(y, requests (+) SetToBag({m})) <=> BagIn(y, requests) \/ y = m
  BY BagPut DEF Types, MessagesType
<1>3. \A u \in Tasks, k \in Calls : Message(k, u, "low") = m <=> u = s /\ k = kind /\ severity = "low"
  BY DEF Message
<1>4. \A y : BagIn(y, requests') <=> BagIn(y, requests) \/ y = m
  BY <1>1, <1>2
<1> HIDE DEF m
<1> QED BY <1>3, <1>4 DEF Has

LEMMA Takes ==
    ASSUME Types, NEW s \in Tasks, NEW kind \in Kinds, NEW severity, Take(Message(kind, s, severity))
    PROVE  /\ \A u \in Tasks, k \in Calls : Has(u, k)' => Has(u, k)
           /\ \A u \in Tasks, k \in Calls : (u # s \/ k # kind) /\ Has(u, k) => Has(u, k)'
           /\ worker.task = NoTask
           /\ severity = "low" /\ kind \in Calls => Has(s, kind)
<1> DEFINE m == Message(kind, s, severity)
<1>1. BagIn(m, requests) /\ requests' = requests (-) SetToBag({m}) /\ worker.task = NoTask
  BY DEF Take
<1>2. /\ \A y : BagIn(y, requests (-) SetToBag({m})) => BagIn(y, requests)
      /\ \A y : y # m /\ BagIn(y, requests) => BagIn(y, requests (-) SetToBag({m}))
  BY <1>1, BagTake DEF Types, MessagesType
<1>3. \A u \in Tasks, k \in Calls : Message(k, u, "low") = m => u = s /\ k = kind
  BY DEF Message
<1>4. severity = "low" => Message(kind, s, "low") = m
  OBVIOUS
<1>5. /\ \A y : BagIn(y, requests') => BagIn(y, requests)
      /\ \A y : y # m /\ BagIn(y, requests) => BagIn(y, requests')
  BY <1>1, <1>2
<1> HIDE DEF m
<1> QED BY <1>1, <1>3, <1>4, <1>5 DEF Has

(* The handler goes on: what is left of it, or nothing.                    *)
LEMMA Advances ==
    ASSUME Types, worker.task # NoTask, Advance
    PROVE  \/ worker' = Free /\ worker.todo = P5
           \/ /\ worker'.task = worker.task /\ worker'.kind = worker.kind
              /\ worker'.severity = worker.severity
              /\ worker.todo # P5 /\ worker'.todo = Tail(worker.todo)
<1>1. worker.kind \in Kinds /\ worker.todo \in Left[worker.kind]
  BY DEF Types, WorkerType
<1>2. worker.todo \in {P1, P2, P3, P4, P5, S1, S2, S3}
  BY <1>1 DEF Kinds, Left
<1>3. Len(worker.todo) > 1 <=> worker.todo # P5
  <2>1. Len(P1) > 1 /\ Len(P2) > 1 /\ Len(P3) > 1 /\ Len(P4) > 1
    BY DEF P1, P2, P3, P4
  <2>2. Len(S1) > 1 /\ Len(S2) > 1 /\ Len(S3) > 1 /\ ~(Len(P5) > 1)
    BY DEF S1, S2, S3, P5
  <2> QED BY <1>2, <2>1, <2>2
<1>4. CASE Len(worker.todo) > 1
  <2>1. worker' = [worker EXCEPT !.todo = Tail(@)]
    BY <1>4 DEF Advance
  <2> QED BY <2>1, <1>3, <1>4 DEF Types, WorkerType
<1>5. CASE ~(Len(worker.todo) > 1)
  BY <1>3, <1>5 DEF Advance
<1> QED BY <1>4, <1>5

(***************************************************************************)
(* Every step keeps the invariant: one lemma for each action.              *)
(***************************************************************************)

LEMMA InvSubmit ==
    ASSUME Inv, Types', NEW s \in Tasks, Submit(s)
    PROVE  Inv'
<1>1. Status(s) = "absent" /\ \A u \in Tasks : Status(u)' = IF u = s THEN "created" ELSE Status(u)
  BY DEF Inv, Types, HashType, Submit, Status
<1>2. \A u \in Tasks, k \in Calls : Has(u, k)' <=> Has(u, k) \/ (u = s /\ k = "created")
  BY Puts DEF Inv, Submit, Kinds
<1>3. SameQueues /\ UNCHANGED <<dispatches, worker, aging, executor, api>>
  BY Same DEF Submit, agents
<1>4. UNCHANGED <<asked, decided, removed, excused, requeued, dead, halved>>
  BY DEF Submit, history
<1>5. WorkerInv' /\ ExecutorInv' /\ ApiInv'
  BY <1>1, <1>3, <1>4 DEF Inv, WorkerInv, ExecutorInv, ApiInv, Types, WorkerType, Task, Life, InHand
<1>6. ASSUME NEW t \in Tasks
      PROVE  Task(t)'
  <2>1. Task(t) /\ (Enqueues(t)' <=> Enqueues(t)) /\ (InHand(t)' <=> InHand(t))
    BY <1>3 DEF Inv, Enqueues, InHand
  <2>2. Life(t)' /\ Fresh(t)' /\ Announced(t)'
    BY <1>1, <1>2, <1>3, <1>4, <2>1, ClassOfTask
       DEF Task, Life, Fresh, Announced, Enqueues, InHand, Ended, SameQueues, QueueNames, Calls
  <2>3. Gone(t)' /\ Both(t)' /\ Progress(t)'
    BY <1>1, <1>2, <1>3, <1>4, <2>1, ClassOfTask
       DEF Task, Gone, Halfway, Both, Progress, SameQueues, QueueNames, Calls
  <2> QED BY <2>2, <2>3 DEF Task
<1> QED BY <1>5, <1>6 DEF Inv

LEMMA InvRequeue ==
    ASSUME Inv, Types', NEW s \in Tasks, Requeue(s)
    PROVE  Inv'
<1>1. Status(s) = "failed" /\ SameStatus /\ SameQueues /\ SameCalls
  BY Same DEF Requeue, messages, Status
<1>2. UNCHANGED <<dispatches, worker, aging, executor>>
  BY DEF Requeue, messages
<1>3. UNCHANGED <<asked, decided, removed, excused, dead, halved>> /\ requeued' = requeued \cup {s}
  BY DEF Requeue
<1>4. api.task = NoTask /\ api'.task = s /\ s \in asked
  BY <1>1 DEF Requeue, Inv, Task, Life, Ended
<1>5. WorkerInv' /\ ExecutorInv' /\ ApiInv'
  BY <1>1, <1>2, <1>3, <1>4 DEF Inv, WorkerInv, ExecutorInv, ApiInv, Types, WorkerType, SameStatus
<1>6. ASSUME NEW t \in Tasks
      PROVE  Task(t)'
  <2>1. Task(t) /\ (Enqueues(t)' <=> Enqueues(t)) /\ (InHand(t)' <=> InHand(t) \/ t = s)
    BY <1>2, <1>4, PayloadAssumption DEF Inv, Enqueues, InHand
  <2>2. Life(t)' /\ Fresh(t)' /\ Announced(t)'
    BY <1>1, <1>2, <1>3, <2>1, ClassOfTask
       DEF Task, Life, Fresh, Announced, SameStatus, SameQueues, SameCalls, QueueNames, Calls
  <2>3. Gone(t)' /\ Both(t)' /\ Progress(t)'
    BY <1>1, <1>2, <1>3, <2>1, ClassOfTask
       DEF Task, Gone, Halfway, Both, Progress, SameStatus, SameQueues, SameCalls, QueueNames, Calls
  <2> QED BY <2>2, <2>3 DEF Task
<1> QED BY <1>5, <1>6 DEF Inv

(* The API goes on: what is left for the task it has, or nothing.          *)
LEMMA ApiAdvances == Types /\ api.task # NoTask /\ ApiAdvance => api'.task \in {api.task, NoTask}
  BY DEF ApiAdvance, Idle, Types, ApiType

LEMMA InvRequeueStatus ==
    ASSUME Inv, Types', RequeueStatus
    PROVE  Inv'
<1> DEFINE s == api.task
<1>1. s \in Tasks /\ s \in requeued /\ s \in asked
  BY DEF RequeueStatus, Inv, ApiInv, Types, ApiType
<1>2. \A u \in Tasks : Status(u)' = IF u = s THEN "classified" ELSE Status(u)
  BY <1>1, SetsStatus DEF Inv, Types, RequeueStatus, Status, Statuses
<1>3. SameQueues /\ SameCalls /\ UNCHANGED <<dispatches, worker, aging, executor>>
  BY Same DEF RequeueStatus, messages
<1>4. UNCHANGED <<asked, decided, removed, excused, requeued, dead, halved>>
  BY DEF RequeueStatus, history
<1>5. api'.task \in {s, NoTask}
  BY ApiAdvances DEF RequeueStatus, Inv
<1>6. WorkerInv' /\ ExecutorInv' /\ ApiInv'
  BY <1>1, <1>2, <1>3, <1>4, <1>5 DEF Inv, WorkerInv, ExecutorInv, ApiInv, Types, WorkerType
<1>7. ASSUME NEW t \in Tasks
      PROVE  Task(t)'
  <2>1. Task(t) /\ (Enqueues(t)' <=> Enqueues(t)) /\ (InHand(t)' => InHand(t)) /\ Status(s) # "absent"
    BY <1>1, <1>3, <1>5, PayloadAssumption DEF Inv, Enqueues, InHand, Task, Life
  <2>2. Life(t)' /\ Fresh(t)' /\ Announced(t)'
    BY <1>1, <1>2, <1>3, <1>4, <2>1, ClassOfTask
       DEF Task, Life, Fresh, Announced, Ended, SameQueues, SameCalls, QueueNames, Calls
  <2>3. Gone(t)' /\ Both(t)' /\ Progress(t)'
    BY <1>1, <1>2, <1>3, <1>4, <2>1, ClassOfTask
       DEF Task, Gone, Halfway, Both, Progress, SameQueues, SameCalls, QueueNames, Calls
  <2> QED BY <2>2, <2>3 DEF Task
<1> QED BY <1>6, <1>7 DEF Inv

LEMMA InvRequeueAdds ==
    ASSUME Inv, Types', RequeueAdds
    PROVE  Inv'
<1> DEFINE s == api.task
           q == Target(Head(api.todo), s)
<1>1. s \in Tasks /\ q \in {"waiting", ClassOf(s)} /\ q \in QueueNames
  BY TargetQueue, ClassOfTask DEF RequeueAdds, Inv, Types, ApiType, ApiTodos, Target, QueueNames
<1>2. api.score \in Scores
  BY DEF Inv, Types, ApiType
<1>3. \A u \in Tasks, p \in QueueNames : In(u, p)' <=> In(u, p) \/ (p = q /\ u = s)
  BY <1>1, <1>2, AddsMember DEF RequeueAdds, Inv, Types, In
<1>4. SameStatus /\ SameCalls /\ UNCHANGED <<dispatches, worker, aging, executor>>
  BY Same DEF RequeueAdds, messages
<1>5. UNCHANGED <<asked, decided, removed, excused, requeued, dead, halved>>
  BY DEF RequeueAdds, history
<1>6. api'.task \in {s, NoTask}
  BY ApiAdvances DEF RequeueAdds, Inv
<1>7. s \in requeued /\ s \in asked
  BY DEF RequeueAdds, Inv, ApiInv
<1>8. WorkerInv' /\ ExecutorInv' /\ ApiInv'
  BY <1>4, <1>5, <1>6, <1>7 DEF Inv, WorkerInv, ExecutorInv, ApiInv, Types, WorkerType, SameStatus
<1> HIDE DEF q
<1>9. ASSUME NEW t \in Tasks
      PROVE  Task(t)'
  <2>1. Task(t) /\ (Enqueues(t)' <=> Enqueues(t)) /\ (InHand(t)' => InHand(t)) /\ InHand(s)
    BY <1>4, <1>6, PayloadAssumption DEF Inv, Enqueues, InHand
  <2>2. Life(t)' /\ Fresh(t)' /\ Announced(t)'
    BY <1>1, <1>3, <1>4, <1>5, <2>1, ClassOfTask
       DEF Task, Life, Fresh, Announced, SameStatus, SameCalls, QueueNames, Calls
  <2>3. Gone(t)' /\ Both(t)' /\ Progress(t)'
    BY <1>1, <1>3, <1>4, <1>5, <1>7, <2>1, ClassOfTask
       DEF Task, Gone, Halfway, Both, Progress, SameStatus, SameCalls, QueueNames, Calls
  <2> QED BY <2>2, <2>3 DEF Task
<1> QED BY <1>8, <1>9 DEF Inv

LEMMA InvTakeCreated ==
    ASSUME Inv, Types', NEW s \in Tasks, TakeCreated(s)
    PROVE  Inv'
<1>1. /\ \A u \in Tasks, k \in Calls : Has(u, k)' => Has(u, k)
      /\ \A u \in Tasks, k \in Calls : (u # s \/ k # "created") /\ Has(u, k) => Has(u, k)'
      /\ worker.task = NoTask /\ Has(s, "created")
  BY Takes DEF TakeCreated, Inv, Kinds, Calls
<1>2. worker'.task = s /\ worker'.kind = "created" /\ worker'.severity = "low" /\ worker'.todo = P1
  BY DEF TakeCreated, Handle, Message, Program, P1
<1>3. SameStatus /\ SameQueues /\ UNCHANGED <<dispatches, aging, executor, api>>
  BY Same DEF TakeCreated
<1>4. UNCHANGED <<asked, decided, removed, requeued, dead, halved>>
  BY DEF TakeCreated
<1>5. excused \subseteq excused' /\ excused' \subseteq excused \cup {s} /\ (s \notin excused' => Status(s) = "created")
  BY DEF TakeCreated, Status
<1>6. WorkerInv' /\ ExecutorInv' /\ ApiInv'
  <2>1. P1 # P4 /\ P1 # P5
    BY DEF P1, P4, P5
  <2> QED BY <1>2, <1>3, <1>4, <2>1 DEF Inv, WorkerInv, ExecutorInv, ApiInv
<1>7. ASSUME NEW t \in Tasks
      PROVE  Task(t)'
  <2>1. Task(t) /\ ~Enqueues(t) /\ (Enqueues(t)' <=> t = s) /\ (InHand(t)' <=> InHand(t) \/ t = s)
    BY <1>1, <1>2, <1>3, PayloadAssumption DEF Inv, Enqueues, InHand
  <2>2. executor.task = t => t \in decided
    BY PayloadAssumption DEF Inv, ExecutorInv, Types, ExecutorType
  <2>3. Life(t)' /\ Fresh(t)' /\ Announced(t)'
    BY <1>1, <1>3, <1>4, <1>5, <2>1, ClassOfTask
       DEF Task, Life, Fresh, Announced, SameStatus, SameQueues, QueueNames, Calls
  <2>4. Gone(t)' /\ Both(t)' /\ Progress(t)'
    BY <1>1, <1>2, <1>3, <1>4, <1>5, <2>1, <2>2, ClassOfTask
       DEF Task, Life, Gone, Halfway, Both, Progress, SameStatus, SameQueues, QueueNames, Calls
  <2> QED BY <2>3, <2>4 DEF Task
<1> QED BY <1>6, <1>7 DEF Inv

LEMMA InvTakeSignal ==
    ASSUME Inv, Types', NEW s \in Tasks, NEW severity, TakeSignal(s, severity)
    PROVE  Inv'
<1>1. SameCalls /\ worker.task = NoTask
  BY Takes DEF TakeSignal, Inv, Kinds, Calls, SameCalls
<1>2. SameStatus /\ SameQueues /\ UNCHANGED <<dispatches, aging, executor, api>>
  BY Same DEF TakeSignal, agents
<1>3. UNCHANGED <<asked, decided, removed, excused, requeued, dead, halved>>
  BY DEF TakeSignal, history
<1>4. \/ worker' = worker
      \/ Status(s) = "classified" /\ worker'.task = s /\ worker'.kind = "signal"
  BY DEF TakeSignal, Handle, Message, Status
<1>5. WorkerInv' /\ ExecutorInv' /\ ApiInv'
  BY <1>1, <1>2, <1>3, <1>4 DEF Inv, WorkerInv, ExecutorInv, ApiInv, SameStatus
<1>6. ASSUME NEW t \in Tasks
      PROVE  Task(t)'
  <2>1. Task(t) /\ ~Enqueues(t) /\ ~Enqueues(t)'
    BY <1>1, <1>4, PayloadAssumption DEF Inv, Enqueues
  <2>2. (InHand(t)' <=> InHand(t)) \/ (t = s /\ Status(s) = "classified")
    BY <1>1, <1>2, <1>4, PayloadAssumption DEF InHand
  <2>3. executor.task = t => t \in decided
    BY PayloadAssumption DEF Inv, ExecutorInv, Types, ExecutorType
  <2>4. Life(t)' /\ Fresh(t)' /\ Announced(t)'
    BY <1>1, <1>2, <1>3, <2>1, <2>2, ClassOfTask
       DEF Task, Life, Fresh, Announced, SameStatus, SameQueues, SameCalls, QueueNames, Calls
  <2>5. Gone(t)' /\ Both(t)' /\ Progress(t)'
    BY <1>1, <1>2, <1>3, <2>1, <2>2, <2>3, ClassOfTask
       DEF Task, Life, Gone, Halfway, Both, Progress, SameStatus, SameQueues, SameCalls, QueueNames, Calls, Ended
  <2> QED BY <2>4, <2>5 DEF Task
<1> QED BY <1>5, <1>6 DEF Inv

LEMMA InvTakeScaled ==
    ASSUME Inv, Types', NEW s \in Tasks, TakeScaled(s)
    PROVE  Inv'
<1>1. /\ \A u \in Tasks, k \in Calls : Has(u, k)' => Has(u, k)
      /\ \A u \in Tasks, k \in Calls : (u # s \/ k # "scaled") /\ Has(u, k) => Has(u, k)'
      /\ worker.task = NoTask /\ Has(s, "scaled")
  BY Takes DEF TakeScaled, Inv, Kinds, Calls
<1>2. SameStatus /\ SameQueues /\ UNCHANGED <<dispatches, aging, executor, api>>
  BY Same DEF TakeScaled
<1>3. UNCHANGED <<asked, decided, removed, requeued, dead, halved>>
  BY DEF TakeScaled
<1>4. excused \subseteq excused' /\ (Status(s) = "failed" => s \in excused')
  BY DEF TakeScaled, Status
<1>5. s \in asked /\ Status(s) \notin {"absent", "created"}
  BY <1>1 DEF Inv, Task, Life
<1>6. \/ worker' = worker
      \/ /\ Status(s) \notin {"running", "done", "dispatched"}
         /\ worker'.task = s /\ worker'.kind = "scaled" /\ worker'.severity = "low"
  BY DEF TakeScaled, Handle, Message, Status
<1>7. WorkerInv' /\ ExecutorInv' /\ ApiInv'
  BY <1>1, <1>2, <1>3, <1>5, <1>6 DEF Inv, WorkerInv, ExecutorInv, ApiInv, SameStatus
<1>8. ASSUME NEW t \in Tasks
      PROVE  Task(t)'
  <2>1. Task(t) /\ ~Enqueues(t) /\ ~Enqueues(t)'
    BY <1>1, <1>6, PayloadAssumption DEF Inv, Enqueues
  <2>2. \/ InHand(t)' <=> InHand(t)
        \/ t = s /\ Status(s) \notin {"running", "done", "dispatched"}
    BY <1>1, <1>2, <1>6, PayloadAssumption DEF InHand
  <2>3. executor.task = t => t \in decided
    BY PayloadAssumption DEF Inv, ExecutorInv, Types, ExecutorType
  <2>4. Life(t)' /\ Fresh(t)' /\ Announced(t)'
    BY <1>1, <1>2, <1>3, <1>4, <1>5, <2>1, <2>2, ClassOfTask
       DEF Task, Life, Fresh, Announced, SameStatus, SameQueues, QueueNames, Calls
  <2>5. Gone(t)' /\ Both(t)' /\ Progress(t)'
    BY <1>1, <1>2, <1>3, <1>4, <2>1, <2>2, <2>3, ClassOfTask
       DEF Task, Life, Gone, Halfway, Both, Progress, SameStatus, SameQueues, QueueNames, Calls, Ended
  <2> QED BY <2>4, <2>5 DEF Task
<1> QED BY <1>7, <1>8 DEF Inv

(* How far an enqueueing has come when its next step is done.              *)
LEMMA Enqueueing ==
    ASSUME Types, worker.task # NoTask
    PROVE  /\ Head(worker.todo) = "all" => worker.todo \in {P1, S2}
           /\ Head(worker.todo) = "class" => worker.todo \in {P2, S3}
           /\ Head(worker.todo) = "hash" => worker.todo \in {P3, S1}
           /\ Head(worker.todo) = "classified" => worker.todo = P4
           /\ Head(worker.todo) = "placement" => worker.todo = P5
           /\ worker.kind = "created" => worker.todo \in {P1, P2, P3, P4, P5}
<1>1. worker.kind \in Kinds /\ worker.todo \in Left[worker.kind]
  BY DEF Types, WorkerType
<1>2. worker.todo \in {P1, P2, P3, P4, P5, S1, S2, S3}
  BY <1>1 DEF Kinds, Left
<1>3. worker.kind = "created" => worker.todo \in {P1, P2, P3, P4, P5}
  BY <1>1 DEF Left
<1> QED BY <1>2, <1>3, Lengths

(* The rests differ.                                                       *)
LEMMA Distinct ==
    /\ P1 # P2 /\ P1 # P3 /\ P1 # P4 /\ P1 # P5 /\ P2 # P3 /\ P2 # P4 /\ P2 # P5
    /\ P3 # P4 /\ P3 # P5 /\ P4 # P5
    /\ \A todo \in {S1, S2, S3} : todo \notin {P1, P2, P3, P4, P5}
<1>1. /\ P1 # P2 /\ P1 # P3 /\ P1 # P4 /\ P1 # P5 /\ P2 # P3 /\ P2 # P4 /\ P2 # P5
      /\ P3 # P4 /\ P3 # P5 /\ P4 # P5
  BY DEF P1, P2, P3, P4, P5
<1>2. S1 \notin {P1, P2, P3, P4, P5}
  BY DEF P1, P2, P3, P4, P5, S1
<1>3. S2 \notin {P1, P2, P3, P4, P5}
  BY DEF P1, P2, P3, P4, P5, S2
<1>4. S3 \notin {P1, P2, P3, P4, P5}
  BY DEF P1, P2, P3, P4, P5, S3
<1> QED BY <1>1, <1>2, <1>3, <1>4

LEMMA InvWorkerAdds ==
    ASSUME Inv, Types', WorkerAdds
    PROVE  Inv'
<1> DEFINE s == worker.task
<1>1. PICK step \in {"all", "class"} : Does(step) /\ ZAdd(Target(step, s), s, worker.score)
  BY DEF WorkerAdds
<1> DEFINE q == Target(step, s)
<1>2. s \in Tasks /\ s # NoTask /\ worker.score \in Scores
  BY <1>1 DEF Does, Inv, Types, WorkerType
<1>3. /\ q \in QueueNames /\ q \in {"waiting", ClassOf(s)}
      /\ step = "all" => q = "waiting" /\ worker.todo \in {P1, S2}
      /\ step = "class" => q = ClassOf(s) /\ worker.todo \in {P2, S3}
  BY <1>1, <1>2, TargetQueue, Enqueueing DEF Does, Target, Inv
<1>4. \A u \in Tasks, p \in QueueNames : In(u, p)' <=> In(u, p) \/ (p = q /\ u = s)
  BY <1>1, <1>2, <1>3, AddsMember DEF Inv, Types, In
<1>5. worker.todo # P5
  BY <1>3, Distinct
<1>6. /\ worker'.task = s /\ worker'.kind = worker.kind /\ worker'.severity = worker.severity
      /\ worker'.todo = Tail(worker.todo)
  BY <1>2, <1>5, Advances DEF WorkerAdds, Inv
<1>7. SameStatus /\ SameCalls /\ UNCHANGED <<dispatches, aging, executor, api>>
  BY Same DEF WorkerAdds, messages
<1>8. UNCHANGED <<asked, decided, removed, excused, requeued, dead, halved>>
  BY DEF WorkerAdds, history
<1>9. worker.todo \in {P1, P2, S2, S3} /\ worker'.todo \in {P2, P3, S3, P5}
  BY <1>1, <1>3, <1>6, Tails
<1>10. worker.kind = "created" => worker'.todo \notin {P1, P4, P5} /\ worker.todo \in {P1, P2}
  BY <1>2, <1>6, <1>9, Enqueueing, Tails, Distinct DEF Inv
<1>11. worker.kind = "created" => /\ worker.todo = P1 => q = "waiting" /\ worker'.todo = P2
                                  /\ worker.todo = P2 => q = ClassOf(s) /\ worker'.todo = P3
  BY <1>1, <1>3, <1>6, <1>10, Tails, Distinct
<1>12. WorkerInv' /\ ExecutorInv' /\ ApiInv'
  <2>1. worker.kind \in Kinds
    BY <1>2 DEF Inv, Types, WorkerType
  <2>2. worker.kind = "scaled" => Status(s) \notin {"absent", "created"}
    BY <1>2 DEF Inv, WorkerInv, Task, Life
  <2> QED BY <1>2, <1>6, <1>7, <1>8, <1>10, <2>1, <2>2
         DEF Inv, WorkerInv, ExecutorInv, ApiInv, SameStatus, Kinds
<1> HIDE DEF q
<1>13. ASSUME NEW t \in Tasks
       PROVE  Task(t)'
  <2>1. Task(t) /\ (Enqueues(t)' <=> Enqueues(t)) /\ (InHand(t)' <=> InHand(t)) /\ InHand(s)
    BY <1>6, <1>7 DEF Inv, Enqueues, InHand
  <2>2. Life(t)' /\ Announced(t)'
    BY <1>2, <1>3, <1>4, <1>7, <1>8, <2>1
       DEF Task, Life, Announced, SameStatus, SameCalls, Calls
  <2>3. Fresh(t)' /\ Progress(t)'
    BY <1>2, <1>3, <1>4, <1>7, <1>8, <1>10, <1>11, <2>1, Distinct, ClassOfTask
       DEF Task, Fresh, Progress, Enqueues, SameStatus, QueueNames
  <2>4. Gone(t)' /\ Both(t)'
    BY <1>2, <1>3, <1>4, <1>7, <1>8, <2>1, ClassOfTask
       DEF Task, Gone, Halfway, Both, SameStatus, SameCalls, QueueNames, Calls
  <2> QED BY <2>2, <2>3, <2>4 DEF Task
<1> QED BY <1>12, <1>13 DEF Inv

LEMMA InvWorkerWritesHash ==
    ASSUME Inv, Types', WorkerWritesHash
    PROVE  Inv'
<1> DEFINE s == worker.task
<1>1. s \in Tasks /\ s # NoTask /\ worker.todo \in {P3, S1} /\ worker.kind \in Kinds
  BY Enqueueing DEF WorkerWritesHash, Does, Inv, Types, WorkerType
<1>2. \A u \in Tasks : Status(u)' = IF u = s /\ worker.kind = "created" THEN "classified" ELSE Status(u)
  BY <1>1 DEF WorkerWritesHash, Inv, Types, HashType, Status
<1>3. worker.todo # P5
  BY <1>1, Distinct
<1>4. /\ worker'.task = s /\ worker'.kind = worker.kind /\ worker'.severity = worker.severity
      /\ worker'.todo = Tail(worker.todo)
  BY <1>1, <1>3, Advances DEF WorkerWritesHash, Inv
<1>5. worker'.todo \in {P4, S2}
  BY <1>1, <1>4, Tails
<1>6. SameQueues /\ SameCalls /\ UNCHANGED <<dispatches, aging, executor, api>>
  BY Same DEF WorkerWritesHash, messages
<1>7. UNCHANGED <<asked, decided, removed, excused, requeued, dead, halved>>
  BY DEF WorkerWritesHash, history
<1>8. worker.kind = "created" => worker.todo = P3 /\ worker'.todo = P4
  BY <1>1, <1>4, Enqueueing, Tails, Distinct DEF Inv
<1>9. WorkerInv' /\ ExecutorInv' /\ ApiInv'
  <2>1. worker.kind = "scaled" => Status(s) \notin {"absent", "created"}
    BY <1>1 DEF Inv, WorkerInv, Task, Life
  <2> QED BY <1>1, <1>2, <1>4, <1>6, <1>7, <2>1
         DEF Inv, WorkerInv, ExecutorInv, ApiInv, Kinds
<1>10. ASSUME NEW t \in Tasks
       PROVE  Task(t)'
  <2>1. Task(t) /\ (Enqueues(t)' <=> Enqueues(t)) /\ (InHand(t)' <=> InHand(t)) /\ InHand(s)
    BY <1>4, <1>6 DEF Inv, Enqueues, InHand
  <2>2. worker.kind = "created" /\ s \notin excused => s \notin asked /\ Status(s) = "created"
    BY <1>1, <1>8 DEF Inv, Task, Fresh, Enqueues
  <2>3. Life(t)' /\ Announced(t)'
    BY <1>1, <1>2, <1>6, <1>7, <2>1, <2>2, ClassOfTask
       DEF Task, Life, Announced, Enqueues, SameQueues, SameCalls, Calls, Ended, QueueNames
  <2>4. Fresh(t)' /\ Progress(t)'
    BY <1>1, <1>6, <1>7, <1>8, <2>1, Distinct, ClassOfTask
       DEF Task, Fresh, Progress, Enqueues, SameQueues, QueueNames
  <2>5. Gone(t)' /\ Both(t)'
    BY <1>1, <1>2, <1>6, <1>7, <2>1, ClassOfTask
       DEF Task, Life, Gone, Halfway, Both, Enqueues, SameQueues, SameCalls, QueueNames, Calls
  <2> QED BY <2>3, <2>4, <2>5 DEF Task
<1> QED BY <1>9, <1>10 DEF Inv

LEMMA InvClassified ==
    ASSUME Inv, Types', Classified
    PROVE  Inv'
<1> DEFINE s == worker.task
<1>1. s # NoTask /\ worker.todo = P4 /\ worker.todo # P5
  BY Enqueueing, Distinct DEF Classified, Does, Inv
<1>2. /\ worker'.task = s /\ worker'.kind = worker.kind /\ worker'.severity = worker.severity
      /\ worker'.todo = P5
  BY <1>1, Advances, Tails DEF Classified, Inv
<1>3. SameStatus /\ SameQueues /\ SameCalls /\ UNCHANGED <<dispatches, aging, executor, api>>
  BY Same DEF Classified
<1>4. UNCHANGED <<asked, decided, removed, excused, requeued, dead, halved>>
  BY DEF Classified, history
<1>5. WorkerInv' /\ ExecutorInv' /\ ApiInv'
  BY <1>1, <1>2, <1>3, <1>4 DEF Inv, Types, WorkerType, WorkerInv, ExecutorInv, ApiInv, SameStatus
<1>6. ASSUME NEW t \in Tasks
      PROVE  Task(t)'
  <2>1. Task(t) /\ (Enqueues(t)' <=> Enqueues(t)) /\ (InHand(t)' <=> InHand(t))
    BY <1>2, <1>3 DEF Inv, Enqueues, InHand
  <2>2. Life(t)' /\ Announced(t)' /\ Gone(t)' /\ Both(t)'
    BY <1>3, <1>4, <2>1, ClassOfTask
       DEF Task, Life, Announced, Gone, Halfway, Both, SameStatus, SameQueues, SameCalls, Calls, QueueNames
  <2>3. Fresh(t)' /\ Progress(t)'
    BY <1>1, <1>2, <1>3, <1>4, <2>1, Distinct, ClassOfTask
       DEF Task, Fresh, Progress, SameStatus, SameQueues, QueueNames
  <2> QED BY <2>2, <2>3 DEF Task
<1> QED BY <1>5, <1>6 DEF Inv

LEMMA InvNeedPlacement ==
    ASSUME Inv, Types', NeedPlacement
    PROVE  Inv'
<1> DEFINE s == worker.task
<1>1. s \in Tasks /\ s # NoTask /\ worker.todo = P5
  BY Enqueueing DEF NeedPlacement, Does, Inv, Types, WorkerType
<1>2. worker'.task = NoTask
  BY <1>1, Advances DEF NeedPlacement, Inv, Free
<1>3. SameStatus /\ SameQueues /\ SameCalls /\ UNCHANGED <<dispatches, aging, executor, api>>
  BY Same DEF NeedPlacement, messages
<1>4. asked' = asked \cup {s} /\ UNCHANGED <<decided, removed, excused, requeued, dead, halved>>
  BY DEF NeedPlacement
<1>5. Status(s) \notin {"absent", "created"}
  BY <1>1 DEF Inv, WorkerInv
<1>6. WorkerInv' /\ ExecutorInv' /\ ApiInv'
  BY <1>2, <1>3, <1>4 DEF Inv, WorkerInv, ExecutorInv, ApiInv
<1>7. ASSUME NEW t \in Tasks
      PROVE  Task(t)'
  <2>1. Task(t) /\ ~Enqueues(t)' /\ (Enqueues(t) => t = s) /\ (InHand(t)' => InHand(t))
    BY <1>2, <1>3, PayloadAssumption DEF Inv, Enqueues, InHand
  <2>2. Life(t)' /\ Announced(t)' /\ Fresh(t)' /\ Progress(t)'
    BY <1>3, <1>4, <1>5, <2>1, ClassOfTask
       DEF Task, Life, Announced, Fresh, Progress, SameStatus, SameQueues, SameCalls, Calls, QueueNames
  <2>3. Gone(t)' /\ Both(t)'
    BY <1>1, <1>3, <1>4, <2>1, Distinct, ClassOfTask
       DEF Task, Gone, Halfway, Both, Progress, SameStatus, SameQueues, SameCalls, Calls, QueueNames
  <2> QED BY <2>2, <2>3 DEF Task
<1> QED BY <1>6, <1>7 DEF Inv

LEMMA InvWorkerFails ==
    ASSUME Inv, Types', WorkerFails
    PROVE  Inv'
<1> DEFINE s == worker.task
<1>1. s \in Tasks /\ s # NoTask /\ worker.kind \in Kinds
  BY DEF WorkerFails, Inv, Types, WorkerType
<1>2. \/ /\ \A u \in Tasks, k \in Calls :
              Has(u, k)' <=> Has(u, k) \/ (u = s /\ k = worker.kind /\ worker.severity = "low")
         /\ dead' = dead
      \/ SameCalls /\ dead' = dead \cup {s}
  <2>1. CASE Put(Message(worker.kind, s, worker.severity)) /\ UNCHANGED dead
    BY <1>1, <2>1, Puts DEF Inv
  <2>2. CASE dead' = dead \cup {s} /\ UNCHANGED requests
    BY <2>2, Same
  <2> QED BY <2>1, <2>2 DEF WorkerFails
<1>3. worker'.task = NoTask
  BY DEF WorkerFails, Free
<1>4. SameStatus /\ SameQueues /\ UNCHANGED <<dispatches, aging, executor, api>>
  BY Same DEF WorkerFails
<1>5. UNCHANGED <<asked, decided, removed, excused, requeued, halved>>
  BY DEF WorkerFails
<1>6. WorkerInv' /\ ExecutorInv' /\ ApiInv'
  BY <1>3, <1>4, <1>5 DEF Inv, WorkerInv, ExecutorInv, ApiInv
<1>7. /\ worker.kind # "signal" => worker.severity = "low"
      /\ worker.kind = "scaled" => s \in asked
  BY <1>1 DEF Inv, WorkerInv
<1>8. ASSUME NEW t \in Tasks
      PROVE  Task(t)'
  <2>1. /\ Task(t) /\ ~Enqueues(t)' /\ (Enqueues(t) => t = s /\ worker.kind = "created")
        /\ (InHand(t)' => InHand(t)) /\ InHand(s)
    BY <1>3, <1>4, PayloadAssumption DEF Inv, Enqueues, InHand
  <2>2. Has(t, "created") => Has(t, "created")'
    BY <1>2 DEF SameCalls, Calls
  <2>3. Enqueues(t) => Has(t, "created")' \/ t \in dead'
    BY <1>1, <1>2, <1>7, <2>1 DEF Calls
  <2>4. Life(t)'
    BY <1>1, <1>2, <1>4, <1>5, <1>7, <2>1, ClassOfTask
       DEF Task, Life, SameStatus, SameQueues, SameCalls, Calls, QueueNames
  <2>5. Announced(t)' /\ Fresh(t)' /\ Progress(t)'
    BY <1>2, <1>4, <1>5, <2>1, <2>2, <2>3 DEF Task, Announced, Fresh, Progress, SameStatus
  <2>6. Gone(t)' /\ Both(t)'
    BY <1>2, <1>4, <1>5, <2>1, <2>2, <2>3, ClassOfTask
       DEF Task, Gone, Halfway, Both, SameStatus, SameQueues, QueueNames
  <2> QED BY <2>4, <2>5, <2>6 DEF Task
<1> QED BY <1>6, <1>8 DEF Inv

LEMMA InvDuplicate ==
    ASSUME Inv, Types', NEW s \in Tasks, Duplicate(s)
    PROVE  Inv'
<1>1. Status(s) # "absent" /\ SameStatus /\ SameQueues /\ UNCHANGED <<dispatches, worker, aging, executor, api>>
  BY Same DEF Duplicate, Status, agents
<1>2. \A u \in Tasks, k \in Calls : Has(u, k)' <=> Has(u, k) \/ (u = s /\ k = "created")
  BY Puts DEF Inv, Duplicate, Kinds
<1>3. UNCHANGED <<asked, decided, removed, excused, requeued, dead, halved>>
  BY DEF Duplicate, history
<1>4. WorkerInv' /\ ExecutorInv' /\ ApiInv'
  BY <1>1, <1>3 DEF Inv, Types, WorkerType, WorkerInv, ExecutorInv, ApiInv, SameStatus
<1>5. ASSUME NEW t \in Tasks
      PROVE  Task(t)'
  <2>1. Task(t) /\ (Enqueues(t)' <=> Enqueues(t)) /\ (InHand(t)' <=> InHand(t))
    BY <1>1 DEF Inv, Enqueues, InHand
  <2>2. Life(t)' /\ Announced(t)' /\ Fresh(t)'
    BY <1>1, <1>2, <1>3, <2>1, ClassOfTask
       DEF Task, Life, Announced, Fresh, SameStatus, SameQueues, Calls, QueueNames
  <2>3. Gone(t)' /\ Both(t)' /\ Progress(t)'
    BY <1>1, <1>2, <1>3, <2>1, ClassOfTask
       DEF Task, Gone, Halfway, Both, Progress, SameStatus, SameQueues, Calls, QueueNames
  <2> QED BY <2>2, <2>3 DEF Task
<1> QED BY <1>4, <1>5 DEF Inv

LEMMA InvAgingLists ==
    ASSUME Inv, Types', NEW c \in TaskClasses, AgingLists(c)
    PROVE  Inv'
<1>1. aging.ids = {} /\ \A u \in Tasks : u \in aging'.ids <=> In(u, c)
  BY DEF AgingLists, Resting, In
<1>2. SameStatus /\ SameQueues /\ SameCalls /\ UNCHANGED <<dispatches, worker, executor, api>>
  BY Same DEF AgingLists, messages
<1>3. UNCHANGED <<asked, decided, removed, requeued, dead, halved>>
  BY DEF AgingLists
<1>4. /\ excused \subseteq excused'
      /\ executor.at = "class" /\ executor.task \in aging'.ids => executor.task \in excused'
  BY DEF AgingLists
<1>5. WorkerInv' /\ ExecutorInv' /\ ApiInv'
  BY <1>2, <1>3 DEF Inv, Types, WorkerType, WorkerInv, ExecutorInv, ApiInv, SameStatus
<1>6. ASSUME NEW t \in Tasks
      PROVE  Task(t)'
  <2>1. Task(t) /\ (Enqueues(t)' <=> Enqueues(t)) /\ (InHand(t)' <=> InHand(t) \/ In(t, c)) /\ c \in QueueNames
    BY <1>1, <1>2 DEF Inv, Enqueues, InHand, QueueNames
  <2>2. Life(t)' /\ Announced(t)' /\ Fresh(t)'
    BY <1>2, <1>3, <1>4, <2>1, ClassOfTask
       DEF Task, Life, Announced, Fresh, SameStatus, SameQueues, SameCalls, Calls, QueueNames
  <2>3. Gone(t)'
    BY <1>1, <1>2, <1>3, <1>4, <2>1, ClassOfTask DEF Task, Life, Gone, Halfway, SameQueues, QueueNames
  <2>4. Both(t)' /\ Progress(t)'
    BY <1>2, <1>3, <1>4, <2>1, ClassOfTask
       DEF Task, Both, Halfway, Progress, SameStatus, SameQueues, SameCalls, Calls, QueueNames
  <2> QED BY <2>2, <2>3, <2>4 DEF Task
<1> QED BY <1>5, <1>6 DEF Inv

(* A step that changes nothing the invariant speaks of.                    *)
LEMMA InvIdle ==
    ASSUME Inv, Types', SameStatus, SameQueues, SameCalls, UNCHANGED <<dispatches, worker, executor, api>>,
           aging'.ids = aging.ids, UNCHANGED history
    PROVE  Inv'
<1>1. UNCHANGED <<asked, decided, removed, excused, requeued, dead, halved>>
  BY DEF history
<1>2. WorkerInv' /\ ExecutorInv' /\ ApiInv'
  BY <1>1 DEF Inv, Types, WorkerType, WorkerInv, ExecutorInv, ApiInv, SameStatus
<1>3. ASSUME NEW t \in Tasks
      PROVE  Task(t)'
  <2>1. Task(t) /\ (Enqueues(t)' <=> Enqueues(t)) /\ (InHand(t)' <=> InHand(t))
    BY DEF Inv, Enqueues, InHand
  <2>2. Life(t)' /\ Announced(t)' /\ Fresh(t)'
    BY <1>1, <2>1, ClassOfTask
       DEF Task, Life, Announced, Fresh, SameStatus, SameQueues, SameCalls, Calls, QueueNames
  <2>3. Gone(t)' /\ Both(t)' /\ Progress(t)'
    BY <1>1, <2>1, ClassOfTask
       DEF Task, Gone, Halfway, Both, Progress, SameStatus, SameQueues, SameCalls, Calls, QueueNames
  <2> QED BY <2>2, <2>3 DEF Task
<1> QED BY <1>2, <1>3 DEF Inv

LEMMA InvAgingAdds ==
    ASSUME Inv, Types', AgingAdds
    PROVE  Inv'
<1> DEFINE s == aging.task
           q == Target(Head(aging.todo), s)
<1>1. s \in Tasks /\ s \in aging.ids /\ aging.score \in Scores /\ aging.todo \in {<<"class", "all">>, <<"all">>}
  BY DEF AgingAdds, Inv, Types, AgingType, AgingTodos
<1>2. q \in QueueNames /\ q \in {"waiting", ClassOf(s)}
  BY <1>1, TargetQueue, ClassOfTask DEF Target
<1>3. \A u \in Tasks, p \in QueueNames : In(u, p)' <=> In(u, p) \/ (p = q /\ u = s)
  BY <1>1, <1>2, AddsMember DEF AgingAdds, Inv, Types, In
<1>4. aging'.ids \subseteq aging.ids
  BY DEF AgingAdds, AgedOne, Resting, Inv, Types, AgingType
<1>5. SameStatus /\ SameCalls /\ UNCHANGED <<dispatches, worker, executor, api>>
  BY Same DEF AgingAdds, messages
<1>6. UNCHANGED <<asked, decided, removed, excused, requeued, dead, halved>>
  BY DEF AgingAdds, history
<1>7. WorkerInv' /\ ExecutorInv' /\ ApiInv'
  BY <1>5, <1>6 DEF Inv, Types, WorkerType, WorkerInv, ExecutorInv, ApiInv, SameStatus
<1> HIDE DEF q
<1>8. ASSUME NEW t \in Tasks
      PROVE  Task(t)'
  <2>1. Task(t) /\ (Enqueues(t)' <=> Enqueues(t)) /\ (InHand(t)' => InHand(t)) /\ InHand(s)
    BY <1>1, <1>4, <1>5 DEF Inv, Enqueues, InHand
  <2>2. Life(t)' /\ Announced(t)' /\ Fresh(t)'
    BY <1>2, <1>3, <1>5, <1>6, <2>1, ClassOfTask
       DEF Task, Life, Announced, Fresh, SameStatus, SameCalls, Calls, QueueNames
  <2>3. Gone(t)' /\ Both(t)' /\ Progress(t)'
    BY <1>2, <1>3, <1>5, <1>6, <2>1, ClassOfTask
       DEF Task, Gone, Halfway, Both, Progress, SameStatus, SameCalls, Calls, QueueNames
  <2> QED BY <2>2, <2>3 DEF Task
<1> QED BY <1>7, <1>8 DEF Inv

(* Nothing that Assess publishes is one of the calls.                      *)
LEMMA InvAssess ==
    ASSUME Inv, Types', NEW a \in BagToSet(assessments), Assess(a)
    PROVE  Inv'
<1> DEFINE m == Message("signal", a.task, Severity(Risk(a.task, a.length)))
           B == requests (+) SetToBag({m})
<1>1. IsABag(requests) /\ requests' \in {B (+) EmptyBag, B (+) SetToBag({m})}
  BY DEF Assess, Inv, Types, MessagesType
<1>2. IsABag(B) /\ \A y : BagIn(y, B) <=> BagIn(y, requests) \/ y = m
  BY <1>1, BagPut
<1> HIDE DEF B
<1>3. \A y : BagIn(y, B (+) EmptyBag) <=> BagIn(y, B)
  BY <1>2 DEF IsABag, EmptyBag, SetToBag, BagIn, BagToSet, \oplus
<1>4. \A y : BagIn(y, B (+) SetToBag({m})) <=> BagIn(y, B) \/ y = m
  BY <1>2, BagPut
<1>5. \A u \in Tasks, k \in Calls : Message(k, u, "low") # m
  BY DEF Message, Calls
<1> HIDE DEF m
<1>6. \A y : y # m => (BagIn(y, requests') <=> BagIn(y, requests))
  BY <1>1, <1>2, <1>3, <1>4
<1>7. SameCalls
  BY <1>5, <1>6 DEF SameCalls, Has
<1>8. SameStatus /\ SameQueues /\ UNCHANGED <<dispatches, agents, history>>
  BY Same DEF Assess
<1> QED BY <1>7, <1>8, InvIdle DEF agents

LEMMA InvDispatch ==
    ASSUME Inv, Types', NEW s \in Tasks, Dispatch(s)
    PROVE  Inv'
<1>1. \A u \in Tasks : Status(u)' = IF u = s THEN "dispatched" ELSE Status(u)
  BY SetsStatus DEF Inv, Types, Dispatch, Status, Statuses, Ended
<1>2. SameQueues /\ SameCalls /\ UNCHANGED <<worker, aging, executor, api>>
  BY Same DEF Dispatch, agents
<1>3. UNCHANGED <<asked, removed, excused, requeued, dead, halved>>
  BY DEF Dispatch
<1>4. /\ s \in asked /\ s \notin decided
      /\ decided' = decided \cup {s} /\ dispatches' = dispatches \cup {s}
  BY DEF Dispatch
<1>5. s \notin removed /\ Status(s) \notin {"absent", "created"} /\ executor.task # s
  BY <1>4, PayloadAssumption DEF Inv, Task, Life, ExecutorInv, Types, ExecutorType
<1>6. WorkerInv' /\ ExecutorInv' /\ ApiInv'
  BY <1>1, <1>2, <1>3, <1>4, <1>5 DEF Inv, WorkerInv, ExecutorInv, ApiInv, Types, WorkerType
<1>7. ASSUME NEW t \in Tasks
      PROVE  Task(t)'
  <2>1. Task(t) /\ (Enqueues(t)' <=> Enqueues(t)) /\ (InHand(t)' <=> InHand(t))
    BY <1>2 DEF Inv, Enqueues, InHand
  <2>2. Life(t)' /\ Announced(t)' /\ Fresh(t)'
    BY <1>1, <1>2, <1>3, <1>4, <1>5, <2>1, ClassOfTask
       DEF Task, Life, Announced, Fresh, Ended, SameQueues, SameCalls, Calls, QueueNames
  <2>3. Gone(t)' /\ Both(t)' /\ Progress(t)'
    BY <1>1, <1>2, <1>3, <1>5, <2>1, ClassOfTask
       DEF Task, Gone, Halfway, Both, Progress, SameQueues, SameCalls, Calls, QueueNames
  <2> QED BY <2>2, <2>3 DEF Task
<1> QED BY <1>6, <1>7 DEF Inv

LEMMA InvScalingDone ==
    ASSUME Inv, Types', NEW s \in Tasks, ScalingDone(s)
    PROVE  Inv'
<1>1. s \in asked /\ SameStatus /\ SameQueues /\ UNCHANGED <<dispatches, worker, aging, executor, api>>
  BY Same DEF ScalingDone, agents
<1>2. \A u \in Tasks, k \in Calls : Has(u, k)' <=> Has(u, k) \/ (u = s /\ k = "scaled")
  BY Puts DEF Inv, ScalingDone, Kinds
<1>3. UNCHANGED <<asked, decided, removed, excused, requeued, dead, halved>>
  BY DEF ScalingDone, history
<1>4. WorkerInv' /\ ExecutorInv' /\ ApiInv'
  BY <1>1, <1>3 DEF Inv, Types, WorkerType, WorkerInv, ExecutorInv, ApiInv, SameStatus
<1>5. ASSUME NEW t \in Tasks
      PROVE  Task(t)'
  <2>1. Task(t) /\ (Enqueues(t)' <=> Enqueues(t)) /\ (InHand(t)' <=> InHand(t))
    BY <1>1 DEF Inv, Enqueues, InHand
  <2>2. Life(t)' /\ Announced(t)' /\ Fresh(t)'
    BY <1>1, <1>2, <1>3, <2>1, ClassOfTask
       DEF Task, Life, Announced, Fresh, SameStatus, SameQueues, Calls, QueueNames
  <2>3. Gone(t)' /\ Both(t)' /\ Progress(t)'
    BY <1>1, <1>2, <1>3, <2>1, ClassOfTask
       DEF Task, Gone, Halfway, Both, Progress, SameStatus, SameQueues, Calls, QueueNames
  <2> QED BY <2>2, <2>3 DEF Task
<1> QED BY <1>4, <1>5 DEF Inv

LEMMA InvRemoveFromWaiting ==
    ASSUME Inv, Types', NEW s \in Tasks, RemoveFromWaiting(s)
    PROVE  Inv'
<1>1. \A u \in Tasks, p \in QueueNames : In(u, p)' <=> In(u, p) /\ ~(p = "waiting" /\ u = s)
  BY RemovesMember DEF RemoveFromWaiting, Inv, Types, In, QueueNames
<1>2. SameStatus /\ SameCalls /\ UNCHANGED <<worker, aging, api>>
  BY Same DEF RemoveFromWaiting
<1>3. UNCHANGED <<asked, decided, removed, requeued, dead, halved>>
  BY DEF RemoveFromWaiting
<1>4. excused \subseteq excused' /\ (InHand(s) => s \in excused')
  BY DEF RemoveFromWaiting
<1>5. executor.task = NoTask /\ executor'.task = s /\ executor'.at = "class"
  BY DEF RemoveFromWaiting, Inv, Types, ExecutorType
<1>6. s \in dispatches /\ dispatches' = dispatches \ {s} /\ s \in decided
  BY DEF RemoveFromWaiting, Inv, Task, Life
<1>7. WorkerInv' /\ ExecutorInv' /\ ApiInv'
  BY <1>2, <1>3, <1>5, <1>6 DEF Inv, WorkerInv, ExecutorInv, ApiInv, Types, WorkerType, SameStatus
<1>8. ASSUME NEW t \in Tasks
      PROVE  Task(t)'
  <2>1. /\ Task(t) /\ (Enqueues(t)' <=> Enqueues(t)) /\ (InHand(t)' <=> InHand(t))
        /\ (Enqueues(t) => InHand(t)) /\ executor.task # t
    BY <1>2, <1>5, PayloadAssumption DEF Inv, Enqueues, InHand
  <2>2. Life(t)' /\ Announced(t)' /\ Fresh(t)'
    BY <1>1, <1>2, <1>3, <1>4, <1>6, <2>1, ClassOfTask
       DEF Task, Life, Announced, Fresh, SameStatus, SameCalls, Calls, QueueNames
  <2>3. Gone(t)' /\ Both(t)' /\ Progress(t)'
    BY <1>1, <1>2, <1>3, <1>4, <1>5, <2>1, ClassOfTask
       DEF Task, Gone, Halfway, Both, Progress, SameStatus, SameCalls, Calls, QueueNames
  <2> QED BY <2>2, <2>3 DEF Task
<1> QED BY <1>7, <1>8 DEF Inv

LEMMA InvRemoveFromClass ==
    ASSUME Inv, Types', RemoveFromClass
    PROVE  Inv'
<1> DEFINE s == executor.task
<1>1. s \in Tasks /\ ClassOf(s) \in QueueNames /\ ClassOf(s) # "waiting"
  BY ClassOfTask DEF RemoveFromClass, Inv, Types, ExecutorType, QueueNames
<1>2. \A u \in Tasks, p \in QueueNames : In(u, p)' <=> In(u, p) /\ ~(p = ClassOf(s) /\ u = s)
  BY <1>1, RemovesMember DEF RemoveFromClass, Inv, Types, In
<1>3. SameStatus /\ SameCalls /\ UNCHANGED <<dispatches, worker, aging, api>>
  BY Same DEF RemoveFromClass, messages
<1>4. UNCHANGED <<asked, decided, requeued, dead>> /\ removed' = removed \cup {s} /\ halved' = halved \ {s}
  BY DEF RemoveFromClass
<1>5. excused \subseteq excused' /\ (InHand(s) => s \in excused')
  BY DEF RemoveFromClass
<1>6. executor'.task = s /\ executor'.at = "start" /\ executor.at = "class"
  BY DEF RemoveFromClass, Inv, Types, ExecutorType
<1>7. s \in decided /\ s \notin dispatches
  BY DEF RemoveFromClass, Inv, ExecutorInv
<1>8. WorkerInv' /\ ExecutorInv' /\ ApiInv'
  BY <1>3, <1>4, <1>6, <1>7 DEF Inv, WorkerInv, ExecutorInv, ApiInv, Types, WorkerType, SameStatus
<1>9. ASSUME NEW t \in Tasks
      PROVE  Task(t)'
  <2>1. /\ Task(t) /\ (Enqueues(t)' <=> Enqueues(t)) /\ (InHand(t)' <=> InHand(t))
        /\ (Enqueues(t) => InHand(t))
    BY <1>3 DEF Inv, Enqueues, InHand
  <2>2. Life(t)' /\ Announced(t)' /\ Fresh(t)'
    BY <1>2, <1>3, <1>4, <1>5, <1>7, <2>1, ClassOfTask
       DEF Task, Life, Announced, Fresh, SameStatus, SameCalls, Calls, QueueNames
  <2>3. Gone(t)'
    BY <1>1, <1>2, <1>3, <1>4, <1>5, <1>6, <2>1, ClassOfTask DEF Task, Gone, Halfway, QueueNames
  <2>4. Both(t)' /\ Progress(t)'
    BY <1>2, <1>3, <1>4, <1>5, <1>6, <2>1, ClassOfTask
       DEF Task, Both, Halfway, Progress, SameStatus, SameCalls, Calls, QueueNames
  <2> QED BY <2>2, <2>3, <2>4 DEF Task
<1> QED BY <1>8, <1>9 DEF Inv

(* The executor's two writes of the status: Start and End.                 *)
LEMMA InvRuns ==
    ASSUME Inv, Types', Start \/ End
    PROVE  Inv'
<1> DEFINE s == executor.task
<1>1. s \in Tasks /\ s \in decided /\ ~Halfway(s) /\ (executor.at = "start" => s \in removed)
  BY DEF Start, End, Inv, ExecutorInv, Types, ExecutorType, Halfway
<1>2. PICK status \in Ended : SetStatus(s, status)
  BY DEF Start, End, Ended
<1>3. \A u \in Tasks : Status(u)' = IF u = s THEN status ELSE Status(u)
  BY <1>1, <1>2, SetsStatus DEF Inv, Types, Status, Statuses
<1>4. /\ SameQueues /\ SameCalls /\ UNCHANGED <<dispatches, worker, aging, api>>
      /\ UNCHANGED <<asked, decided, removed, excused, requeued, dead, halved>>
  BY Same DEF Start, End, messages, history
<1>5. \/ executor.at = "start" /\ executor'.task = s /\ executor'.at = "running"
      \/ executor'.task = NoTask /\ executor'.at = "idle"
  BY DEF Start, End, Inv, Types, ExecutorType
<1>6. NoTask \notin dispatches
  BY PayloadAssumption DEF Inv, Types, SetsType
<1>7. WorkerInv' /\ ExecutorInv' /\ ApiInv'
  BY <1>1, <1>3, <1>4, <1>5, <1>6 DEF Inv, WorkerInv, ExecutorInv, ApiInv, Types, WorkerType, Ended
<1>8. ASSUME NEW t \in Tasks
      PROVE  Task(t)'
  <2>1. Task(t) /\ Task(s) /\ (Enqueues(t)' <=> Enqueues(t)) /\ (InHand(t)' <=> InHand(t))
    BY <1>1, <1>4 DEF Inv, Enqueues, InHand
  <2>2. status \notin {"absent", "created", "classified"} /\ Status(s) # "absent"
    BY <1>1, <2>1 DEF Ended, Task, Life
  <2>3. Life(t)' /\ Announced(t)' /\ Fresh(t)'
    BY <1>1, <1>3, <1>4, <2>1, <2>2, ClassOfTask
       DEF Task, Life, Announced, Fresh, SameQueues, SameCalls, Calls, QueueNames
  <2>4. ~Halfway(t)' /\ ~Halfway(t)
    BY <1>1, <1>5 DEF Halfway
  <2>5. Gone(t)' /\ Both(t)' /\ Progress(t)'
    BY <1>1, <1>3, <1>4, <2>1, <2>2, <2>4, ClassOfTask
       DEF Task, Gone, Halfway, Both, Progress, SameQueues, SameCalls, Calls, QueueNames
  <2> QED BY <2>3, <2>5 DEF Task
<1> QED BY <1>7, <1>8 DEF Inv

(* What an execution that raises, or is lost, does to its task: it leaves  *)
(* the queues and the status alone, and marks a removal cut in half.       *)
Breaks ==
    \/ SecondRemovalRaises \/ ReserveRaises \/ ExecutionLost
    \/ \E t \in Tasks : FirstRemovalRaises(t)

LEMMA InvBreaks ==
    ASSUME Inv, Types', Breaks
    PROVE  Inv'
<1>1. SameStatus /\ SameQueues /\ SameCalls /\ UNCHANGED <<worker, aging, api>>
  BY Same DEF Breaks, SecondRemovalRaises, ReserveRaises, ExecutionLost, FirstRemovalRaises, messages
<1>2. UNCHANGED <<asked, decided, removed, excused, requeued, dead>> /\ halved \subseteq halved'
  BY DEF Breaks, SecondRemovalRaises, ReserveRaises, ExecutionLost, FirstRemovalRaises, history
<1>3. PICK s \in Tasks \cap decided :
        /\ s = executor.task \/ executor.at = "idle"
        /\ dispatches' \in {dispatches, dispatches \cup {s}, dispatches \ {s}}
        /\ \/ executor' = [task |-> NoTask, at |-> "idle"]
           \/ executor' = [task |-> s, at |-> "failing"] /\ s \notin dispatches'
  <2>1. CASE SecondRemovalRaises \/ ReserveRaises
    <3>1. executor.task \in Tasks \cap decided /\ executor.task \notin dispatches
      BY <2>1 DEF SecondRemovalRaises, ReserveRaises, Inv, ExecutorInv, Types, ExecutorType
    <3>2. executor' = [task |-> executor.task, at |-> "failing"] /\ dispatches' = dispatches
      BY <2>1 DEF SecondRemovalRaises, ReserveRaises, Inv, Types, ExecutorType, messages
    <3> QED BY <3>1, <3>2
  <2>2. CASE ExecutionLost
    <3>1. executor.task \in Tasks \cap decided
      BY <2>2 DEF ExecutionLost, Inv, ExecutorInv, Types, ExecutorType
    <3> QED BY <2>2, <3>1 DEF ExecutionLost
  <2>3. ASSUME NEW t \in Tasks, FirstRemovalRaises(t)
        PROVE  /\ t \in decided /\ executor.at = "idle" /\ dispatches' = dispatches \ {t}
               /\ executor' = [task |-> t, at |-> "failing"]
    BY <2>3 DEF FirstRemovalRaises, Inv, Task, Life
  <2> QED BY <2>1, <2>2, <2>3 DEF Breaks
<1>4. \A t \in Tasks : ~Halfway(t)' /\ (Halfway(t) => t \in halved')
  BY DEF Breaks, SecondRemovalRaises, ReserveRaises, ExecutionLost, FirstRemovalRaises, Halfway,
         Inv, Types, ExecutorType
<1>5. NoTask \notin dispatches'
  BY PayloadAssumption DEF Types, SetsType
<1>6. WorkerInv' /\ ExecutorInv' /\ ApiInv'
  BY <1>1, <1>2, <1>3, <1>5 DEF Inv, WorkerInv, ExecutorInv, ApiInv, Types, WorkerType, SameStatus
<1>7. ASSUME NEW t \in Tasks
      PROVE  Task(t)'
  <2>1. Task(t) /\ (Enqueues(t)' <=> Enqueues(t)) /\ (InHand(t)' <=> InHand(t))
    BY <1>1 DEF Inv, Enqueues, InHand
  <2>2. Life(t)' /\ Announced(t)' /\ Fresh(t)'
    BY <1>1, <1>2, <1>3, <2>1, ClassOfTask
       DEF Task, Life, Announced, Fresh, SameStatus, SameQueues, SameCalls, Calls, QueueNames
  <2>3. Gone(t)' /\ Both(t)' /\ Progress(t)'
    BY <1>1, <1>2, <1>4, <2>1, ClassOfTask
       DEF Task, Gone, Halfway, Both, Progress, SameStatus, SameQueues, SameCalls, Calls, QueueNames
  <2> QED BY <2>2, <2>3 DEF Task
<1> QED BY <1>6, <1>7 DEF Inv

LEMMA InvStep == Inv /\ [Next]_vars => Inv'
<1> SUFFICES ASSUME Inv, [Next]_vars PROVE Inv'
  OBVIOUS
<1>1. Types'
  BY TypesStep DEF Inv
<1>2. CASE WorkerSteps
  BY <1>1, <1>2, InvTakeCreated, InvTakeSignal, InvTakeScaled, InvWorkerAdds, InvWorkerWritesHash,
     InvClassified, InvNeedPlacement DEF WorkerSteps, WorkerTakes
<1>3. CASE AgingLoop
  <2>1. CASE \E t \in Tasks : AgingReads(t)
    <3>1. SameStatus /\ SameQueues /\ SameCalls /\ UNCHANGED <<dispatches, worker, executor, api, history>>
      BY <2>1, Same DEF AgingReads, messages
    <3>2. aging'.ids = aging.ids
      BY <2>1 DEF AgingReads, Inv, Types, AgingType
    <3> QED BY <1>1, <3>1, <3>2, InvIdle
  <2> QED BY <1>1, <1>3, <2>1, InvAgingLists, InvAgingAdds DEF AgingLoop
<1>4. CASE Others
  <2>1. CASE Tick
    <3>1. SameStatus /\ SameQueues /\ SameCalls /\ UNCHANGED <<dispatches, agents, history>>
      BY <2>1, Same DEF Tick, messages
    <3> QED BY <1>1, <3>1, InvIdle DEF agents
  <2> QED BY <1>1, <1>4, <2>1, InvWorkerFails, InvSubmit, InvRequeue, InvDuplicate, InvDispatch,
             InvScalingDone, InvRemoveFromWaiting, InvAssess, InvRequeueStatus, InvRequeueAdds,
             InvRemoveFromClass, InvRuns, InvBreaks DEF Others, RequeueSteps, Breaks
<1>5. CASE UNCHANGED vars
  <2>1. SameStatus /\ SameQueues /\ SameCalls /\ UNCHANGED <<dispatches, agents, history>>
    BY <1>5, Same DEF vars, messages
  <2> QED BY <1>1, <2>1, InvIdle DEF agents
<1> QED BY <1>2, <1>3, <1>4, <1>5 DEF Next

(* Every state that the worker, the loop, the executor and the API can     *)
(* reach satisfies the invariant, which ties what each of them has in hand *)
(* to the hash, the two queues and what happened to the task before.       *)
THEOREM Invariant == Spec => []Inv
  BY InvInit, InvStep, PTL DEF Spec

(***************************************************************************)
(* What the runs check.                                                    *)
(***************************************************************************)
(* Whatever the four writers do, and however their steps interleave, the   *)
(* hash, the queues and the writers keep their types: above all, no score  *)
(* of a queue leaves 0 .. 20, and no priority of the hash 0 .. 10.         *)
THEOREM TypeCorrect == Spec => []TypeOK
<1>1. Inv => TypeOK
  <2> SUFFICES ASSUME Types PROVE TypeOK
    BY DEF Inv
  <2>1. hash \in [Tasks -> [status : {"absent", "created", "classified", "dispatched", "running",
                                      "done", "failed"},
                            priority : 0 .. 10, boost : Nat]]
    BY DEF Types, HashType, Statuses, Ended
  <2>2. \A q \in QueueNames : DOMAIN queues[q] \subseteq Tasks /\ Range(queues[q]) \subseteq Scores
    BY DEF Types, QueuesType, Range
  <2>3. /\ IsABag(requests) /\ IsABag(assessments)
        /\ worker.task \in Tasks \cup {NoTask} /\ worker.score \in Scores /\ worker.boost \in Nat
    BY DEF Types, MessagesType, WorkerType
  <2>4. aging.ids \subseteq Tasks /\ aging.now \in 0 .. MaxAge /\ aging.score \in Scores
    BY DEF Types, AgingType
  <2>5. /\ executor \in [task : Tasks \cup {NoTask},
                         at : {"idle", "class", "start", "running", "failing"}]
        /\ api.task \in Tasks \cup {NoTask} /\ api.score \in Scores
    BY DEF Types, ExecutorType, ApiType
  <2> QED BY <2>1, <2>2, <2>3, <2>4, <2>5 DEF TypeOK, Types, SetsType, BoundsType
<1> QED BY <1>1, Invariant, PTL

(* remove_from_waiting against the worker, aging_loop and the API: a task  *)
(* that the executor removed is in no queue, for as long as the service    *)
(* runs, unless one of the writers had it in hand meanwhile, it was handled*)
(* anew, or the API put it back.                                           *)
THEOREM RemovedStaysRemoved == Spec => []GhostsExplained
<1>1. Inv => GhostsExplained
  BY ClassOfTask DEF Inv, Types, SetsType, Task, Life, Gone, Halfway, In, GhostsExplained
<1> QED BY <1>1, Invariant, PTL

(* enqueue_task and remove_from_waiting write the two queues one after the *)
(* other: once nobody has the task in hand the two agree on it, unless its *)
(* execution failed, or was lost, after the first removal.                 *)
THEOREM QueuesAgreeAtRest == Spec => []QueuesAgree
<1>1. ASSUME Inv, NEW t \in Tasks \ (excused \cup requeued \cup dead \cup halved), AtRest(t), ~Has(t, "created")
      PROVE  In(t, "waiting") <=> In(t, ClassOf(t))
  <2>1. ~InHand(t) /\ ~Halfway(t) /\ ~Enqueues(t)
    BY <1>1 DEF AtRest, InHand, Halfway, Enqueues
  <2>2. CASE t \in removed
    BY <1>1, <2>2 DEF Inv, Task, Gone
  <2>3. CASE Status(t) = "absent"
    BY <1>1, <2>3, ClassOfTask DEF Inv, Task, Life, QueueNames
  <2>4. CASE t \notin removed /\ Status(t) # "absent"
    BY <1>1, <2>1, <2>4 DEF Inv, Task, Both
  <2> QED BY <2>2, <2>3, <2>4
<1>2. Inv => QueuesAgree
  BY <1>1 DEF QueuesAgree, In, Has
<1> QED BY <1>2, Invariant, PTL

(* enqueue_task publishes need_placement last: a task whose hash says that *)
(* it is classified was announced to the resource-agent, unless the API    *)
(* put it back or its message was dead-lettered, or the message is there.  *)
THEOREM ClassifiedAnnounced == Spec => []AnnouncedOrParked
<1>1. Inv => AnnouncedOrParked
  BY DEF Inv, Task, Announced, AnnouncedOrParked, AtRest, InHand, Enqueues, Has, Status
<1> QED BY <1>1, Invariant, PTL
================================================================================
