---------------------------- MODULE ExecutorProofs -----------------------------
(***************************************************************************)
(* Theorems about Executor, for any tasks, nodes and bounds.               *)
(***************************************************************************)
EXTENDS Executor, TLAPS

(***************************************************************************)
(* Types.                                                                  *)
(***************************************************************************)
Executing == pc \in TryPoints \cup ExceptPoints

(* What the handler and the request hold where their next step needs it.   *)
HandlerInv ==
    /\ pc # "idle" => msg \in Messages
    /\ Executing => msg.task \in Tasks
    /\ pc \in UnavailablePoints => msg.task = NoTask
    /\ pc \in {"uPg", "uHash", "uPublish"} => cur \in Tasks
    /\ apiPc \in {"mark", "requeue"} => apiTask \in Tasks

Kinds == {"dispatches", "duplicates", "requests", "failures", "faults"}

(* The coordinator's attempt knows its node until it is over.              *)
WriterTypes ==
    /\ attempt \in [Tasks -> [at : {"none", "hash", "event"}, node : Nodes \cup {NoNode}]]
    /\ \A task \in Tasks : attempt[task].at # "none" => attempt[task].node \in Nodes
    /\ enqueued \subseteq Tasks /\ sent \subseteq Messages

NodeTypes ==
    /\ failed \subseteq Nodes /\ expired \subseteq Nodes
    /\ used \in [Nodes -> Nat] /\ leaked \in [Nodes -> Nat]
    /\ running \in [Nodes -> SUBSET Tasks]

TaskTypes ==
    /\ hash \in [Tasks -> TaskRecord] /\ pg \in [Tasks -> TaskRecord]
    /\ overwritten \cup torn \cup unfinished \subseteq Tasks

MessageTypes ==
    /\ inbox \in [Messages -> Nat]
    /\ budget \in [Kinds -> Nat]

HandlerTypes ==
    /\ msg \in Messages \cup {NoMessage}
    /\ pc \in {"idle", "commit"} \cup TryPoints \cup ExceptPoints \cup UnavailablePoints
    /\ reserved \in BOOLEAN /\ seen \in Nat
    /\ todo \subseteq Tasks /\ cur \in Tasks \cup {NoTask}

RequestTypes ==
    /\ apiNode \in Nodes \cup {NoNode} /\ apiPc \in ApiPoints
    /\ apiTodo \subseteq Tasks /\ apiTask \in Tasks \cup {NoTask} /\ apiSeen \in TaskRecord

CountTypes ==
    /\ deliveries \in [Tasks -> Nat] /\ outcomes \in [Tasks -> Nat]
    /\ belied \in [Tasks -> Nat] /\ commits \in [Tasks -> Nat]
    /\ last \in [Tasks -> {"none", "done", "failed"}]

Types == TypeOK /\ HandlerInv /\ WriterTypes

LEMMA TypesSplit ==
    /\ TypeOK => NodeTypes /\ TaskTypes /\ MessageTypes /\ HandlerTypes /\ RequestTypes /\ CountTypes
    /\ /\ NodeTypes /\ TaskTypes /\ MessageTypes /\ WriterTypes
       /\ HandlerTypes /\ RequestTypes /\ CountTypes /\ HandlerInv
       => Types
  BY DEF TypeOK, NodeTypes, TaskTypes, MessageTypes, WriterTypes, HandlerTypes, RequestTypes, CountTypes,
         Kinds, Types

LEMMA TypesInit == Init => Types
<1> SUFFICES ASSUME Init PROVE Types
  OBVIOUS
<1>1. NodeTypes /\ CountTypes
  BY DEF Init, NodeTypes, CountTypes
<1>2. Nobody \in TaskRecord /\ [Nobody EXCEPT !.status = "classified"] \in TaskRecord
  BY DEF Nobody, TaskRecord, Statuses
<1>3. TaskTypes
  BY <1>2 DEF Init, TaskTypes
<1>4. MessageTypes
  BY BoundsAssumption DEF Init, MessageTypes, Kinds
<1>5. HandlerTypes /\ RequestTypes
  BY <1>2 DEF Init, HandlerTypes, RequestTypes, ApiPoints
<1>6. HandlerInv /\ WriterTypes
  BY DEF Init, HandlerInv, WriterTypes, NoAttempt, Executing, TryPoints, ExceptPoints, UnavailablePoints
<1> QED BY <1>1, <1>3, <1>4, <1>5, <1>6, TypesSplit

(* The coordinator's and the queue-agent's steps, and a further copy of one*)
(* of their events: they touch the two stores and the queue only.          *)
Beyond ==
    \/ \E task \in Tasks, node \in Nodes : DispatchRow(task, node)
    \/ \E task \in Tasks :
          \/ DispatchHash(task) \/ DispatchEvent(task) \/ AttemptDies(task)
          \/ EnqueueHash(task) \/ EnqueueRow(task) \/ EnqueueDies(task)
    \/ \E m \in Messages : Duplicate(m)

LEMMA BeyondKeeps ==
    ASSUME Beyond
    PROVE  /\ UNCHANGED <<nodeState, handler, request, counts, last, leaked>>
           /\ \/ budget' = budget \/ Fault
              \/ \E kind \in {"dispatches", "duplicates", "requests"} : Spend(kind)
           /\ \/ inbox' = inbox
              \/ \E m : inbox' = [inbox EXCEPT ![m] = @ + 1]
           /\ overwritten' \subseteq overwritten
<1> USE DEF Beside
<1>1. CASE \E task \in Tasks, node \in Nodes : DispatchRow(task, node)
  BY <1>1 DEF DispatchRow
<1>2. CASE \E task \in Tasks : DispatchHash(task) \/ DispatchEvent(task)
  BY <1>2 DEF DispatchHash, DispatchEvent
<1>3. CASE \E task \in Tasks : EnqueueHash(task) \/ EnqueueRow(task)
  BY <1>3 DEF EnqueueHash, EnqueueRow
<1>4. CASE \E task \in Tasks : AttemptDies(task) \/ EnqueueDies(task)
  BY <1>4 DEF AttemptDies, EnqueueDies
<1>5. CASE \E m \in Messages : Duplicate(m)
  BY <1>5 DEF Duplicate, history, marks
<1> QED BY <1>1, <1>2, <1>3, <1>4, <1>5 DEF Beyond

(* What they write to the stores.                                          *)
LEMMA BeyondWrites ==
    ASSUME Beyond
    PROVE  /\ \/ pg' = pg
              \/ \E task \in Tasks, node \in Nodes :
                    pg' = [pg EXCEPT ![task] = [status |-> "dispatched", node |-> node]]
              \/ \E task \in Tasks : pg' = [pg EXCEPT ![task].status = "classified"]
           /\ \/ hash' = hash
              \/ \E task \in Tasks :
                    /\ attempt[task].at = "hash"
                    /\ hash' = [hash EXCEPT ![task] = [status |-> "dispatched", node |-> attempt[task].node]]
              \/ \E task \in Tasks : hash' = [hash EXCEPT ![task].status = "classified"]
  BY DEF Beyond, DispatchRow, DispatchHash, DispatchEvent, AttemptDies, EnqueueHash, EnqueueRow,
     EnqueueDies, Duplicate, Recording, taskState

(* Every action with its parameters, for the case distinctions below.      *)
LEMMA Steps ==
    ASSUME Next
    PROVE  \/ \E m \in Messages : Receive(m)
           \/ Commit \/ RemoveFromWaiting \/ ReadNode \/ Reserve \/ AddRunning \/ RecordRunning
           \/ Poll \/ ReadBeforeRelease \/ ReleaseDone \/ RemoveRunning \/ RecordDone
           \/ PublishDone \/ Published \/ ReleaseFailed \/ RecordFailed \/ PublishFailed
           \/ ReadMembers \/ NextMember \/ FailMember \/ PublishMember \/ ForgetMembers
           \/ FailRows \/ ReadTask \/ MarkFailed \/ MarkClassified \/ PublishUnavailable
           \/ Beyond
           \/ \E node \in Nodes : NodeKeyExpires(node) \/ FailNode(node)
           \/ Abandon \/ TryRaises \/ RequestDies
  BY DEF Next, ExecutorStep, RequestStep, Surroundings, Failure, Beyond

LEMMA NodeTypesStep == Types /\ Next => NodeTypes'
<1> SUFFICES ASSUME Types, Next PROVE NodeTypes'
  OBVIOUS
<1> USE DEF NodeTypes
<1>0. /\ NodeTypes /\ seen \in Nat /\ msg \in Messages \cup {NoMessage}
      /\ HandlerInv
  BY DEF Types, TypeOK
<1>1. CASE Reserve
  <2>1. used' = [used EXCEPT ![NodeId] = seen + 1] /\ UNCHANGED <<failed, expired, running, leaked>>
    BY <1>1 DEF Reserve, history
  <2>2. seen + 1 \in Nat
    BY <1>0
  <2> QED BY <1>0, <2>1, <2>2
<1>2. CASE AddRunning
  <2>1. /\ running' = [running EXCEPT ![NodeId] = @ \cup {TaskId}]
        /\ UNCHANGED <<failed, expired, used, leaked>>
        /\ TaskId \in Tasks
    BY <1>0, <1>2 DEF AddRunning, history, HandlerInv, Executing, TryPoints, Goto, TaskId
  <2> QED BY <1>0, <2>1
<1>3. CASE ReleaseDone \/ ReleaseFailed
  <2>1. PICK from, to : Release(from, to)
    BY <1>3 DEF ReleaseDone, ReleaseFailed
  <2>2. (IF seen > 0 THEN seen - 1 ELSE 0) \in Nat
    BY <1>0
  <2> QED BY <1>0, <2>1, <2>2 DEF Release, history
<1>4. CASE RemoveRunning
  <2>1. /\ running' = [running EXCEPT ![NodeId] = @ \ {TaskId}]
        /\ UNCHANGED <<failed, expired, used, leaked>>
    BY <1>4 DEF RemoveRunning, history
  <2> QED BY <1>0, <2>1
<1>5. CASE ForgetMembers
  BY <1>0, <1>5 DEF ForgetMembers, history
<1>6. CASE \E node \in Nodes : NodeKeyExpires(node) \/ FailNode(node)
  BY <1>0, <1>6 DEF NodeKeyExpires, FailNode, history
<1>7. CASE Abandon
  <2>1. UNCHANGED <<failed, used, expired, running>>
    BY <1>7 DEF Abandon, nodeState
  <2>2. leaked' = [leaked EXCEPT ![NodeId] = @ + 1] \/ leaked' = leaked
    BY <1>7 DEF Abandon, Leak
  <2>3. leaked' \in [Nodes -> Nat]
    BY <1>0, <2>2
  <2> QED BY <1>0, <2>1, <2>3
<1>8. CASE UNCHANGED <<nodeState, leaked>>
  BY <1>0, <1>8 DEF nodeState
<1>9. ASSUME NEW m \in Messages, Receive(m) PROVE UNCHANGED <<nodeState, leaked>>
  BY <1>9 DEF Receive
<1>10. CASE Commit \/ RemoveFromWaiting \/ ReadNode \/ RecordRunning \/ Poll \/ ReadBeforeRelease
  BY <1>8, <1>10 DEF Commit, RemoveFromWaiting, ReadNode, RecordRunning, Poll, ReadBeforeRelease, history
<1>11. CASE RecordDone \/ PublishDone \/ Published \/ RecordFailed \/ PublishFailed
  BY <1>8, <1>11 DEF RecordDone, PublishDone, Published, RecordFailed, PublishFailed, RecordStatus, Publish, history
<1>12. CASE ReadMembers \/ NextMember \/ FailMember \/ PublishMember
  BY <1>8, <1>12 DEF ReadMembers, NextMember, FailMember, PublishMember, RecordStatus, history
<1>13. CASE FailRows \/ ReadTask \/ MarkFailed \/ MarkClassified \/ PublishUnavailable
  BY <1>8, <1>13 DEF FailRows, ReadTask, MarkFailed, MarkClassified, Overwrite, PublishUnavailable, history
<1>14. CASE Beyond
  BY <1>8, <1>14, BeyondKeeps
<1>15. CASE TryRaises \/ RequestDies
  BY <1>8, <1>15 DEF TryRaises, RequestDies, history
<1> QED BY <1>1, <1>2, <1>3, <1>4, <1>5, <1>6, <1>7, <1>8, <1>9, <1>10, <1>11, <1>12, <1>13,
           <1>14, <1>15, Steps

LEMMA MarkTypesStep == Types /\ Next => overwritten' \cup torn' \cup unfinished' \subseteq Tasks
<1> SUFFICES ASSUME Types, Next PROVE overwritten' \cup torn' \cup unfinished' \subseteq Tasks
  OBVIOUS
<1>0. overwritten \cup torn \cup unfinished \subseteq Tasks /\ HandlerInv
  BY TypesSplit DEF Types, TaskTypes
<1>1. ASSUME NEW task \in Tasks, NEW crossed, Tear(task, crossed) PROVE torn' \subseteq Tasks
  BY <1>0, <1>1 DEF Tear
<1>2. CASE \E task \in Tasks, node \in Nodes : DispatchRow(task, node)
  BY <1>0, <1>1, <1>2 DEF DispatchRow, Beside
<1>3. CASE \E task \in Tasks : DispatchHash(task) \/ DispatchEvent(task) \/ AttemptDies(task)
  BY <1>0, <1>1, <1>3 DEF DispatchHash, DispatchEvent, AttemptDies, Beside
<1>4. CASE \E task \in Tasks : EnqueueHash(task) \/ EnqueueRow(task) \/ EnqueueDies(task)
  BY <1>0, <1>1, <1>4 DEF EnqueueHash, EnqueueRow, EnqueueDies, Beside
<1>5. ASSUME NEW task \in Tasks, NEW status, NEW from, NEW to, NEW hashFrom, NEW hashTo,
             RecordStatus(task, status, from, to, hashFrom, hashTo)
      PROVE  overwritten' \cup torn' \cup unfinished' \subseteq Tasks
  BY <1>0, <1>1, <1>5 DEF RecordStatus
<1>6. CASE RecordDone \/ RecordFailed
  <2>1. TaskId \in Tasks
    BY <1>0, <1>6 DEF RecordDone, RecordFailed, RecordStatus, Goto, HandlerInv, Executing, TryPoints,
       ExceptPoints, TaskId
  <2> QED BY <1>5, <1>6, <2>1 DEF RecordDone, RecordFailed
<1>7. CASE FailMember
  <2>1. cur \in Tasks
    BY <1>0, <1>7 DEF FailMember, RecordStatus, Goto, HandlerInv
  <2> QED BY <1>5, <1>7, <2>1 DEF FailMember
<1>8. CASE MarkFailed \/ MarkClassified
  BY <1>0, <1>8 DEF MarkFailed, MarkClassified, Overwrite, HandlerInv
<1>9. CASE Abandon
  <2>1. Unserved \subseteq Tasks
    BY DEF Unserved
  <2>2. overwritten' = overwritten
    BY <1>9 DEF Abandon
  <2>3. \/ UNCHANGED <<torn, unfinished>>
        \/ torn' = torn \cup Unserved /\ unfinished' = unfinished \cup Unserved
    BY <1>9 DEF Abandon
  <2> QED BY <1>0, <2>1, <2>2, <2>3
<1>10. CASE UNCHANGED marks
  BY <1>0, <1>10 DEF marks
<1>11. ASSUME NEW m \in Messages, Receive(m) \/ Duplicate(m) PROVE UNCHANGED marks
  BY <1>11 DEF Receive, Duplicate, history
<1>12. CASE Commit \/ RemoveFromWaiting \/ ReadNode \/ Reserve \/ AddRunning \/ RecordRunning \/ Poll
  BY <1>10, <1>12 DEF Commit, RemoveFromWaiting, ReadNode, Reserve, AddRunning, RecordRunning, Poll, history
<1>13. CASE ReadBeforeRelease \/ ReleaseDone \/ RemoveRunning \/ PublishDone \/ Published \/ ReleaseFailed
  BY <1>10, <1>13 DEF ReadBeforeRelease, ReleaseDone, Release, RemoveRunning, PublishDone, Publish,
     Published, ReleaseFailed, history
<1>14. CASE PublishFailed \/ ReadMembers \/ NextMember \/ PublishMember \/ ForgetMembers
  BY <1>10, <1>14 DEF PublishFailed, Publish, ReadMembers, NextMember, PublishMember, ForgetMembers, history
<1>15. CASE FailRows \/ ReadTask \/ PublishUnavailable \/ TryRaises \/ RequestDies
  BY <1>10, <1>15 DEF FailRows, ReadTask, PublishUnavailable, TryRaises, RequestDies, history
<1>16. ASSUME NEW node \in Nodes, NodeKeyExpires(node) \/ FailNode(node) PROVE UNCHANGED marks
  BY <1>16 DEF NodeKeyExpires, FailNode, history
<1> QED BY <1>2, <1>3, <1>4, <1>6, <1>7, <1>8, <1>9, <1>10, <1>11, <1>12, <1>13, <1>14, <1>15, <1>16,
           Steps DEF Beyond

LEMMA TaskTypesStep == Types /\ Next => TaskTypes'
<1> SUFFICES ASSUME Types, Next PROVE TaskTypes'
  OBVIOUS
<1>0. /\ hash \in [Tasks -> TaskRecord] /\ pg \in [Tasks -> TaskRecord]
      /\ HandlerInv /\ WriterTypes
  BY TypesSplit DEF Types, TaskTypes
<1> DEFINE Goal == pg' \in [Tasks -> TaskRecord] /\ hash' \in [Tasks -> TaskRecord]
<1> SUFFICES Goal
  BY MarkTypesStep DEF TaskTypes
<1>1. ASSUME NEW task, NEW status \in Statuses, NEW f \in [Tasks -> TaskRecord],
             NEW g, g = [f EXCEPT ![task].status = status]
      PROVE  g \in [Tasks -> TaskRecord]
  BY <1>1 DEF TaskRecord
<1>2. ASSUME NEW task, NEW status \in Statuses, NEW node \in Nodes,
             NEW f \in [Tasks -> TaskRecord],
             NEW g, g = [f EXCEPT ![task] = [status |-> status, node |-> node]]
      PROVE  g \in [Tasks -> TaskRecord]
  BY <1>2 DEF TaskRecord
<1>3. {"created", "classified", "dispatched", "running", "done", "failed"} \subseteq Statuses
  BY DEF Statuses
<1>4. CASE Beyond
  <2>1. pg' \in [Tasks -> TaskRecord]
    BY <1>0, <1>1, <1>2, <1>3, <1>4, BeyondWrites
  <2>2. ASSUME NEW task \in Tasks, attempt[task].at = "hash" PROVE attempt[task].node \in Nodes
    BY <1>0, <2>2 DEF WriterTypes
  <2>3. hash' \in [Tasks -> TaskRecord]
    <3>1. CASE hash' = hash
      BY <1>0, <3>1
    <3>2. ASSUME NEW task \in Tasks, attempt[task].at = "hash",
                 hash' = [hash EXCEPT ![task] = [status |-> "dispatched", node |-> attempt[task].node]]
          PROVE  hash' \in [Tasks -> TaskRecord]
      BY <1>0, <1>2, <1>3, <2>2, <3>2
    <3>3. ASSUME NEW task \in Tasks, hash' = [hash EXCEPT ![task].status = "classified"]
          PROVE  hash' \in [Tasks -> TaskRecord]
      BY <1>0, <1>1, <1>3, <3>3
    <3> QED BY <1>4, <3>1, <3>2, <3>3, BeyondWrites
  <2> QED BY <2>1, <2>3
<1>6. CASE RecordRunning
  <2>1. \/ pg' = [pg EXCEPT ![TaskId] = [status |-> "running", node |-> NodeId]] /\ hash' = hash
        \/ hash' = [hash EXCEPT ![TaskId] = [status |-> "running", node |-> NodeId]] /\ pg' = pg
    BY <1>6 DEF RecordRunning
  <2>2. NodeId \in Nodes
    BY <1>0, <1>6 DEF HandlerInv, RecordRunning, Goto, Messages, NodeId
  <2> QED BY <1>0, <1>2, <1>3, <2>1, <2>2
<1>7. ASSUME NEW task, NEW status \in Statuses, NEW from, NEW to, NEW hashFrom, NEW hashTo,
             RecordStatus(task, status, from, to, hashFrom, hashTo)
      PROVE  Goal
  <2>1. \/ pg' = [pg EXCEPT ![task].status = status] /\ hash' = hash
        \/ hash' = [hash EXCEPT ![task].status = status] /\ pg' = pg
    BY <1>7 DEF RecordStatus
  <2> QED BY <1>0, <1>1, <2>1
<1>8. CASE RecordDone \/ RecordFailed \/ FailMember
  BY <1>3, <1>7, <1>8 DEF RecordDone, RecordFailed, FailMember
<1>9. CASE FailRows
  <2>1. /\ pg' = [task \in Tasks |-> IF OnNode(pg[task]) THEN [pg[task] EXCEPT !.status = "failed"]
                                                      ELSE pg[task]]
        /\ UNCHANGED hash
    BY <1>9 DEF FailRows
  <2>2. ASSUME NEW task \in Tasks PROVE pg'[task] \in TaskRecord
    BY <1>0, <2>1 DEF TaskRecord, Statuses
  <2>3. pg' \in [Tasks -> TaskRecord]
    BY <2>1, <2>2
  <2> QED BY <1>0, <2>1, <2>3
<1>10. CASE MarkFailed \/ MarkClassified
  <2>1. /\ \E status \in Statuses : hash' = [hash EXCEPT ![apiTask].status = status]
        /\ UNCHANGED pg
    BY <1>0, <1>3, <1>10 DEF MarkFailed, MarkClassified, Overwrite
  <2> QED BY <1>0, <1>1, <2>1
<1>12. CASE UNCHANGED taskState
  BY <1>0, <1>12 DEF taskState
<1>13. ASSUME NEW m \in Messages, Receive(m) PROVE UNCHANGED taskState
  BY <1>13 DEF Receive
<1>14. CASE Commit \/ ReadNode \/ Reserve \/ AddRunning \/ Poll \/ ReadBeforeRelease \/ RemoveFromWaiting
  BY <1>12, <1>14 DEF Commit, ReadNode, Reserve, AddRunning, Poll, ReadBeforeRelease, RemoveFromWaiting
<1>15. CASE ReleaseDone \/ RemoveRunning \/ PublishDone \/ Published \/ ReleaseFailed \/ PublishFailed
  BY <1>12, <1>15 DEF ReleaseDone, Release, RemoveRunning, PublishDone, Published, ReleaseFailed,
     PublishFailed, Publish
<1>16. CASE ReadMembers \/ NextMember \/ PublishMember \/ ForgetMembers
  BY <1>12, <1>16 DEF ReadMembers, NextMember, PublishMember, ForgetMembers
<1>17. CASE ReadTask \/ PublishUnavailable \/ Abandon \/ TryRaises \/ RequestDies
  BY <1>12, <1>17 DEF ReadTask, PublishUnavailable, Abandon, TryRaises, RequestDies
<1>19. ASSUME NEW node \in Nodes, NodeKeyExpires(node) \/ FailNode(node) PROVE UNCHANGED taskState
  BY <1>19 DEF NodeKeyExpires, FailNode
<1> QED BY <1>4, <1>6, <1>8, <1>9, <1>10, <1>12, <1>13, <1>14, <1>15, <1>16, <1>17, <1>19, Steps

(* Only the coordinator's and the queue-agent's own steps move them.       *)
LEMMA WritersStay ==
    ASSUME Next
    PROVE  Beyond \/ UNCHANGED <<writers, sent>>
<1>1. CASE \E m \in Messages : Receive(m)
  BY <1>1 DEF Receive
<1>2. CASE Commit \/ RemoveFromWaiting \/ ReadNode \/ Reserve \/ AddRunning \/ RecordRunning \/ Poll
  BY <1>2 DEF Commit, RemoveFromWaiting, ReadNode, Reserve, AddRunning, RecordRunning, Poll, history
<1>3. CASE ReadBeforeRelease \/ ReleaseDone \/ RemoveRunning \/ PublishDone \/ Published \/ ReleaseFailed
  BY <1>3 DEF ReadBeforeRelease, ReleaseDone, Release, RemoveRunning, PublishDone, Publish,
     Published, ReleaseFailed, history
<1>4. CASE PublishFailed \/ ReadMembers \/ NextMember \/ PublishMember \/ ForgetMembers
  BY <1>4 DEF PublishFailed, Publish, ReadMembers, NextMember, PublishMember, ForgetMembers, history
<1>5. CASE RecordDone \/ RecordFailed \/ FailMember
  BY <1>5 DEF RecordDone, RecordFailed, FailMember, RecordStatus
<1>6. CASE FailRows \/ ReadTask \/ MarkFailed \/ MarkClassified \/ PublishUnavailable
  BY <1>6 DEF FailRows, ReadTask, MarkFailed, MarkClassified, Overwrite, PublishUnavailable, history
<1>7. CASE \E node \in Nodes : NodeKeyExpires(node) \/ FailNode(node)
  BY <1>7 DEF NodeKeyExpires, FailNode, history
<1>8. CASE Abandon \/ TryRaises \/ RequestDies
  BY <1>8 DEF Abandon, TryRaises, RequestDies, history
<1> QED BY <1>1, <1>2, <1>3, <1>4, <1>5, <1>6, <1>7, <1>8, Steps

LEMMA WriterTypesStep == Types /\ Next => WriterTypes'
<1> SUFFICES ASSUME Types, Next PROVE WriterTypes'
  OBVIOUS
<1> USE DEF WriterTypes
<1>0. WriterTypes
  BY DEF Types
<1> DEFINE Attempts == [at : {"none", "hash", "event"}, node : Nodes \cup {NoNode}]
<1>1. ASSUME NEW t \in Tasks, NEW r \in Attempts, r.at # "none" => r.node \in Nodes,
             attempt' = [attempt EXCEPT ![t] = r], UNCHANGED <<enqueued, sent>>
      PROVE  WriterTypes'
  BY <1>0, <1>1
<1>2. CASE \E task \in Tasks, node \in Nodes : DispatchRow(task, node)
  <2>1. PICK task \in Tasks, node \in Nodes : DispatchRow(task, node)
    BY <1>2
  <2>2. /\ attempt' = [attempt EXCEPT ![task] = [at |-> "hash", node |-> node]]
        /\ UNCHANGED <<enqueued, sent>>
    BY <2>1 DEF DispatchRow, Beside
  <2> QED BY <1>1, <2>2
<1>3. CASE \E task \in Tasks : DispatchHash(task)
  <2>1. PICK task \in Tasks : DispatchHash(task)
    BY <1>3
  <2>2. /\ attempt' = [attempt EXCEPT ![task].at = "event"] /\ attempt[task].at = "hash"
        /\ UNCHANGED <<enqueued, sent>>
    BY <2>1 DEF DispatchHash, Recording, Beside
  <2>3. attempt[task] \in Attempts /\ attempt[task].node \in Nodes
    BY <1>0, <2>2
  <2>4. attempt' = [attempt EXCEPT ![task] = [attempt[task] EXCEPT !.at = "event"]]
    BY <2>2
  <2>5. /\ [attempt[task] EXCEPT !.at = "event"] \in Attempts
        /\ [attempt[task] EXCEPT !.at = "event"].node \in Nodes
    BY <2>3
  <2> QED BY <1>1, <2>2, <2>4, <2>5
<1>4. CASE \E task \in Tasks : DispatchEvent(task)
  <2>1. PICK task \in Tasks : DispatchEvent(task)
    BY <1>4
  <2>2. /\ attempt[task].at = "event"
        /\ sent' = sent \cup {[task |-> task, node |-> attempt[task].node]}
        /\ attempt' = [attempt EXCEPT ![task] = NoAttempt] /\ enqueued' = enqueued
    BY <2>1 DEF DispatchEvent
  <2>3. sent' \subseteq Messages
    BY <1>0, <2>2 DEF Messages
  <2> QED BY <1>0, <2>2, <2>3 DEF NoAttempt
<1>5. CASE \E task \in Tasks : AttemptDies(task)
  <2>1. PICK task \in Tasks : AttemptDies(task)
    BY <1>5
  <2>2. attempt' = [attempt EXCEPT ![task] = NoAttempt] /\ UNCHANGED <<enqueued, sent>>
    BY <2>1 DEF AttemptDies, Beside
  <2> QED BY <1>1, <2>2 DEF NoAttempt
<1>6. CASE \E task \in Tasks : EnqueueHash(task) \/ EnqueueRow(task) \/ EnqueueDies(task)
  BY <1>0, <1>6 DEF EnqueueHash, EnqueueRow, EnqueueDies, Beside
<1>7. CASE UNCHANGED <<writers, sent>>
  BY <1>0, <1>7 DEF writers
<1>8. CASE \E m \in Messages : Duplicate(m)
  BY <1>7, <1>8 DEF Duplicate, history
<1> QED BY <1>2, <1>3, <1>4, <1>5, <1>6, <1>7, <1>8, WritersStay DEF Beyond

LEMMA MessageTypesStep == Types /\ Next => MessageTypes'
<1> SUFFICES ASSUME Types, Next PROVE MessageTypes'
  OBVIOUS
<1> USE DEF MessageTypes
<1>0. MessageTypes
  BY TypesSplit DEF Types
<1>1. ASSUME NEW kind, Spend(kind) PROVE budget' \in [Kinds -> Nat]
  <2>1. budget[kind] > 0 /\ budget' = [budget EXCEPT ![kind] = @ - 1]
    BY <1>1 DEF Spend
  <2>2. ASSUME NEW k \in Kinds PROVE budget'[k] \in Nat
    <3>1. CASE k = kind
      BY <1>0, <2>1, <3>1
    <3>2. CASE k # kind
      BY <1>0, <2>1, <3>2
    <3> QED BY <3>1, <3>2
  <2> QED BY <1>0, <2>1, <2>2
<1>2. ASSUME NEW m, inbox' = [inbox EXCEPT ![m] = @ + 1] PROVE inbox' \in [Messages -> Nat]
  <2>1. ASSUME NEW n \in Messages PROVE inbox'[n] \in Nat
    <3>1. CASE n = m
      BY <1>0, <1>2, <3>1
    <3>2. CASE n # m
      BY <1>0, <1>2, <3>2
    <3> QED BY <3>1, <3>2
  <2> QED BY <1>0, <1>2, <2>1
<1>3. ASSUME NEW m \in Messages, Receive(m) PROVE MessageTypes'
  <2>1. inbox[m] > 0 /\ inbox' = [inbox EXCEPT ![m] = @ - 1] /\ budget' = budget
    BY <1>3 DEF Receive
  <2> QED BY <1>0, <2>1
<1>4. CASE Beyond
  BY <1>0, <1>1, <1>2, <1>4, BeyondKeeps DEF Fault
<1>5. CASE PublishUnavailable
  <2>1. inbox' = [inbox EXCEPT ![[task |-> NoTask, node |-> apiNode]] = @ + 1] /\ budget' = budget
    BY <1>5 DEF PublishUnavailable
  <2> QED BY <1>0, <1>2, <2>1
<1>6. CASE Abandon
  BY <1>0, <1>1, <1>2, <1>6 DEF Abandon, Fault
<1>7. ASSUME inbox' = inbox, \E kind : Spend(kind) PROVE MessageTypes'
  BY <1>0, <1>1, <1>7
<1>8. CASE TryRaises \/ RequestDies
  BY <1>7, <1>8 DEF TryRaises, RequestDies, Fault
<1>9. ASSUME NEW node \in Nodes, FailNode(node) PROVE MessageTypes'
  BY <1>7, <1>9 DEF FailNode
<1>10. CASE UNCHANGED <<inbox, budget>>
  BY <1>0, <1>10
<1>11. CASE Commit \/ RemoveFromWaiting \/ ReadNode \/ Reserve \/ AddRunning \/ RecordRunning \/ Poll
  BY <1>10, <1>11 DEF Commit, RemoveFromWaiting, ReadNode, Reserve, AddRunning, RecordRunning, Poll
<1>12. CASE ReadBeforeRelease \/ ReleaseDone \/ RemoveRunning \/ RecordDone \/ PublishDone \/ Published
  BY <1>10, <1>12 DEF ReadBeforeRelease, ReleaseDone, Release, RemoveRunning, RecordDone,
     RecordStatus, PublishDone, Published, Publish
<1>13. CASE ReleaseFailed \/ RecordFailed \/ PublishFailed \/ ReadMembers \/ NextMember
  BY <1>10, <1>13 DEF ReleaseFailed, Release, RecordFailed, RecordStatus, PublishFailed, Publish,
     ReadMembers, NextMember
<1>14. CASE FailMember \/ PublishMember \/ ForgetMembers \/ FailRows \/ ReadTask \/ MarkFailed
  BY <1>10, <1>14 DEF FailMember, RecordStatus, PublishMember, ForgetMembers, FailRows, ReadTask,
     MarkFailed, Overwrite
<1>15. CASE MarkClassified
  BY <1>10, <1>15 DEF MarkClassified, Overwrite
<1>16. ASSUME NEW node \in Nodes, NodeKeyExpires(node) PROVE UNCHANGED <<inbox, budget>>
  BY <1>16 DEF NodeKeyExpires
<1> QED BY <1>3, <1>4, <1>5, <1>6, <1>8, <1>9, <1>10, <1>11, <1>12, <1>13, <1>14, <1>15, <1>16, Steps

LEMMA CountTypesStep == Types /\ Next => CountTypes'
<1> SUFFICES ASSUME Types, Next PROVE CountTypes'
  OBVIOUS
<1> USE DEF CountTypes
<1>0. CountTypes
  BY TypesSplit DEF Types
<1>1. ASSUME NEW m \in Messages, Receive(m) PROVE CountTypes'
  <2>1. /\ deliveries' = deliveries \/ deliveries' = [deliveries EXCEPT ![m.task] = @ + 1]
        /\ UNCHANGED <<outcomes, belied, commits, last>>
    BY <1>1 DEF Receive
  <2> QED BY <1>0, <2>1
<1>2. CASE Commit
  <2>1. /\ commits' = commits \/ commits' = [commits EXCEPT ![TaskId] = @ + 1]
        /\ UNCHANGED <<deliveries, outcomes, belied, last>>
    BY <1>2 DEF Commit
  <2> QED BY <1>0, <2>1
<1>3. CASE PublishDone \/ PublishFailed
  <2>1. /\ outcomes' = [outcomes EXCEPT ![TaskId] = @ + 1]
        /\ \E event \in {"done", "failed"} : last' = [last EXCEPT ![TaskId] = event]
        /\ UNCHANGED <<deliveries, belied, commits>>
    BY <1>3 DEF PublishDone, PublishFailed, Publish
  <2>2. last' \in [Tasks -> {"none", "done", "failed"}]
    BY <1>0, <2>1
  <2> QED BY <1>0, <2>1, <2>2
<1>4. CASE PublishMember
  BY <1>0, <1>4 DEF PublishMember, counts
<1>5. CASE UNCHANGED <<counts, last>>
  BY <1>0, <1>5 DEF counts
<1>6. CASE UNCHANGED history
  BY <1>5, <1>6 DEF history
<1>7. CASE RemoveFromWaiting \/ ReadNode \/ Reserve \/ AddRunning \/ RecordRunning \/ Poll \/ Published
  BY <1>6, <1>7 DEF Published, RemoveFromWaiting, ReadNode, Reserve, AddRunning, RecordRunning, Poll
<1>8. CASE ReadBeforeRelease \/ ReleaseDone \/ RemoveRunning \/ RecordDone \/ ReleaseFailed
  BY <1>5, <1>6, <1>8 DEF ReadBeforeRelease, ReleaseDone, Release, RemoveRunning, RecordDone,
     RecordStatus, ReleaseFailed
<1>9. CASE RecordFailed \/ ReadMembers \/ NextMember \/ FailMember \/ ForgetMembers
  BY <1>5, <1>6, <1>9 DEF RecordFailed, RecordStatus, ReadMembers, NextMember, FailMember, ForgetMembers
<1>10. CASE FailRows \/ ReadTask \/ PublishUnavailable \/ RequestDies
  BY <1>6, <1>10 DEF FailRows, ReadTask, PublishUnavailable, RequestDies
<1>14. CASE TryRaises
  <2>1. /\ belied' = belied \/ belied' = [belied EXCEPT ![TaskId] = @ + 1]
        /\ UNCHANGED <<deliveries, outcomes, commits, last>>
    BY <1>14 DEF TryRaises
  <2> QED BY <1>0, <2>1
<1>11. CASE MarkFailed \/ MarkClassified \/ Abandon
  BY <1>5, <1>11 DEF MarkFailed, MarkClassified, Overwrite, Abandon
<1>12. CASE Beyond
  BY <1>5, <1>12, BeyondKeeps
<1>13. ASSUME NEW node \in Nodes, NodeKeyExpires(node) \/ FailNode(node) PROVE CountTypes'
  BY <1>6, <1>13 DEF NodeKeyExpires, FailNode
<1> QED BY <1>1, <1>2, <1>3, <1>4, <1>7, <1>8, <1>9, <1>10, <1>11, <1>12, <1>13, <1>14, Steps

LEMMA RequestTypesStep ==
    Types /\ Next => /\ RequestTypes'
                     /\ apiPc' \in {"mark", "requeue"} => apiTask' \in Tasks
<1> SUFFICES ASSUME Types, Next
             PROVE  /\ RequestTypes'
                    /\ apiPc' \in {"mark", "requeue"} => apiTask' \in Tasks
  OBVIOUS
<1> DEFINE Goal == /\ RequestTypes'
                   /\ apiPc' \in {"mark", "requeue"} => apiTask' \in Tasks
<1> USE DEF RequestTypes, ApiPoints
<1>0. RequestTypes /\ HandlerInv /\ hash \in [Tasks -> TaskRecord]
  BY TypesSplit DEF Types, TaskTypes
<1>1. ASSUME NEW node \in Nodes, FailNode(node) PROVE Goal
  BY <1>0, <1>1 DEF FailNode
<1>2. CASE FailRows
  BY <1>0, <1>2 DEF FailRows
<1>3. CASE ReadTask
  <2>1. apiTask' \in Tasks /\ apiTodo' \subseteq Tasks /\ apiSeen' \in TaskRecord /\ apiNode' = apiNode
    BY <1>0, <1>3 DEF ReadTask
  <2>2. apiPc' \in {"mark", "requeue", "next"}
    BY <1>3 DEF ReadTask
  <2> QED BY <1>0, <2>1, <2>2
<1>4. CASE MarkFailed \/ MarkClassified
  BY <1>0, <1>4 DEF MarkFailed, MarkClassified, Overwrite, HandlerInv
<1>6. Nobody \in TaskRecord
  BY DEF Nobody, TaskRecord, Statuses
<1>7. CASE PublishUnavailable
  BY <1>0, <1>6, <1>7 DEF PublishUnavailable, EndRequest
<1>8. CASE RequestDies
  BY <1>0, <1>6, <1>8 DEF RequestDies, EndRequest
<1>9. CASE UNCHANGED request
  BY <1>0, <1>9 DEF request, HandlerInv
<1>10. ASSUME NEW m \in Messages, Receive(m) PROVE Goal
  BY <1>9, <1>10 DEF Receive
<1>11. CASE Commit \/ RemoveFromWaiting \/ ReadNode \/ Reserve \/ AddRunning \/ RecordRunning \/ Poll
  BY <1>9, <1>11 DEF Commit, RemoveFromWaiting, ReadNode, Reserve, AddRunning, RecordRunning, Poll
<1>12. CASE ReadBeforeRelease \/ ReleaseDone \/ RemoveRunning \/ RecordDone \/ PublishDone \/ Published
  BY <1>9, <1>12 DEF ReadBeforeRelease, ReleaseDone, Release, RemoveRunning, RecordDone,
     RecordStatus, PublishDone, Published, Publish
<1>13. CASE ReleaseFailed \/ RecordFailed \/ PublishFailed \/ ReadMembers \/ NextMember
  BY <1>9, <1>13 DEF ReleaseFailed, Release, RecordFailed, RecordStatus, PublishFailed, Publish,
     ReadMembers, NextMember
<1>14. CASE FailMember \/ PublishMember \/ ForgetMembers \/ Abandon \/ TryRaises
  BY <1>9, <1>14 DEF FailMember, RecordStatus, PublishMember, ForgetMembers, Abandon, TryRaises
<1>15. CASE Beyond
  BY <1>9, <1>15, BeyondKeeps
<1>16. ASSUME NEW node \in Nodes, NodeKeyExpires(node) PROVE Goal
  BY <1>9, <1>16 DEF NodeKeyExpires
<1> QED BY <1>1, <1>2, <1>3, <1>4, <1>7, <1>8, <1>10, <1>11, <1>12, <1>13, <1>14, <1>15,
           <1>16, Steps

LEMMA HandlerTypesStep ==
    Types /\ Next => /\ HandlerTypes'
                     /\ pc' # "idle" => msg' \in Messages
                     /\ Executing' => msg'.task \in Tasks
                     /\ pc' \in UnavailablePoints => msg'.task = NoTask
                     /\ pc' \in {"uPg", "uHash", "uPublish"} => cur' \in Tasks
<1> DEFINE Goal == /\ HandlerTypes'
                   /\ pc' # "idle" => msg' \in Messages
                   /\ Executing' => msg'.task \in Tasks
                   /\ pc' \in UnavailablePoints => msg'.task = NoTask
                   /\ pc' \in {"uPg", "uHash", "uPublish"} => cur' \in Tasks
<1> SUFFICES ASSUME Types, Next PROVE Goal
  OBVIOUS
<1> USE DEF HandlerTypes, Executing, TryPoints, ExceptPoints, UnavailablePoints, Goto
<1>0. HandlerTypes /\ NodeTypes /\ HandlerInv
  BY TypesSplit DEF Types
<1>1. ASSUME NEW m \in Messages, Receive(m) PROVE Goal
  <2>1. /\ msg' = m /\ UNCHANGED <<reserved, seen, todo, cur>>
        /\ \/ m.task = NoTask /\ pc' = "members"
           \/ m.task # NoTask /\ pc' = "zrem"
    BY <1>1 DEF Receive
  <2>2. m.task \in Tasks \cup {NoTask}
    BY DEF Messages
  <2> QED BY <1>0, <2>1, <2>2
<1>2. CASE Commit \/ Abandon
  <2>1. /\ pc' = "idle" /\ msg' = NoMessage
        /\ reserved' = FALSE /\ seen' = 0 /\ todo' = {} /\ cur' = NoTask
    BY <1>2 DEF Commit, Abandon, Finish
  <2>2. reserved' \in BOOLEAN
    BY <2>1
  <2> QED BY <2>1, <2>2
(* Inside execute_task the message stays. *)
<1>3. ASSUME Executing, UNCHANGED <<msg, todo, cur>>, reserved' \in BOOLEAN, seen' \in Nat,
             pc' \in {"commit"} \cup TryPoints \cup ExceptPoints
      PROVE  Goal
  BY <1>0, <1>3 DEF HandlerInv
<1>4. ASSUME reserved' = reserved PROVE reserved' \in BOOLEAN
  BY <1>0, <1>4
<1>5. CASE RemoveFromWaiting \/ AddRunning \/ RecordRunning
  BY <1>0, <1>3, <1>4, <1>5 DEF RemoveFromWaiting, AddRunning, RecordRunning, Rest
<1>6. CASE RemoveRunning \/ RecordDone \/ PublishDone \/ Published \/ RecordFailed \/ PublishFailed
  BY <1>0, <1>3, <1>4, <1>6 DEF RemoveRunning, RecordDone, PublishDone, Published, RecordFailed, PublishFailed,
     RecordStatus, Publish, Rest
<1>7. ASSUME HandleFailure PROVE pc' \in {"xReleaseRead", "xPg"}
  BY <1>7 DEF HandleFailure
<1>8. CASE Poll \/ TryRaises
  BY <1>0, <1>3, <1>4, <1>7, <1>8 DEF Poll, TryRaises, Rest
<1>9. ASSUME Executing PROVE used[NodeId] \in Nat
  BY <1>0, <1>9 DEF HandlerInv, NodeTypes, NodeId, Messages
<1>10. CASE ReadNode
  BY <1>0, <1>3, <1>4, <1>7, <1>9, <1>10 DEF ReadNode
<1>11. CASE ReadBeforeRelease
  BY <1>0, <1>3, <1>4, <1>9, <1>11 DEF ReadBeforeRelease
<1>12. CASE Reserve
  <2>1. pc = "reserve" /\ pc' = "sadd" /\ UNCHANGED <<msg, seen, todo, cur>> /\ reserved' = TRUE
    BY <1>12 DEF Reserve
  <2>2. reserved' \in BOOLEAN
    BY <2>1
  <2> QED BY <1>0, <1>3, <2>1, <2>2
<1>13. CASE ReleaseDone
  <2>1. /\ pc = "releaseWrite" /\ pc' = "srem" /\ UNCHANGED <<msg, seen, todo, cur>>
        /\ reserved' = FALSE
    BY <1>13 DEF ReleaseDone, Release
  <2>2. reserved' \in BOOLEAN
    BY <2>1
  <2> QED BY <1>0, <1>3, <2>1, <2>2
<1>14. CASE ReleaseFailed
  BY <1>0, <1>3, <1>4, <1>14 DEF ReleaseFailed, Release
(* Nor does it inside fail_tasks_on_node. *)
<1>15. ASSUME pc \in UnavailablePoints, UNCHANGED <<msg, reserved, seen>>,
              todo' \subseteq Tasks, cur' \in Tasks \cup {NoTask},
              pc' \in {"commit"} \cup UnavailablePoints, pc' \in {"uPg", "uHash", "uPublish"} => cur' \in Tasks
       PROVE  Goal
  <2>1. reserved' \in BOOLEAN
    BY <1>4, <1>15
  <2>2. msg' \in Messages /\ msg'.task = NoTask /\ seen' \in Nat
    BY <1>0, <1>15 DEF HandlerInv
  <2> QED BY <1>15, <2>1, <2>2
<1>16. CASE ReadMembers
  <2>1. running[NodeId] \subseteq Tasks
    BY <1>0, <1>16 DEF ReadMembers, HandlerInv, NodeTypes, NodeId, Messages
  <2> QED BY <1>0, <1>15, <1>16, <2>1 DEF ReadMembers
<1>17. CASE NextMember
  BY <1>0, <1>15, <1>17 DEF NextMember
<1>18. CASE FailMember \/ PublishMember \/ ForgetMembers
  BY <1>0, <1>15, <1>18 DEF FailMember, RecordStatus, PublishMember, ForgetMembers, Rest, HandlerInv
<1>19. CASE UNCHANGED handler
  <2>1. UNCHANGED <<msg, pc, reserved, seen, todo, cur>>
    BY <1>19 DEF handler
  <2> QED BY <1>0, <1>4, <2>1 DEF HandlerInv
<1>20. CASE FailRows \/ ReadTask \/ MarkFailed \/ MarkClassified \/ PublishUnavailable
  BY <1>19, <1>20 DEF FailRows, ReadTask, MarkFailed, MarkClassified, Overwrite, PublishUnavailable
<1>21. CASE Beyond
  BY <1>19, <1>21, BeyondKeeps
<1>22. ASSUME NEW node \in Nodes, NodeKeyExpires(node) \/ FailNode(node) PROVE Goal
  BY <1>19, <1>22 DEF NodeKeyExpires, FailNode
<1>23. CASE RequestDies
  BY <1>19, <1>23 DEF RequestDies
<1> QED BY <1>1, <1>2, <1>5, <1>6, <1>8, <1>10, <1>11, <1>12, <1>13, <1>14, <1>16, <1>17, <1>18,
           <1>20, <1>21, <1>22, <1>23, Steps

LEMMA TypesGathered ==
    /\ NodeTypes' /\ TaskTypes' /\ MessageTypes' /\ WriterTypes'
    /\ HandlerTypes' /\ RequestTypes' /\ CountTypes' /\ HandlerInv'
    => Types'
  BY DEF TypeOK, NodeTypes, TaskTypes, MessageTypes, WriterTypes, HandlerTypes, RequestTypes, CountTypes,
         Kinds, Types

LEMMA TypesUnchanged == Types /\ UNCHANGED vars => Types'
<1> SUFFICES ASSUME Types, UNCHANGED vars PROVE Types'
  OBVIOUS
<1>0. /\ NodeTypes /\ TaskTypes /\ MessageTypes /\ HandlerTypes /\ RequestTypes /\ CountTypes
      /\ HandlerInv /\ WriterTypes
  BY TypesSplit DEF Types
<1>1. /\ UNCHANGED <<failed, expired, used, running, leaked>>
      /\ UNCHANGED <<hash, pg, overwritten, torn, unfinished, attempt, enqueued, sent>>
      /\ UNCHANGED <<inbox, budget>>
      /\ UNCHANGED <<msg, pc, reserved, seen, todo, cur>>
      /\ UNCHANGED <<apiNode, apiPc, apiTodo, apiTask, apiSeen>>
      /\ UNCHANGED <<deliveries, outcomes, belied, commits, last>>
  BY DEF vars, nodeState, taskState, writers, handler, request, history, counts, marks
<1>2. NodeTypes'
  BY <1>0, <1>1 DEF NodeTypes
<1>3. TaskTypes' /\ WriterTypes'
  BY <1>0, <1>1 DEF TaskTypes, WriterTypes
<1>4. MessageTypes'
  BY <1>0, <1>1 DEF MessageTypes
<1>5. HandlerTypes'
  BY <1>0, <1>1 DEF HandlerTypes
<1>6. RequestTypes'
  BY <1>0, <1>1 DEF RequestTypes
<1>7. CountTypes'
  BY <1>0, <1>1 DEF CountTypes
<1>8. HandlerInv'
  BY <1>0, <1>1 DEF HandlerInv, Executing
<1> QED BY <1>2, <1>3, <1>4, <1>5, <1>6, <1>7, <1>8, TypesGathered

LEMMA TypesStep == Types /\ [Next]_vars => Types'
<1> SUFFICES ASSUME Types, Next PROVE Types'
  BY TypesUnchanged
<1>1. /\ NodeTypes' /\ TaskTypes' /\ MessageTypes' /\ HandlerTypes' /\ RequestTypes' /\ CountTypes'
      /\ WriterTypes'
  BY NodeTypesStep, TaskTypesStep, MessageTypesStep, HandlerTypesStep, RequestTypesStep, CountTypesStep,
     WriterTypesStep
<1>2. HandlerInv'
  BY HandlerTypesStep, RequestTypesStep DEF HandlerInv
<1> QED BY <1>1, <1>2, TypesGathered

(* The executor's and the request's variables keep their types.            *)
THEOREM TypeCorrect == Spec => []TypeOK
<1>1. Types => TypeOK
  BY DEF Types
<1> QED BY <1>1, TypesInit, TypesStep, PTL DEF Spec

(***************************************************************************)
(* Outcomes.                                                               *)
(***************************************************************************)
(* Inside execute_task with the outcome still to come.                     *)
Working == Executing /\ pc # "doneSent"

(* A delivery that is being executed has no outcome yet that will stand,   *)
(* one about to be acknowledged has.                                       *)
CountInv ==
    \A task \in Tasks :
        /\ commits[task] <= outcomes[task] /\ outcomes[task] <= deliveries[task] + belied[task]
        /\ pc \in {"doneSent", "commit"} /\ msg.task = task => commits[task] < outcomes[task]
        /\ Working /\ msg.task = task => outcomes[task] < deliveries[task] + belied[task]
        /\ Executing /\ msg.task = task => deliveries[task] > 0

(* What is left of a message's handling when a step neither takes nor      *)
(* settles it and publishes no outcome.                                    *)
Continues ==
    /\ UNCHANGED <<msg, counts>>
    /\ \/ Working /\ Working'
       \/ pc \in UnavailablePoints /\ pc' \in UnavailablePoints \cup {"commit"}
       \/ pc = "doneSent" /\ pc' = "commit"
       \/ pc' = pc

LEMMA Continuing ==
    ASSUME Next
    PROVE  \/ \E m \in Messages : Receive(m)
           \/ Commit \/ Abandon \/ PublishDone \/ PublishFailed \/ TryRaises
           \/ Continues
<1> USE DEF Continues, Working, Executing, TryPoints, ExceptPoints, UnavailablePoints, Goto
<1>1. CASE RemoveFromWaiting \/ Reserve \/ AddRunning \/ RecordRunning \/ Published
  BY <1>1 DEF RemoveFromWaiting, Reserve, AddRunning, RecordRunning, Published, Rest, history
<1>2. ASSUME HandleFailure PROVE pc' \in {"xReleaseRead", "xPg"}
  BY <1>2 DEF HandleFailure
<1>3. CASE ReadNode \/ Poll
  BY <1>2, <1>3 DEF ReadNode, Poll, Rest, history
<1>4. CASE ReadBeforeRelease \/ ReleaseDone \/ RemoveRunning \/ RecordDone
  BY <1>4 DEF ReadBeforeRelease, ReleaseDone, Release, RemoveRunning, RecordDone, RecordStatus, Rest, history
<1>5. CASE ReleaseFailed \/ RecordFailed
  BY <1>5 DEF ReleaseFailed, Release, RecordFailed, RecordStatus, Rest, history
<1>6. CASE ReadMembers \/ NextMember \/ FailMember \/ PublishMember \/ ForgetMembers
  BY <1>6 DEF ReadMembers, NextMember, FailMember, RecordStatus, PublishMember, ForgetMembers, Rest, history
<1>7. CASE FailRows \/ ReadTask \/ MarkFailed \/ MarkClassified \/ PublishUnavailable
  BY <1>7 DEF FailRows, ReadTask, MarkFailed, MarkClassified, Overwrite, PublishUnavailable,
     handler, history
<1>8. CASE Beyond
  BY <1>8, BeyondKeeps DEF handler
<1>9. CASE \E node \in Nodes : NodeKeyExpires(node) \/ FailNode(node)
  BY <1>9 DEF NodeKeyExpires, FailNode, handler, history
<1>10. CASE RequestDies
  BY <1>10 DEF RequestDies, handler, history
<1> QED BY <1>1, <1>3, <1>4, <1>5, <1>6, <1>7, <1>8, <1>9, <1>10, Steps

LEMMA CountStep ==
    ASSUME Types, CountInv, [Next]_vars
    PROVE  CountInv'
<1> USE DEF CountInv, Working
<1>0. CountTypes /\ HandlerInv
  BY TypesSplit DEF Types
<1>1. ASSUME NEW m \in Messages, Receive(m) PROVE CountInv'
  <2>1. CASE m.task = NoTask
    <3>1. UNCHANGED <<deliveries, outcomes, belied, commits>> /\ pc' = "members"
      BY <1>1, <2>1 DEF Receive
    <3> QED BY <3>1 DEF Executing, TryPoints, ExceptPoints
  <2>2. CASE m.task # NoTask
    <3>1. /\ UNCHANGED <<outcomes, belied, commits>> /\ pc' = "zrem" /\ msg' = m
          /\ deliveries' = [deliveries EXCEPT ![m.task] = @ + 1]
      BY <1>1, <2>2 DEF Receive
    <3>2. ASSUME NEW task \in Tasks
          PROVE  /\ commits'[task] <= outcomes'[task]
                 /\ outcomes'[task] <= deliveries'[task] + belied'[task]
                 /\ m.task = task => /\ outcomes'[task] < deliveries'[task] + belied'[task]
                                     /\ deliveries'[task] > 0
      <4>0. /\ commits[task] \in Nat /\ outcomes[task] \in Nat
            /\ deliveries[task] \in Nat /\ belied[task] \in Nat
        BY <1>0 DEF CountTypes
      <4>1. CASE m.task = task
        <5>1. deliveries'[task] = deliveries[task] + 1
          BY <1>0, <3>1, <4>1 DEF CountTypes
        <5> QED BY <3>1, <4>0, <5>1
      <4>2. CASE m.task # task
        <5>1. deliveries'[task] = deliveries[task]
          BY <1>0, <3>1, <4>2 DEF CountTypes
        <5> QED BY <3>1, <4>0, <4>2, <5>1
      <4> QED BY <4>1, <4>2
    <3> QED BY <3>1, <3>2
  <2> QED BY <2>1, <2>2
<1>2. CASE Commit
  <2>1. /\ UNCHANGED <<deliveries, outcomes, belied>> /\ pc = "commit" /\ pc' = "idle"
        /\ commits' = IF TaskId = NoTask THEN commits ELSE [commits EXCEPT ![TaskId] = @ + 1]
    BY <1>2 DEF Commit, Finish
  <2>2. ASSUME NEW task \in Tasks PROVE commits'[task] <= outcomes'[task]
    <3>1. CASE TaskId = task
      <4>1. commits' = [commits EXCEPT ![task] = @ + 1]
        BY <2>1, <3>1, NullAssumption
      <4> QED BY <1>0, <2>1, <3>1, <4>1 DEF CountTypes, TaskId
    <3>2. CASE TaskId # task
      <4>1. commits'[task] = commits[task]
        BY <1>0, <2>1, <3>2 DEF CountTypes
      <4> QED BY <2>1, <4>1
    <3> QED BY <3>1, <3>2
  <2> QED BY <2>1, <2>2 DEF Executing, TryPoints, ExceptPoints
<1>3. CASE Abandon
  <2>1. UNCHANGED <<deliveries, outcomes, belied, commits>> /\ pc' = "idle"
    BY <1>3 DEF Abandon, Finish, counts
  <2> QED BY <2>1 DEF Executing, TryPoints, ExceptPoints
<1>4. CASE PublishDone \/ PublishFailed
  <2>1. /\ outcomes' = [outcomes EXCEPT ![TaskId] = @ + 1]
        /\ Working /\ pc' \in {"doneSent", "commit"} /\ msg' = msg
        /\ UNCHANGED <<deliveries, belied, commits>>
    BY <1>4 DEF PublishDone, PublishFailed, Publish, Goto, Rest, Executing, TryPoints, ExceptPoints
  <2>2. ASSUME NEW task \in Tasks
        PROVE  /\ commits'[task] <= outcomes'[task]
               /\ outcomes'[task] <= deliveries'[task] + belied'[task]
               /\ msg.task = task => commits'[task] < outcomes'[task] /\ deliveries'[task] > 0
    <3>0. /\ commits[task] \in Nat /\ outcomes[task] \in Nat
          /\ deliveries[task] \in Nat /\ belied[task] \in Nat
      BY <1>0 DEF CountTypes
    <3>1. CASE msg.task = task
      <4>1. outcomes'[task] = outcomes[task] + 1
        BY <1>0, <2>1, <3>1 DEF CountTypes, TaskId
      <4> QED BY <2>1, <3>0, <3>1, <4>1
    <3>2. CASE msg.task # task
      <4>1. outcomes'[task] = outcomes[task]
        BY <1>0, <2>1, <3>2 DEF CountTypes, TaskId
      <4> QED BY <2>1, <3>0, <3>2, <4>1
    <3> QED BY <3>1, <3>2
  <2>3. ~Working'
    BY <2>1 DEF Executing, TryPoints, ExceptPoints
  <2> QED BY <2>1, <2>2, <2>3
<1>5. CASE TryRaises
  <2>1. /\ UNCHANGED <<msg, deliveries, outcomes, commits>> /\ Executing
        /\ pc' \in {"xReleaseRead", "xPg"}
        /\ belied' = IF pc = "doneSent" THEN [belied EXCEPT ![TaskId] = @ + 1] ELSE belied
    BY <1>5 DEF TryRaises, HandleFailure, Rest, Executing
  <2>2. ASSUME NEW task \in Tasks
        PROVE  /\ commits'[task] <= outcomes'[task]
               /\ outcomes'[task] <= deliveries'[task] + belied'[task]
               /\ msg.task = task => /\ outcomes'[task] < deliveries'[task] + belied'[task]
                                     /\ deliveries'[task] > 0
    <3>0. /\ commits[task] \in Nat /\ outcomes[task] \in Nat
          /\ deliveries[task] \in Nat /\ belied[task] \in Nat
      BY <1>0 DEF CountTypes
    <3>1. belied'[task] = IF pc = "doneSent" /\ msg.task = task THEN belied[task] + 1 ELSE belied[task]
      BY <1>0, <2>1 DEF CountTypes, TaskId
    <3> QED BY <2>1, <3>0, <3>1
  <2> QED BY <2>1, <2>2
<1>6. CASE Continues
  <2>1. ASSUME pc \in UnavailablePoints PROVE msg.task \notin Tasks
    BY <1>0, <2>1, NullAssumption DEF HandlerInv
  <2>2. UNCHANGED <<msg, deliveries, outcomes, belied, commits>>
    BY <1>6 DEF Continues, counts
  <2>3. CASE Working /\ Working'
    BY <2>2, <2>3 DEF Executing, TryPoints, ExceptPoints
  <2>4. CASE pc \in UnavailablePoints /\ pc' \in UnavailablePoints \cup {"commit"}
    BY <2>1, <2>2, <2>4 DEF Executing, TryPoints, ExceptPoints, UnavailablePoints
  <2>5. CASE pc = "doneSent" /\ pc' = "commit"
    BY <2>2, <2>5 DEF Executing, TryPoints, ExceptPoints
  <2>6. CASE pc' = pc
    BY <2>2, <2>6 DEF Executing
  <2> QED BY <1>6, <2>3, <2>4, <2>5, <2>6 DEF Continues
<1>7. CASE UNCHANGED vars
  BY <1>7 DEF vars, handler, history, counts, Executing
<1> QED BY <1>1, <1>2, <1>3, <1>4, <1>5, <1>6, <1>7, Continuing

(* No dispatch is acknowledged without an outcome, and no delivery has two *)
(* but for an execution.done that was out although its publish() raised.   *)
THEOREM OutcomeBeforeCommit == Spec => []OutcomePerDispatch
<1>1. Init => CountInv
  BY DEF Init, CountInv, Working, Executing, TryPoints, ExceptPoints
<1>2. CountInv => OutcomePerDispatch
  BY DEF CountInv, OutcomePerDispatch
<1>3. Types /\ CountInv /\ [Next]_vars => CountInv'
  BY CountStep
<1> QED BY <1>1, <1>2, <1>3, TypesInit, TypesStep, PTL DEF Spec

(***************************************************************************)
(* Reservations.                                                           *)
(***************************************************************************)
BeforeReserve == {"zrem", "readNode", "reserve"}
Held == {"sadd", "pgRunning", "hashRunning", "poll", "releaseRead", "releaseWrite",
         "xReleaseRead", "xReleaseWrite"}
AfterRelease == {"srem", "pgDone", "hashDone", "publishDone", "doneSent"}

(* The flag says whether the executor holds a reservation, in the handler's *)
(* own order; what was read to be written back is what the node still says, *)
(* as no other step writes a node's load; and the loads add up.            *)
ResInv ==
    /\ pc \in {"idle"} \cup BeforeReserve \cup AfterRelease => reserved = FALSE
    /\ pc \in Held => reserved = TRUE
    /\ pc \in {"reserve", "releaseWrite", "xReleaseWrite"} /\ NodeId \notin expired =>
           seen = used[NodeId]
    /\ \A node \in Nodes \ expired :
           used[node] = IF pc \in Held /\ NodeId = node THEN leaked[node] + 1 ELSE leaked[node]

LEMMA HoldingIsHeld == ResInv => (Holding <=> pc \in Held)
<1> SUFFICES ASSUME ResInv PROVE Holding <=> pc \in Held
  OBVIOUS
<1>1. CASE pc \in Held
  <2>1. reserved = TRUE
    BY <1>1 DEF ResInv
  <2>2. pc \in TryPoints \cup {"xReleaseRead", "xReleaseWrite"}
    BY <1>1 DEF Held, TryPoints
  <2> QED BY <1>1, <2>1, <2>2 DEF Holding
<1>2. CASE pc \in BeforeReserve \cup AfterRelease
  <2>1. reserved = FALSE
    BY <1>2 DEF ResInv
  <2>2. pc \notin Held
    BY <1>2 DEF BeforeReserve, AfterRelease, Held
  <2> QED BY <2>1, <2>2 DEF Holding
<1>3. CASE pc \notin Held \cup BeforeReserve \cup AfterRelease
  <2>1. pc \notin TryPoints \cup {"xReleaseRead", "xReleaseWrite"}
    BY <1>3 DEF BeforeReserve, AfterRelease, Held, TryPoints
  <2> QED BY <1>3, <2>1 DEF Holding
<1> QED BY <1>1, <1>2, <1>3

(* A step that moves within one phase and writes neither loads nor flag.   *)
LEMMA ResKept ==
    ASSUME ResInv, UNCHANGED <<msg, reserved, used, expired, leaked>>,
           \/ pc' = pc /\ seen' = seen
           \/ /\ \/ pc \in BeforeReserve /\ pc' \in BeforeReserve
                 \/ pc \in Held /\ pc' \in Held
                 \/ pc \in AfterRelease /\ pc' \in AfterRelease
                 \/ pc \notin Held /\ pc' \notin {"idle"} \cup BeforeReserve \cup Held \cup AfterRelease
              /\ pc' \in {"reserve", "releaseWrite", "xReleaseWrite"} => seen' = used[NodeId]
    PROVE  ResInv'
<1>1. NodeId' = NodeId
  BY DEF NodeId
<1>2. CASE pc' = pc /\ seen' = seen
  BY <1>1, <1>2 DEF ResInv
<1>3. CASE pc' # pc \/ seen' # seen
  <2>1. /\ pc' \in {"reserve", "releaseWrite", "xReleaseWrite"} => seen' = used[NodeId]
        /\ pc \in Held <=> pc' \in Held
    BY <1>3 DEF BeforeReserve, Held, AfterRelease
  <2>2. pc' \in {"idle"} \cup BeforeReserve \cup AfterRelease => reserved' = FALSE
    BY <1>3 DEF ResInv, BeforeReserve, Held, AfterRelease
  <2>3. pc' \in Held => reserved' = TRUE
    BY <2>1 DEF ResInv
  <2>4. \A node \in Nodes \ expired' :
           used'[node] = IF pc' \in Held /\ NodeId' = node THEN leaked'[node] + 1 ELSE leaked'[node]
    BY <1>1, <2>1 DEF ResInv
  <2> QED BY <1>1, <2>1, <2>2, <2>3, <2>4 DEF ResInv
<1> QED BY <1>2, <1>3

LEMMA ResStep ==
    ASSUME Types, ResInv, [Next]_vars
    PROVE  ResInv'
<1> USE DEF Goto
<1>0. /\ NodeTypes /\ HandlerTypes /\ HandlerInv
      /\ Executing => NodeId \in Nodes
  BY TypesSplit DEF Types, HandlerInv, NodeId, Messages, Executing, TryPoints, ExceptPoints
<1>a. Held \subseteq TryPoints \cup ExceptPoints
  BY DEF Held, TryPoints, ExceptPoints
<1>1. ASSUME NEW m \in Messages, Receive(m) PROVE ResInv'
  <2>1. /\ pc = "idle" /\ pc' \in {"members", "zrem"}
        /\ UNCHANGED <<used, expired, leaked, reserved>>
    BY <1>1 DEF Receive, nodeState
  <2>2. reserved' = FALSE
    BY <2>1 DEF ResInv
  <2>3. pc \notin Held /\ pc' \notin Held /\ pc' \notin {"reserve", "releaseWrite", "xReleaseWrite"}
    BY <2>1 DEF Held
  <2> QED BY <2>1, <2>2, <2>3 DEF ResInv
<1>2. CASE Commit
  <2>1. /\ pc = "commit" /\ pc' = "idle" /\ reserved' = FALSE
        /\ UNCHANGED <<used, expired, leaked>>
    BY <1>2 DEF Commit, Finish, nodeState
  <2>2. pc \notin Held /\ pc' \notin Held /\ pc' \notin {"reserve", "releaseWrite", "xReleaseWrite"}
    BY <2>1 DEF Held
  <2> QED BY <2>1, <2>2 DEF ResInv
<1>3. CASE Abandon
  <2>1. /\ pc' = "idle" /\ reserved' = FALSE /\ UNCHANGED <<used, expired>>
        /\ leaked' = IF Holding THEN [leaked EXCEPT ![NodeId] = @ + 1] ELSE leaked
    BY <1>3 DEF Abandon, Finish, Leak, nodeState
  <2>2. pc' \notin Held /\ pc' \notin {"reserve", "releaseWrite", "xReleaseWrite"}
    BY <2>1 DEF Held
  <2>3. ASSUME NEW node \in Nodes \ expired PROVE used[node] = leaked'[node]
    <3>1. CASE pc \in Held /\ NodeId = node
      BY <1>0, <2>1, <3>1, HoldingIsHeld DEF ResInv, NodeTypes
    <3>2. CASE ~(pc \in Held /\ NodeId = node)
      <4>1. leaked'[node] = leaked[node]
        BY <1>0, <2>1, <3>2, HoldingIsHeld DEF NodeTypes
      <4> QED BY <3>2, <4>1 DEF ResInv
    <3> QED BY <3>1, <3>2
  <2> QED BY <2>1, <2>2, <2>3 DEF ResInv
<1>4. CASE Reserve
  <2>1. /\ pc = "reserve" /\ pc' = "sadd" /\ reserved' = TRUE /\ msg' = msg
        /\ used' = [used EXCEPT ![NodeId] = seen + 1] /\ UNCHANGED <<expired, leaked>>
    BY <1>4 DEF Reserve, history
  <2>2. NodeId \in Nodes /\ pc' \in Held /\ pc \notin Held /\ NodeId' = NodeId
    BY <1>0, <2>1 DEF Held, Executing, TryPoints, NodeId
  <2>3. ASSUME NEW node \in Nodes \ expired
        PROVE  used'[node] = IF NodeId = node THEN leaked[node] + 1 ELSE leaked[node]
    <3>1. CASE NodeId = node
      BY <1>0, <2>1, <2>2, <3>1 DEF ResInv, NodeTypes
    <3>2. CASE NodeId # node
      BY <1>0, <2>1, <2>2, <3>2 DEF ResInv, NodeTypes
    <3> QED BY <3>1, <3>2
  <2>4. pc' \notin {"idle"} \cup BeforeReserve \cup AfterRelease \cup {"reserve", "releaseWrite", "xReleaseWrite"}
    BY <2>1 DEF BeforeReserve, AfterRelease
  <2> QED BY <2>1, <2>2, <2>3, <2>4 DEF ResInv
<1>5. CASE ReleaseDone \/ ReleaseFailed
  <2>1. /\ \/ pc = "releaseWrite" /\ pc' = "srem" /\ reserved' = FALSE
           \/ pc = "xReleaseWrite" /\ pc' = "xSrem"
        /\ msg' = msg
        /\ used' = [used EXCEPT ![NodeId] = IF seen > 0 THEN seen - 1 ELSE 0]
        /\ UNCHANGED <<expired, leaked>>
    BY <1>5 DEF ReleaseDone, ReleaseFailed, Release, history
  <2>2. NodeId \in Nodes /\ pc \in Held /\ pc' \notin Held /\ NodeId' = NodeId
    BY <1>0, <2>1 DEF Held, Executing, TryPoints, ExceptPoints, NodeId
  <2>3. ASSUME NEW node \in Nodes \ expired PROVE used'[node] = leaked[node]
    <3>1. CASE NodeId = node
      <4>1. seen = used[node] /\ used[node] = leaked[node] + 1 /\ leaked[node] \in Nat
        BY <1>0, <2>1, <2>2, <3>1 DEF ResInv, NodeTypes
      <4>2. seen > 0 /\ seen - 1 = leaked[node]
        BY <4>1
      <4>3. used'[node] = seen - 1
        BY <1>0, <2>1, <3>1, <4>2 DEF NodeTypes
      <4> QED BY <4>2, <4>3
    <3>2. CASE NodeId # node
      <4>1. used'[node] = used[node]
        BY <1>0, <2>1, <3>2 DEF NodeTypes
      <4> QED BY <3>2, <4>1 DEF ResInv
    <3> QED BY <3>1, <3>2
  <2>4. /\ pc' \notin {"reserve", "releaseWrite", "xReleaseWrite"}
        /\ pc' \in {"idle"} \cup BeforeReserve \cup AfterRelease => reserved' = FALSE
    BY <2>1 DEF BeforeReserve, AfterRelease
  <2> QED BY <2>1, <2>2, <2>3, <2>4 DEF ResInv
<1>6. ASSUME NEW node \in Nodes, NodeKeyExpires(node) PROVE ResInv'
  <2>1. /\ expired' = expired \cup {node} /\ used' = [used EXCEPT ![node] = 0]
        /\ UNCHANGED <<msg, pc, reserved, seen, leaked>>
    BY <1>6 DEF NodeKeyExpires, handler, history
  <2>2. NodeId' = NodeId
    BY <2>1 DEF NodeId
  <2>3. ASSUME NEW n \in Nodes \ expired' PROVE used'[n] = used[n] /\ n \in Nodes \ expired
    BY <1>0, <2>1 DEF NodeTypes
  <2>4. ASSUME pc \in {"reserve", "releaseWrite", "xReleaseWrite"}, NodeId \notin expired'
        PROVE  seen = used'[NodeId]
    <3>1. NodeId \in Nodes /\ NodeId \notin expired
      BY <1>0, <2>1, <2>4 DEF Executing, TryPoints, ExceptPoints
    <3>2. used'[NodeId] = used[NodeId]
      BY <2>3, <2>4, <3>1
    <3> QED BY <2>4, <3>1, <3>2 DEF ResInv
  <2> QED BY <2>1, <2>2, <2>3, <2>4 DEF ResInv
<1> DEFINE Kept == /\ UNCHANGED <<msg, reserved, used, expired, leaked>>
                   /\ \/ pc' = pc /\ seen' = seen
                      \/ /\ \/ pc \in BeforeReserve /\ pc' \in BeforeReserve
                            \/ pc \in Held /\ pc' \in Held
                            \/ pc \in AfterRelease /\ pc' \in AfterRelease
                            \/ pc \notin Held /\ pc' \notin {"idle"} \cup BeforeReserve \cup Held \cup AfterRelease
                         /\ pc' \in {"reserve", "releaseWrite", "xReleaseWrite"} => seen' = used[NodeId]
<1>7. ASSUME Kept PROVE ResInv'
  BY <1>7, ResKept
<1> HIDE DEF Kept
<1>8. ASSUME HandleFailure
      PROVE  \/ pc' = "xReleaseRead" /\ reserved
             \/ pc' = "xPg" /\ ~reserved
  BY <1>8 DEF HandleFailure
<1>9. CASE RemoveFromWaiting \/ AddRunning \/ RecordRunning \/ ReadBeforeRelease
  BY <1>7, <1>9 DEF Kept, RemoveFromWaiting, AddRunning, RecordRunning, ReadBeforeRelease, Rest, nodeState,
     history, BeforeReserve, Held, AfterRelease
<1>10. CASE ReadNode
  <2>1. /\ pc = "readNode" /\ UNCHANGED <<msg, reserved, used, expired, leaked>>
        /\ \/ HandleFailure
           \/ pc' = "reserve" /\ seen' = used[NodeId]
    BY <1>10 DEF ReadNode, nodeState, history
  <2>2. ~reserved
    BY <2>1 DEF ResInv, BeforeReserve
  <2> QED BY <1>7, <1>8, <2>1, <2>2 DEF Kept, BeforeReserve, Held, AfterRelease
<1>11. CASE Poll
  <2>1. /\ pc = "poll" /\ UNCHANGED <<msg, reserved, used, expired, leaked>>
        /\ HandleFailure \/ pc' = "releaseRead"
    BY <1>11 DEF Poll, Rest, nodeState, history
  <2>2. reserved
    BY <2>1 DEF ResInv, Held
  <2> QED BY <1>7, <1>8, <2>1, <2>2 DEF Kept, BeforeReserve, Held, AfterRelease
<1>12. CASE TryRaises
  <2>1. /\ pc \in TryPoints /\ UNCHANGED <<msg, reserved, used, expired, leaked>> /\ HandleFailure
    BY <1>12 DEF TryRaises, Rest, nodeState, history
  <2>2. CASE pc \in Held
    <3>1. reserved
      BY <2>2 DEF ResInv
    <3> QED BY <1>7, <1>8, <2>1, <2>2, <3>1 DEF Kept, Held
  <2>3. CASE pc \notin Held
    <3>1. pc \in BeforeReserve \cup AfterRelease
      BY <2>1, <2>3 DEF TryPoints, BeforeReserve, AfterRelease, Held
    <3>2. ~reserved
      BY <3>1 DEF ResInv
    <3> QED BY <1>7, <1>8, <2>1, <2>3, <3>2 DEF Kept, BeforeReserve, AfterRelease, Held
  <2> QED BY <2>2, <2>3
<1>13. CASE RemoveRunning \/ RecordDone \/ PublishDone \/ Published
  BY <1>7, <1>13 DEF Kept, RemoveRunning, RecordDone, RecordStatus, PublishDone, Published, Publish, Rest,
     nodeState, history, BeforeReserve, Held, AfterRelease
<1>14. CASE RecordFailed \/ PublishFailed
  BY <1>7, <1>14 DEF Kept, RecordFailed, RecordStatus, PublishFailed, Publish, Rest,
     nodeState, history, BeforeReserve, Held, AfterRelease
<1>15. CASE ReadMembers \/ NextMember \/ FailMember \/ PublishMember \/ ForgetMembers
  BY <1>7, <1>15 DEF Kept, ReadMembers, NextMember, FailMember, RecordStatus, PublishMember,
     ForgetMembers, Rest, nodeState, history, BeforeReserve, Held, AfterRelease
<1>16. CASE FailRows \/ ReadTask \/ MarkFailed \/ MarkClassified \/ PublishUnavailable \/ RequestDies
  BY <1>7, <1>16 DEF Kept, FailRows, ReadTask, MarkFailed, MarkClassified, Overwrite,
     PublishUnavailable, RequestDies, handler, nodeState, history
<1>17. CASE Beyond
  BY <1>7, <1>17, BeyondKeeps DEF Kept, handler, nodeState
<1>18. ASSUME NEW node \in Nodes, FailNode(node) PROVE Kept
  BY <1>18 DEF Kept, FailNode, handler, history
<1>19. CASE UNCHANGED vars
  BY <1>7, <1>19 DEF Kept, vars, handler, nodeState, history
<1> QED BY <1>1, <1>2, <1>3, <1>4, <1>5, <1>6, <1>7, <1>9, <1>10, <1>11, <1>12, <1>13, <1>14, <1>15,
           <1>16, <1>17, <1>18, <1>19, Steps

(* A node's load is what runs there and what dead executions left behind.  *)
THEOREM ReservationsAddUp == Spec => []ReservationsAccounted
<1>1. Init => ResInv
  BY DEF Init, ResInv, BeforeReserve, Held, AfterRelease
<1>2. Types /\ ResInv => ReservationsAccounted
  <2> SUFFICES ASSUME Types, ResInv, NEW node \in Nodes \ expired
               PROVE  used[node] = leaked[node] + (IF Holding /\ NodeId = node THEN 1 ELSE 0)
    BY DEF ReservationsAccounted
  <2>1. leaked[node] \in Nat
    BY DEF Types, TypeOK
  <2>2. used[node] = IF Holding /\ NodeId = node THEN leaked[node] + 1 ELSE leaked[node]
    BY HoldingIsHeld DEF ResInv
  <2> QED BY <2>1, <2>2
<1>3. Types /\ ResInv /\ [Next]_vars => ResInv'
  BY ResStep
<1> QED BY <1>1, <1>2, <1>3, TypesInit, TypesStep, PTL DEF Spec

(***************************************************************************)
(* While nothing fails.                                                    *)
(***************************************************************************)
InRunningSet == {"pgRunning", "hashRunning", "poll", "releaseRead", "releaseWrite", "srem",
                 "xReleaseRead", "xReleaseWrite", "xSrem"}
FailingMember == {"uPg", "uHash", "uPublish"}

(* The running sets name the task under way and no other, so a node that   *)
(* becomes unavailable finds no member to fail: the executor handles one   *)
(* message at a time.                                                      *)
LiveInv ==
    /\ \A node \in Nodes : \A task \in running[node] :
           msg = [task |-> task, node |-> node] /\ pc \in InRunningSet
    /\ pc = "next" => todo = {}
    /\ pc \notin FailingMember

AfterRow == {"hashDone", "publishDone", "doneSent"}

(* A row says done only after a delivery, and while that delivery is the   *)
(* only one, its handler has nothing left but to say so.                   *)
DoneInv ==
    \A task \in Tasks :
        pg[task].status = "done" =>
            /\ deliveries[task] > 0
            /\ deliveries[task] = 1 /\ Executing /\ msg.task = task => pc \in AfterRow

CalmInv == budget.faults <= MaxFaults /\ (Faulty \/ (LiveInv /\ DoneInv))

(* A fault shows in the budget; nothing gives the budget back.             *)
LEMMA Faults ==
    ASSUME Types, CalmInv, [Next]_vars
    PROVE  /\ budget'.faults <= MaxFaults
           /\ Faulty => Faulty'
           /\ Abandon \/ TryRaises \/ RequestDies => Faulty'
<1>0. budget \in [Kinds -> Nat] /\ MaxFaults \in Nat
  BY BoundsAssumption DEF Types, TypeOK, Kinds
<1> DEFINE Goal == budget'.faults <= MaxFaults /\ (Faulty => Faulty')
<1>1. ASSUME NEW kind \in {"dispatches", "duplicates", "requests", "failures"}, Spend(kind) PROVE Goal
  <2>1. budget' = [budget EXCEPT ![kind] = @ - 1]
    BY <1>1 DEF Spend
  <2>2. budget'.faults = budget.faults
    BY <1>0, <2>1 DEF Kinds
  <2> QED BY <1>0, <2>2 DEF CalmInv, Faulty
<1>2. ASSUME Fault PROVE Goal /\ Faulty'
  <2>1. budget.faults > 0 /\ budget' = [budget EXCEPT !.faults = @ - 1]
    BY <1>2 DEF Fault, Spend
  <2>2. budget'.faults = budget.faults - 1
    BY <1>0, <2>1 DEF Kinds
  <2> QED BY <1>0, <2>1, <2>2 DEF CalmInv, Faulty, Kinds
<1>3. Abandon \/ TryRaises \/ RequestDies => Goal /\ Faulty'
  BY <1>2 DEF Abandon, TryRaises, RequestDies
<1> SUFFICES Goal
  BY <1>3
<1> HIDE DEF Goal
<1>4. ASSUME budget' = budget PROVE Goal
  BY <1>0, <1>4 DEF Goal, CalmInv, Faulty
<1>5. CASE Beyond
  BY <1>1, <1>2, <1>4, <1>5, BeyondKeeps
<1>6. CASE \E node \in Nodes : NodeKeyExpires(node) \/ FailNode(node)
  BY <1>1, <1>4, <1>6 DEF NodeKeyExpires, FailNode
<1>7. CASE \E m \in Messages : Receive(m)
  BY <1>4, <1>7 DEF Receive
<1>8. CASE Commit \/ RemoveFromWaiting \/ ReadNode \/ Reserve \/ AddRunning \/ RecordRunning \/ Poll
  BY <1>4, <1>8 DEF Commit, RemoveFromWaiting, ReadNode, Reserve, AddRunning, RecordRunning, Poll
<1>9. CASE ReadBeforeRelease \/ ReleaseDone \/ RemoveRunning \/ RecordDone \/ PublishDone \/ Published
  BY <1>4, <1>9 DEF ReadBeforeRelease, ReleaseDone, Release, RemoveRunning, RecordDone,
     RecordStatus, PublishDone, Published, Publish
<1>10. CASE ReleaseFailed \/ RecordFailed \/ PublishFailed \/ ReadMembers \/ NextMember
  BY <1>4, <1>10 DEF ReleaseFailed, Release, RecordFailed, RecordStatus, PublishFailed, Publish,
     ReadMembers, NextMember
<1>11. CASE FailMember \/ PublishMember \/ ForgetMembers \/ FailRows \/ ReadTask \/ MarkFailed
  BY <1>4, <1>11 DEF FailMember, RecordStatus, PublishMember, ForgetMembers, FailRows, ReadTask,
     MarkFailed, Overwrite
<1>12. CASE MarkClassified \/ PublishUnavailable
  BY <1>4, <1>12 DEF MarkClassified, Overwrite, PublishUnavailable
<1>13. CASE UNCHANGED vars
  BY <1>4, <1>13 DEF vars
<1> QED BY <1>3, <1>5, <1>6, <1>7, <1>8, <1>9, <1>10, <1>11, <1>12, <1>13, Steps

(* A step that leaves the running sets and the message alone and keeps the *)
(* executor on the same side of its SREM.                                  *)
LEMMA LiveKept ==
    ASSUME LiveInv, UNCHANGED <<running, msg>>,
           \/ pc' = pc /\ todo' = todo
           \/ /\ pc \in InRunningSet => pc' \in InRunningSet
              /\ pc' \notin FailingMember \cup {"next"}
    PROVE  LiveInv'
  BY DEF LiveInv, InRunningSet, FailingMember

LEMMA LiveStep ==
    ASSUME Types, ResInv, LiveInv, Next, ~Abandon, ~TryRaises, ~RequestDies
    PROVE  LiveInv'
<1> USE DEF Goto
<1>0. NodeTypes /\ HandlerInv /\ HandlerTypes
  BY TypesSplit DEF Types
<1>1. ASSUME NEW m \in Messages, Receive(m) PROVE LiveInv'
  <2>1. /\ pc = "idle" /\ running' = running /\ pc' \in {"members", "zrem"}
    BY <1>1 DEF Receive, nodeState
  <2>2. \A node \in Nodes : running[node] = {}
    BY <1>0, <2>1 DEF LiveInv, InRunningSet, NodeTypes
  <2> QED BY <2>1, <2>2 DEF LiveInv, FailingMember
<1>2. CASE Commit
  <2>1. pc = "commit" /\ running' = running /\ pc' = "idle"
    BY <1>2 DEF Commit, Finish, nodeState
  <2>2. \A node \in Nodes : running[node] = {}
    BY <1>0, <2>1 DEF LiveInv, InRunningSet, NodeTypes
  <2> QED BY <2>1, <2>2 DEF LiveInv, FailingMember
<1>3. CASE AddRunning
  <2>1. /\ pc = "sadd" /\ pc' = "pgRunning" /\ msg' = msg
        /\ running' = [running EXCEPT ![NodeId] = @ \cup {TaskId}]
    BY <1>3 DEF AddRunning, Rest
  <2>2. msg \in Messages /\ msg.task = TaskId /\ msg.node = NodeId
    BY <1>0, <2>1 DEF HandlerInv, TaskId, NodeId
  <2>3. msg = [task |-> TaskId, node |-> NodeId]
    BY <2>2 DEF Messages
  <2>4. ASSUME NEW node \in Nodes PROVE running[node] = {}
    BY <1>0, <2>1 DEF LiveInv, InRunningSet, NodeTypes
  <2>5. ASSUME NEW node \in Nodes, NEW task \in running'[node]
        PROVE  task = TaskId /\ node = NodeId
    <3>1. CASE node = NodeId
      BY <1>0, <2>1, <2>4, <2>5, <3>1 DEF NodeTypes
    <3>2. CASE node # NodeId
      BY <1>0, <2>1, <2>4, <2>5, <3>2 DEF NodeTypes
    <3> QED BY <3>1, <3>2
  <2> QED BY <2>1, <2>3, <2>5 DEF LiveInv, InRunningSet, FailingMember
<1>4. CASE RemoveRunning
  <2>1. /\ \/ pc = "srem" /\ pc' = "pgDone"
           \/ pc = "xSrem" /\ pc' = "xPg"
        /\ running' = [running EXCEPT ![NodeId] = @ \ {TaskId}]
    BY <1>4 DEF RemoveRunning
  <2>2. ASSUME NEW node \in Nodes, NEW task \in running'[node] PROVE FALSE
    <3>1. task \in running[node]
      BY <1>0, <2>1, <2>2 DEF NodeTypes
    <3>2. msg = [task |-> task, node |-> node]
      BY <3>1 DEF LiveInv
    <3>3. TaskId = task /\ NodeId = node
      BY <3>2 DEF TaskId, NodeId
    <3> QED BY <1>0, <2>1, <2>2, <3>3 DEF NodeTypes
  <2> QED BY <2>1, <2>2 DEF LiveInv, FailingMember
<1>5. CASE ForgetMembers
  <2>1. pc = "del" /\ pc' = "commit" /\ running' = [running EXCEPT ![NodeId] = {}]
    BY <1>5 DEF ForgetMembers
  <2>2. ASSUME NEW node \in Nodes PROVE running'[node] = {}
    BY <1>0, <2>1 DEF LiveInv, InRunningSet, NodeTypes
  <2> QED BY <2>1, <2>2 DEF LiveInv, FailingMember
<1>6. CASE ReadMembers
  <2>1. pc = "members" /\ pc' = "next" /\ running' = running /\ todo' = running[NodeId]
    BY <1>6 DEF ReadMembers, nodeState
  <2>2. \A node \in Nodes : running[node] = {}
    BY <1>0, <2>1 DEF LiveInv, InRunningSet, NodeTypes
  <2>3. NodeId \in Nodes
    BY <1>0, <2>1 DEF HandlerInv, Messages, NodeId
  <2> QED BY <2>1, <2>2, <2>3 DEF LiveInv, FailingMember
<1>7. CASE NextMember
  <2>1. pc = "next" /\ pc' = "del" /\ running' = running /\ msg' = msg
    BY <1>7 DEF NextMember, nodeState, LiveInv
  <2> QED BY <2>1, LiveKept DEF InRunningSet, FailingMember
<1>8. CASE FailMember \/ PublishMember
  BY <1>8 DEF FailMember, RecordStatus, PublishMember, LiveInv, FailingMember
<1>9. ASSUME HandleFailure
      PROVE  \/ pc' = "xReleaseRead" /\ reserved
             \/ pc' = "xPg" /\ ~reserved
  BY <1>9 DEF HandleFailure
<1>10. CASE ReadNode
  <2>1. /\ pc = "readNode" /\ UNCHANGED <<running, msg>>
        /\ \/ HandleFailure
           \/ pc' = "reserve"
    BY <1>10 DEF ReadNode, nodeState
  <2> QED BY <1>9, <2>1, LiveKept DEF InRunningSet, FailingMember
<1>11. CASE Poll
  <2>1. /\ pc = "poll" /\ UNCHANGED <<running, msg>>
        /\ \/ HandleFailure
           \/ pc' = "releaseRead"
    BY <1>11 DEF Poll, Rest, nodeState
  <2>2. reserved
    BY <2>1 DEF ResInv, Held
  <2> QED BY <1>9, <2>1, <2>2, LiveKept DEF InRunningSet, FailingMember
<1>12. CASE RemoveFromWaiting \/ Reserve \/ RecordRunning \/ ReadBeforeRelease
  BY <1>12, LiveKept DEF RemoveFromWaiting, Reserve, RecordRunning, ReadBeforeRelease, Rest, nodeState,
     InRunningSet, FailingMember
<1>13. CASE ReleaseDone \/ RecordDone \/ PublishDone \/ Published
  BY <1>13, LiveKept DEF ReleaseDone, Release, RecordDone, RecordStatus, PublishDone, Published, Publish, Rest,
     nodeState, InRunningSet, FailingMember
<1>14. CASE ReleaseFailed \/ RecordFailed \/ PublishFailed
  BY <1>14, LiveKept DEF ReleaseFailed, Release, RecordFailed, RecordStatus, PublishFailed, Publish,
     Rest, nodeState, InRunningSet, FailingMember
<1>15. CASE FailRows \/ ReadTask \/ MarkFailed \/ MarkClassified \/ PublishUnavailable
  BY <1>15, LiveKept DEF FailRows, ReadTask, MarkFailed, MarkClassified, Overwrite,
     PublishUnavailable, handler, nodeState
<1>16. CASE Beyond
  BY <1>16, LiveKept, BeyondKeeps DEF handler, nodeState
<1>17. CASE \E node \in Nodes : NodeKeyExpires(node) \/ FailNode(node)
  BY <1>17, LiveKept DEF NodeKeyExpires, FailNode, handler
<1> QED BY <1>1, <1>2, <1>3, <1>4, <1>5, <1>6, <1>7, <1>8, <1>10, <1>11, <1>12, <1>13, <1>14, <1>15,
           <1>16, <1>17, Steps

(* What no step but those named does: set a row to done or to failed.      *)
LEMMA RowSteps ==
    ASSUME Types, Next, NEW task \in Tasks
    PROVE  /\ pg'[task].status = "done" /\ pg[task].status # "done" =>
                  pc = "pgDone" /\ pc' = "hashDone" /\ msg' = msg /\ TaskId = task
           /\ pg'[task].status = "failed" /\ pg[task].status = "done" =>
                  \/ pc = "xPg" /\ TaskId = task
               \/ pc \in FailingMember
<1> DEFINE Goal ==
        /\ pg'[task].status = "done" /\ pg[task].status # "done" =>
               pc = "pgDone" /\ pc' = "hashDone" /\ msg' = msg /\ TaskId = task
        /\ pg'[task].status = "failed" /\ pg[task].status = "done" =>
               \/ pc = "xPg" /\ TaskId = task
               \/ pc \in FailingMember
<1> SUFFICES Goal
  OBVIOUS
<1> USE DEF Goto
<1>0. pg \in [Tasks -> TaskRecord]
  BY DEF Types, TypeOK
<1>1. ASSUME pg' = pg PROVE Goal
  BY <1>1
<1>2. CASE Beyond
  BY <1>0, <1>1, <1>2, BeyondWrites DEF TaskRecord
<1>3. CASE RecordRunning
  <2>1. \/ pg' = pg
        \/ pg' = [pg EXCEPT ![TaskId] = [status |-> "running", node |-> NodeId]]
    BY <1>3 DEF RecordRunning
  <2> QED BY <1>0, <2>1
<1>4. ASSUME NEW t, NEW status, NEW from, NEW to, NEW hashFrom, NEW hashTo,
             RecordStatus(t, status, from, to, hashFrom, hashTo)
      PROVE  /\ msg' = msg
             /\ \/ pg'[task] = pg[task]
                \/ pc = from /\ pc' = to /\ t = task /\ pg'[task].status = status
  <2>1. msg' = msg /\ \/ pg' = pg
                      \/ pc = from /\ pc' = to /\ pg' = [pg EXCEPT ![t].status = status]
    BY <1>4 DEF RecordStatus, Rest
  <2>2. CASE t = task
    BY <1>0, <2>1, <2>2 DEF TaskRecord
  <2>3. CASE t # task
    BY <1>0, <2>1, <2>3
  <2> QED BY <2>2, <2>3
<1>5. CASE RecordDone
  BY <1>4, <1>5 DEF RecordDone
<1>6. CASE RecordFailed
  BY <1>4, <1>6 DEF RecordFailed
<1>7. CASE FailMember
  BY <1>4, <1>7 DEF FailMember, FailingMember
<1>8. CASE FailRows
  <2>1. pg'[task] = IF OnNode(pg[task]) THEN [pg[task] EXCEPT !.status = "failed"] ELSE pg[task]
    BY <1>8 DEF FailRows
  <2>2. CASE OnNode(pg[task])
    BY <1>0, <2>1, <2>2 DEF OnNode, TaskRecord
  <2>3. CASE ~OnNode(pg[task])
    BY <2>1, <2>3
  <2> QED BY <2>2, <2>3
<1>9. CASE \E m \in Messages : Receive(m)
  BY <1>1, <1>9 DEF Receive, taskState
<1>10. CASE Commit \/ RemoveFromWaiting \/ ReadNode \/ Reserve \/ AddRunning \/ Poll
  BY <1>1, <1>10 DEF Commit, RemoveFromWaiting, ReadNode, Reserve, AddRunning, Poll, taskState
<1>11. CASE ReadBeforeRelease \/ ReleaseDone \/ RemoveRunning \/ PublishDone \/ Published \/ ReleaseFailed
  BY <1>1, <1>11 DEF ReadBeforeRelease, ReleaseDone, Release, RemoveRunning, PublishDone, Published, Publish,
     ReleaseFailed, taskState
<1>12. CASE PublishFailed \/ ReadMembers \/ NextMember \/ PublishMember \/ ForgetMembers
  BY <1>1, <1>12 DEF PublishFailed, Publish, ReadMembers, NextMember, PublishMember, ForgetMembers, taskState
<1>13. CASE ReadTask \/ MarkFailed \/ MarkClassified \/ PublishUnavailable
  BY <1>1, <1>13 DEF ReadTask, MarkFailed, MarkClassified, Overwrite, PublishUnavailable, taskState
<1>14. CASE \E node \in Nodes : NodeKeyExpires(node) \/ FailNode(node)
  BY <1>1, <1>14 DEF NodeKeyExpires, FailNode, taskState
<1>15. CASE Abandon \/ TryRaises \/ RequestDies
  BY <1>1, <1>15 DEF Abandon, TryRaises, RequestDies, taskState
<1> QED BY <1>2, <1>3, <1>5, <1>6, <1>7, <1>8, <1>9, <1>10, <1>11, <1>12, <1>13, <1>14, <1>15, Steps

LEMMA AfterDone ==
    ASSUME Next, ~Abandon, ~TryRaises, pc \in AfterRow, Executing'
    PROVE  pc' \in AfterRow
<1> USE DEF AfterRow, Goto, Executing, TryPoints, ExceptPoints
<1>1. CASE Commit \/ RemoveFromWaiting \/ ReadNode \/ Reserve \/ AddRunning \/ RecordRunning \/ Poll
  BY <1>1 DEF Commit, RemoveFromWaiting, ReadNode, Reserve, AddRunning, RecordRunning, Poll
<1>2. CASE ReadBeforeRelease \/ ReleaseDone \/ RemoveRunning \/ RecordDone \/ PublishDone \/ Published
  BY <1>2 DEF ReadBeforeRelease, ReleaseDone, Release, RemoveRunning, RecordDone, RecordStatus,
     PublishDone, Published, Publish
<1>3. CASE ReleaseFailed \/ RecordFailed \/ PublishFailed \/ ReadMembers \/ NextMember
  BY <1>3 DEF ReleaseFailed, Release, RecordFailed, RecordStatus, PublishFailed, Publish,
     ReadMembers, NextMember
<1>4. CASE FailMember \/ PublishMember \/ ForgetMembers \/ \E m \in Messages : Receive(m)
  BY <1>4 DEF FailMember, RecordStatus, PublishMember, ForgetMembers, Receive
<1>5. CASE FailRows \/ ReadTask \/ MarkFailed \/ MarkClassified \/ PublishUnavailable \/ RequestDies
  BY <1>5 DEF FailRows, ReadTask, MarkFailed, MarkClassified, Overwrite,
     PublishUnavailable, RequestDies, handler
<1>6. CASE Beyond
  BY <1>6, BeyondKeeps DEF handler
<1>7. CASE \E node \in Nodes : NodeKeyExpires(node) \/ FailNode(node)
  BY <1>7 DEF NodeKeyExpires, FailNode, handler
<1> QED BY <1>1, <1>2, <1>3, <1>4, <1>5, <1>6, <1>7, Steps

LEMMA DoneStep ==
    ASSUME Types, CountInv, DoneInv, Next, ~Abandon, ~TryRaises, ~RequestDies
    PROVE  DoneInv'
<1> SUFFICES ASSUME NEW task \in Tasks, pg'[task].status = "done"
             PROVE  /\ deliveries'[task] > 0
                    /\ deliveries'[task] = 1 /\ Executing' /\ msg'.task = task =>
                           pc' \in AfterRow
  BY DEF DoneInv
<1> USE DEF AfterRow, Executing, TryPoints, ExceptPoints
<1>0. CountTypes /\ HandlerInv
  BY TypesSplit DEF Types
<1>1. CASE \E m \in Messages : Receive(m)
  <2>1. PICK m \in Messages : Receive(m)
    BY <1>1
  <2>2. pg[task].status = "done" /\ deliveries[task] > 0 /\ deliveries[task] \in Nat
    BY <1>0, <2>1 DEF Receive, taskState, DoneInv, CountTypes
  <2>3. msg' = m /\ \/ pc' = "members" /\ deliveries' = deliveries
                    \/ pc' = "zrem" /\ deliveries' = [deliveries EXCEPT ![m.task] = @ + 1]
    BY <2>1 DEF Receive
  <2>4. CASE m.task = task
    BY <1>0, <2>2, <2>3, <2>4 DEF CountTypes
  <2>5. CASE m.task # task
    BY <1>0, <2>2, <2>3, <2>5 DEF CountTypes
  <2> QED BY <2>4, <2>5
<1>2. CASE Commit
  BY <1>2 DEF Commit, Finish, taskState, DoneInv
<1>3. CASE PublishDone \/ PublishFailed
  BY <1>3 DEF PublishDone, PublishFailed, Publish, Goto, taskState, DoneInv
<1>4. CASE Continues
  <2>1. UNCHANGED <<msg, deliveries>>
    BY <1>4 DEF Continues, counts
  <2>2. CASE pg[task].status # "done"
    <3>1. pc = "pgDone" /\ pc' = "hashDone" /\ TaskId = task
      BY <2>2, RowSteps
    <3>2. deliveries[task] > 0
      BY <3>1 DEF CountInv, TaskId
    <3> QED BY <2>1, <3>1, <3>2
  <2>3. CASE pg[task].status = "done"
    <3>1. deliveries[task] > 0
      BY <2>3 DEF DoneInv
    <3>2. ASSUME deliveries[task] = 1, Executing', msg.task = task
          PROVE  pc' \in AfterRow
      <4>1. pc \in UnavailablePoints => FALSE
        BY <1>0, <3>2, NullAssumption DEF HandlerInv
      <4>2. Executing \/ pc' = pc
        BY <1>4, <4>1 DEF Continues, Working
      <4>3. pc \in AfterRow
        BY <2>3, <3>2, <4>2 DEF DoneInv
      <4>4. pc' \in AfterRow
        BY <4>3, <3>2, AfterDone
      <4> QED BY <4>4
    <3> QED BY <2>1, <3>1, <3>2
  <2> QED BY <2>2, <2>3
<1> QED BY <1>1, <1>2, <1>3, <1>4, Continuing

Calm == Types /\ CountInv /\ ResInv /\ CalmInv

LEMMA CalmInit == Init => Calm
<1> SUFFICES ASSUME Init PROVE Calm
  OBVIOUS
<1>1. CountInv
  BY DEF Init, CountInv, Working, Executing, TryPoints, ExceptPoints
<1>2. ResInv
  BY DEF Init, ResInv, BeforeReserve, Held, AfterRelease
<1>3. LiveInv
  BY DEF Init, LiveInv, FailingMember
<1>4. DoneInv
  BY DEF Init, DoneInv, Nobody
<1>5. budget.faults <= MaxFaults
  BY BoundsAssumption DEF Init
<1> QED BY <1>1, <1>2, <1>3, <1>4, <1>5, TypesInit DEF Calm, CalmInv

LEMMA CalmStep == Calm /\ [Next]_vars => Calm'
<1> SUFFICES ASSUME Calm, [Next]_vars PROVE Calm'
  OBVIOUS
<1>1. Types' /\ CountInv' /\ ResInv'
  BY TypesStep, CountStep, ResStep DEF Calm
<1>2. /\ budget'.faults <= MaxFaults
      /\ Faulty => Faulty'
      /\ Abandon \/ TryRaises \/ RequestDies => Faulty'
  BY Faults DEF Calm
<1>3. CASE Faulty'
  BY <1>1, <1>2, <1>3 DEF Calm, CalmInv
<1>4. CASE ~Faulty'
  <2>1. LiveInv /\ DoneInv
    BY <1>2, <1>4 DEF Calm, CalmInv
  <2>2. CASE Next
    BY <1>1, <1>2, <1>4, <2>1, <2>2, LiveStep, DoneStep DEF Calm, CalmInv
  <2>3. CASE UNCHANGED vars
    <3>1. UNCHANGED <<running, msg, pc, todo, pg, deliveries>>
      BY <2>3 DEF vars, nodeState, taskState, handler, history, counts
    <3>2. LiveInv' /\ DoneInv'
      BY <2>1, <3>1 DEF LiveInv, DoneInv, Executing
    <3> QED BY <1>1, <1>2, <3>2 DEF Calm, CalmInv
  <2> QED BY <2>2, <2>3
<1> QED BY <1>3, <1>4

(* Without a fault the running sets hold only what runs.                   *)
THEOREM RunningSetsLive == Spec => []RunningIsLive
<1>1. Calm => RunningIsLive
  BY DEF Calm, CalmInv, LiveInv, RunningIsLive, InRunningSet, TryPoints, ExceptPoints
<1> QED BY <1>1, CalmInit, CalmStep, PTL DEF Spec

(* A task done is failed later only after a fault or a second delivery.    *)
THEOREM DoneIsFinal == Spec => DoneStands
<1> DEFINE Stands == \A task \in Tasks :
        pg[task].status = "done" /\ pg'[task].status = "failed" => Faulty' \/ deliveries[task] > 1
<1>1. Calm /\ [Next]_vars => [Stands]_vars
  <2> SUFFICES ASSUME Calm, Next, NEW task \in Tasks,
                      pg[task].status = "done", pg'[task].status = "failed"
               PROVE  Faulty' \/ deliveries[task] > 1
    OBVIOUS
  <2>1. CASE Faulty
    BY <2>1, Faults DEF Calm
  <2>2. CASE ~Faulty
    <3>1. LiveInv /\ DoneInv /\ Types /\ deliveries[task] \in Nat
      BY <2>2 DEF Calm, CalmInv, Types, TypeOK
    <3>2. pc = "xPg" /\ TaskId = task
      BY <3>1, RowSteps DEF LiveInv
    <3>3. deliveries[task] > 0 /\ deliveries[task] # 1
      BY <3>1, <3>2 DEF DoneInv, AfterRow, Executing, ExceptPoints, TaskId
    <3> QED BY <3>1, <3>3
  <2> QED BY <2>1, <2>2
<1> QED BY <1>1, CalmInit, CalmStep, PTL DEF Spec, DoneStands

(***************************************************************************)
(* The two stores and the last event of each task, whatever fails.         *)
(***************************************************************************)
(* A dispatch of the task waits in the queue, or is being executed.        *)
Going(task) == \E node \in Nodes : inbox[[task |-> task, node |-> node]] > 0
Current(task) == Working /\ msg.task = task

(* The task is in the running set of a node whose failure waits in the     *)
(* queue, or is still to be failed by the loop that handles one.           *)
Failing(node) == pc \in UnavailablePoints /\ msg.node = node

Doomed(task) ==
    \E node \in Nodes : /\ task \in running[node] /\ ~Failing(node)
                        /\ inbox[[task |-> NoTask, node |-> node]] > 0

Listed(task) ==
    \/ pc = "members" /\ task \in running[NodeId]
    \/ pc \in {"next"} \cup FailingMember /\ task \in todo
    \/ pc \in FailingMember /\ task = cur

(* The row is as an event says, or something else was recorded since, which*)
(* is still to be published or never will be.                              *)
OnRecord(task, status) ==
    pg[task].status = status \/ task \in unfinished \/ attempt[task].at # "none"

(* The stores agree, or whoever is between the two will make them.         *)
Consistent(task) ==
    \/ pg[task].status = hash[task].status
    \/ task \in overwritten \cup torn \cup enqueued
    \/ attempt[task].at = "hash"

(* What the one who is between the two wrote first is still there.         *)
PairInv(task) ==
    /\ task \in enqueued => hash[task].status = "classified" \/ task \in overwritten \cup torn
    /\ attempt[task].at = "hash" => pg[task].status = "dispatched" \/ task \in torn

Settled(task) ==
    /\ last[task] # "none" => OnRecord(task, last[task])
    /\ Consistent(task) /\ PairInv(task)

(* What was on its way for the task was dead-lettered.                     *)
GivenUp(task) == task \in torn /\ task \in unfinished

(* Two writes and an event: the row, the hash, then the event.             *)
Recorded(task, status, publishAt) ==
    /\ pg[task].status # "running" /\ OnRecord(task, status) /\ PairInv(task)
    /\ pc # publishAt => pg[task].status = status \/ task \in torn
    /\ pc = publishAt => Consistent(task)

RecordInv(task) ==
    \/ Going(task)
    \/ /\ pc \in {"hashDone", "publishDone"} /\ msg.task = task => Recorded(task, "done", "publishDone")
       /\ pc \in {"xHash", "xPublish"} /\ msg.task = task => Recorded(task, "failed", "xPublish")
       /\ pc \in {"uHash", "uPublish"} /\ cur = task => Recorded(task, "failed", "uPublish")

StoreInv(task) ==
    /\ Settled(task) \/ Going(task) \/ Current(task) \/ Doomed(task) \/ Listed(task)
    /\ pg[task].status = "running" => Going(task) \/ Current(task) \/ GivenUp(task)
    /\ RecordInv(task)

(* The loop handles members of the set, which nobody else changes.         *)
LoopInv ==
    /\ pc \in {"next"} \cup FailingMember => todo \subseteq running[NodeId]
    /\ pc \in FailingMember => cur \in running[NodeId]

Stores == LoopInv /\ \A task \in Tasks : StoreInv(task)

(* All that is written down about the tasks.                               *)
Written == <<pg, hash, last, attempt, enqueued, overwritten, torn, unfinished>>

LEMMA StoresInit == Init => Stores
<1> SUFFICES ASSUME Init PROVE Stores
  OBVIOUS
<1>1. LoopInv
  BY DEF Init, LoopInv, FailingMember
<1>2. ASSUME NEW task \in Tasks PROVE StoreInv(task)
  <2>1. /\ pg[task].status = "classified" /\ hash[task].status = "classified"
        /\ last[task] = "none" /\ attempt[task].at = "none" /\ enqueued = {} /\ pc = "idle"
    BY DEF Init, Nobody, NoAttempt
  <2> QED BY <2>1 DEF StoreInv, Settled, Consistent, PairInv, RecordInv
<1> QED BY <1>1, <1>2 DEF Stores

(* The points of the handler, one of which it is at.                       *)
LEMMA Points ==
    /\ pc \in {"members", "next", "del", "idle", "commit", "doneSent"} \cup FailingMember => ~Working
    /\ Executing => pc \notin UnavailablePoints
    /\ Working => Executing
    /\ {"members", "next", "del"} \cup FailingMember = UnavailablePoints
  BY DEF Working, Executing, TryPoints, ExceptPoints, UnavailablePoints, FailingMember

LEMMA MessageOf ==
    /\ \A task \in Tasks \cup {NoTask}, node \in Nodes : [task |-> task, node |-> node] \in Messages
    /\ \A m \in Messages : m = [task |-> m.task, node |-> m.node] /\ m.node \in Nodes
  BY DEF Messages

LEMMA InboxGrows ==
    ASSUME MessageTypes, NEW m, inbox' = [inbox EXCEPT ![m] = @ + 1]
    PROVE  /\ \A k \in Messages : inbox[k] > 0 => inbox'[k] > 0
           /\ m \in Messages => inbox'[m] > 0
  BY DEF MessageTypes

(* Steps that write nothing down keep what is said about it.               *)
LEMMA WrittenKept ==
    ASSUME UNCHANGED Written, NEW task \in Tasks
    PROVE  /\ Settled(task)' <=> Settled(task)
           /\ GivenUp(task)' <=> GivenUp(task)
           /\ pg'[task] = pg[task]
           /\ pc' = pc =>
                 \A status, at : Recorded(task, status, at)' <=> Recorded(task, status, at)
  BY DEF Written, Settled, OnRecord, Consistent, PairInv, GivenUp, Recorded

(* Steps that leave the handler where it is, and write at most the hash.   *)
LEMMA StoresKept ==
    ASSUME Types, Stores, UNCHANGED <<pg, last, attempt, enqueued, torn, unfinished>>,
           UNCHANGED <<running, msg, pc, todo, cur>>,
           overwritten \subseteq overwritten',
           \A task \in Tasks : hash'[task].status = hash[task].status \/ task \in overwritten',
           \A k \in Messages : inbox[k] > 0 => inbox'[k] > 0
    PROVE  Stores'
<1>1. LoopInv'
  BY DEF Stores, LoopInv, NodeId
<1>2. ASSUME NEW task \in Tasks PROVE StoreInv(task)'
  <2>1. StoreInv(task)
    BY DEF Stores
  <2>2. /\ Going(task) => Going(task)'
        /\ Doomed(task) => Doomed(task)'
    BY MessageOf DEF Going, Doomed, Failing
  <2>3. /\ Current(task)' <=> Current(task)
        /\ Listed(task)' <=> Listed(task)
        /\ GivenUp(task)' <=> GivenUp(task)
    BY DEF Current, Working, Executing, Listed, NodeId, GivenUp
  <2>4. /\ Consistent(task) => Consistent(task)'
        /\ PairInv(task) => PairInv(task)'
        /\ \A status : OnRecord(task, status)' <=> OnRecord(task, status)
    BY DEF Consistent, PairInv, OnRecord
  <2>5. Settled(task) => Settled(task)'
    BY <2>4 DEF Settled
  <2>6. \A status, at : Recorded(task, status, at) => Recorded(task, status, at)'
    BY <2>4 DEF Recorded
  <2>7. RecordInv(task)'
    BY <2>1, <2>2, <2>6 DEF StoreInv, RecordInv
  <2> QED BY <2>1, <2>2, <2>3, <2>5, <2>7 DEF StoreInv
<1> QED BY <1>1, <1>2 DEF Stores

(* Steps of an execution that write nothing down.                          *)
LEMMA StoresInTry ==
    ASSUME Types, Stores, UNCHANGED Written, UNCHANGED <<inbox, msg, todo, cur>>,
           Executing, Working', pc' \notin {"hashDone", "publishDone", "xHash", "xPublish"},
           \A node \in Nodes, task \in Tasks :
               task \in running[node] /\ task # TaskId => task \in running'[node]
    PROVE  Stores'
<1>0. /\ pc \notin UnavailablePoints /\ pc' \notin UnavailablePoints
      /\ pc \notin FailingMember \cup {"members", "next"} /\ pc' \notin FailingMember \cup {"members", "next"}
  BY DEF Working, Executing, TryPoints, ExceptPoints, UnavailablePoints, FailingMember
<1>1. LoopInv'
  BY <1>0 DEF LoopInv
<1>2. ASSUME NEW task \in Tasks PROVE StoreInv(task)'
  <2>1. StoreInv(task)
    BY DEF Stores
  <2>2. /\ Going(task)' <=> Going(task)
        /\ Current(task) => Current(task)'
        /\ Doomed(task) => Doomed(task)' \/ Current(task)'
        /\ ~Listed(task)
    BY <1>0 DEF Going, Current, Doomed, Failing, Listed, TaskId
  <2>3. RecordInv(task)'
    BY <1>0 DEF RecordInv, FailingMember
  <2> QED BY <2>1, <2>2, <2>3, WrittenKept DEF StoreInv
<1> QED BY <1>1, <1>2 DEF Stores

LEMMA StoresReceive ==
    ASSUME Types, Stores, NEW m \in Messages, Receive(m)
    PROVE  Stores'
<1>1. /\ pc = "idle" /\ msg' = m /\ inbox' = [inbox EXCEPT ![m] = @ - 1]
      /\ UNCHANGED Written /\ UNCHANGED <<running, todo, cur>>
      /\ \/ m.task = NoTask /\ pc' = "members"
         \/ m.task # NoTask /\ pc' = "zrem"
  BY DEF Receive, nodeState, taskState, writers, marks, Written
<1>2. inbox \in [Messages -> Nat] /\ \A k \in Messages : k # m => inbox'[k] = inbox[k]
  BY <1>1, TypesSplit DEF Types, MessageTypes
<1>3. LoopInv'
  BY <1>1 DEF LoopInv, FailingMember
<1>4. ASSUME NEW task \in Tasks PROVE StoreInv(task)'
  <2>1. StoreInv(task) /\ task # NoTask
    BY NullAssumption DEF Stores
  <2>2. Going(task) => Going(task)' \/ Current(task)'
    <3>1. ASSUME NEW node \in Nodes, inbox[[task |-> task, node |-> node]] > 0
          PROVE  Going(task)' \/ Current(task)'
      <4>1. CASE m = [task |-> task, node |-> node]
        BY <1>1, <2>1, <4>1 DEF Current, Working, Executing, TryPoints
      <4>2. CASE m # [task |-> task, node |-> node]
        BY <1>2, <3>1, <4>2, MessageOf DEF Going
      <4> QED BY <4>1, <4>2
    <3> QED BY <3>1 DEF Going
  <2>3. Doomed(task) => Doomed(task)' \/ Listed(task)'
    <3>1. ASSUME NEW node \in Nodes, task \in running[node], inbox[[task |-> NoTask, node |-> node]] > 0
          PROVE  Doomed(task)' \/ Listed(task)'
      <4>1. CASE m = [task |-> NoTask, node |-> node]
        BY <1>1, <3>1, <4>1 DEF Listed, NodeId
      <4>2. CASE m # [task |-> NoTask, node |-> node]
        <5>1. inbox'[[task |-> NoTask, node |-> node]] > 0
          BY <1>2, <3>1, <4>2, MessageOf
        <5>2. ~Failing(node)'
          BY <1>1, <4>2, MessageOf DEF Failing, UnavailablePoints
        <5> QED BY <1>1, <3>1, <5>1, <5>2 DEF Doomed
      <4> QED BY <4>1, <4>2
    <3> QED BY <3>1 DEF Doomed
  <2>4. ~Current(task) /\ ~Listed(task)
    BY <1>1, Points DEF Current, Listed, FailingMember
  <2>5. RecordInv(task)'
    BY <1>1 DEF RecordInv
  <2> QED BY <1>1, <2>1, <2>2, <2>3, <2>4, <2>5, WrittenKept DEF StoreInv
<1> QED BY <1>3, <1>4 DEF Stores

LEMMA StoresCommit ==
    ASSUME Types, Stores, Commit \/ Published
    PROVE  Stores'
<1>1. /\ pc \in {"doneSent", "commit"} /\ pc' \in {"commit", "idle"}
      /\ UNCHANGED Written /\ UNCHANGED <<running, inbox>>
  BY DEF Commit, Finish, Published, Goto, nodeState, taskState, writers, marks, history, Written
<1>2. LoopInv'
  BY <1>1 DEF LoopInv, FailingMember
<1>3. ASSUME NEW task \in Tasks PROVE StoreInv(task)'
  <2>1. StoreInv(task) /\ ~Current(task) /\ ~Listed(task)
    BY <1>1, Points DEF Stores, Current, Listed, FailingMember
  <2>2. /\ Going(task)' <=> Going(task)
        /\ Doomed(task) => Doomed(task)'
    BY <1>1 DEF Going, Doomed, Failing, UnavailablePoints
  <2>3. RecordInv(task)'
    BY <1>1 DEF RecordInv
  <2> QED BY <1>1, <2>1, <2>2, <2>3, WrittenKept DEF StoreInv
<1> QED BY <1>2, <1>3 DEF Stores

(* The message that is given up returns to the queue, and with it whatever *)
(* it had still to do; or it is dead-lettered, and that is given up too.   *)
LEMMA StoresAbandon ==
    ASSUME Types, Stores, Abandon
    PROVE  Stores'
<1>1. /\ pc # "idle" /\ pc' = "idle"
      /\ UNCHANGED <<pg, hash, last, attempt, enqueued, overwritten, running>>
      /\ \/ inbox' = [inbox EXCEPT ![msg] = @ + 1] /\ UNCHANGED <<torn, unfinished>>
         \/ /\ torn' = torn \cup Unserved /\ unfinished' = unfinished \cup Unserved
            /\ UNCHANGED inbox
  BY DEF Abandon, Finish, nodeState, taskState, writers
<1>2. msg \in Messages /\ msg = [task |-> msg.task, node |-> msg.node] /\ msg.node \in Nodes
  BY <1>1, MessageOf DEF Types, HandlerInv
<1>3. \A k \in Messages : inbox[k] > 0 => inbox'[k] > 0
  BY <1>1, InboxGrows, TypesSplit DEF Types
<1>4. LoopInv'
  BY <1>1 DEF LoopInv, FailingMember
<1>5. ASSUME NEW task \in Tasks PROVE StoreInv(task)'
  <2>1. StoreInv(task)
    BY DEF Stores
  <2>2. /\ Going(task) => Going(task)'
        /\ Doomed(task) => Doomed(task)'
    BY <1>1, <1>3, MessageOf DEF Going, Doomed, Failing, UnavailablePoints
  <2>3. /\ Settled(task) => Settled(task)'
        /\ GivenUp(task) => GivenUp(task)'
        /\ GivenUp(task)' => Settled(task)'
    BY <1>1 DEF Settled, OnRecord, Consistent, PairInv, GivenUp
  <2>4. RecordInv(task)'
    BY <1>1 DEF RecordInv
  <2>5. CASE inbox' = [inbox EXCEPT ![msg] = @ + 1]
    <3>0. inbox'[msg] > 0
      BY <1>2, <2>5, InboxGrows, TypesSplit DEF Types
    <3>1. Current(task) => Going(task)'
      BY <1>2, <3>0 DEF Current, Going
    <3>2. Listed(task) => Doomed(task)'
      <4>1. Listed(task) => pc \in UnavailablePoints /\ task \in running[NodeId]
        BY Points DEF Listed, Stores, LoopInv
      <4>2. Listed(task) => msg.task = NoTask
        BY <4>1 DEF Types, HandlerInv
      <4>3. \A node \in Nodes : ~Failing(node)'
        BY <1>1 DEF Failing, UnavailablePoints
      <4>4. Listed(task) => inbox'[[task |-> NoTask, node |-> msg.node]] > 0
        BY <1>2, <3>0, <4>2
      <4>5. Listed(task) => task \in running'[msg.node]
        BY <1>1, <4>1 DEF NodeId
      <4>6. msg.node \in Nodes
        BY <1>2
      <4> QED BY <4>3, <4>4, <4>5, <4>6 DEF Doomed
    <3> QED BY <1>1, <2>1, <2>2, <2>3, <2>4, <3>1, <3>2 DEF StoreInv
  <2>6. CASE torn' = torn \cup Unserved /\ unfinished' = unfinished \cup Unserved
    <3>1. Current(task) \/ Listed(task) => task \in Unserved
      BY DEF Current, Listed, Unserved, Working, Executing, FailingMember, TaskId
    <3>2. Current(task) \/ Listed(task) => GivenUp(task)'
      BY <2>6, <3>1 DEF GivenUp
    <3> QED BY <1>1, <2>1, <2>2, <2>3, <2>4, <3>2 DEF StoreInv
  <2> QED BY <1>1, <2>5, <2>6
<1> QED BY <1>4, <1>5 DEF Stores

(* What coordinator and queue-agent leave of a task, unless they put it on *)
(* its way: what it was about is in the record, and so are the pairs.      *)
LEMMA BeyondTask ==
    ASSUME Types, Beyond, NEW task \in Tasks
    PROVE  \/ Going(task)'
           \/ /\ PairInv(task) => PairInv(task)'
              /\ PairInv(task) /\ Consistent(task) => Consistent(task)'
              /\ \A status : OnRecord(task, status) => OnRecord(task, status)'
              /\ Ending(task) => pg'[task] = pg[task] \/ task \in torn'
              /\ pg'[task].status = "running" => pg[task].status = "running"
              /\ task \in torn => task \in torn'
              /\ task \in unfinished => task \in unfinished'
<1> DEFINE Left ==
        /\ PairInv(task) => PairInv(task)'
        /\ PairInv(task) /\ Consistent(task) => Consistent(task)'
        /\ \A status : OnRecord(task, status) => OnRecord(task, status)'
        /\ Ending(task) => pg'[task] = pg[task] \/ task \in torn'
        /\ pg'[task].status = "running" => pg[task].status = "running"
        /\ task \in torn => task \in torn'
        /\ task \in unfinished => task \in unfinished'
<1> USE DEF PairInv, Consistent, OnRecord, Recording, Enqueueing
<1>0. pg \in [Tasks -> TaskRecord] /\ hash \in [Tasks -> TaskRecord] /\ WriterTypes /\ MessageTypes
  BY TypesSplit DEF Types, TaskTypes
<1>1. ASSUME pg'[task] = pg[task], hash'[task] = hash[task], attempt'[task] = attempt[task],
             task \in enqueued' <=> task \in enqueued, task \in overwritten' <=> task \in overwritten,
             task \in torn' <=> task \in torn, task \in unfinished' <=> task \in unfinished
      PROVE  Left
  BY <1>1
<1>2. ASSUME NEW t \in Tasks, NEW node \in Nodes, DispatchRow(t, node) PROVE Left
  <2>1. /\ pg' = [pg EXCEPT ![t] = [status |-> "dispatched", node |-> node]]
        /\ attempt' = [attempt EXCEPT ![t] = [at |-> "hash", node |-> node]]
        /\ torn' = IF Ending(t) \/ t \in enqueued THEN torn \cup {t} ELSE torn
        /\ UNCHANGED <<hash, enqueued, overwritten, unfinished>>
    BY <1>2 DEF DispatchRow, Tear, Beside
  <2>2. CASE t = task
    <3>1. pg'[task].status = "dispatched" /\ attempt'[task].at = "hash"
      BY <1>0, <2>1, <2>2 DEF WriterTypes
    <3> QED BY <2>1, <2>2, <3>1
  <2>3. CASE t # task
    BY <1>0, <1>1, <2>1, <2>3 DEF WriterTypes
  <2> QED BY <2>2, <2>3
<1>3. ASSUME NEW t \in Tasks, DispatchHash(t) PROVE Left
  <2>1. /\ attempt[t].at = "hash"
        /\ hash' = [hash EXCEPT ![t] = [status |-> "dispatched", node |-> attempt[t].node]]
        /\ attempt' = [attempt EXCEPT ![t].at = "event"]
        /\ torn' = IF Ending(t) \/ t \in enqueued THEN torn \cup {t} ELSE torn
        /\ UNCHANGED <<pg, enqueued, overwritten, unfinished>>
    BY <1>3 DEF DispatchHash, Tear, Beside
  <2>2. CASE t = task
    <3>1. hash'[task].status = "dispatched" /\ attempt'[task].at = "event"
      BY <1>0, <2>1, <2>2 DEF WriterTypes
    <3> QED BY <2>1, <2>2, <3>1
  <2>3. CASE t # task
    BY <1>0, <1>1, <2>1, <2>3 DEF WriterTypes
  <2> QED BY <2>2, <2>3
<1>4. ASSUME NEW t \in Tasks, DispatchEvent(t) PROVE Left \/ Going(task)'
  <2>1. /\ attempt[t].at = "event"
        /\ inbox' = [inbox EXCEPT ![[task |-> t, node |-> attempt[t].node]] = @ + 1]
        /\ attempt' = [attempt EXCEPT ![t] = NoAttempt]
        /\ overwritten' = overwritten \ {t} /\ torn' = torn \ {t} /\ unfinished' = unfinished \ {t}
        /\ UNCHANGED <<pg, hash, enqueued>>
    BY <1>4 DEF DispatchEvent, taskState
  <2>2. CASE t = task
    <3>1. attempt[task].node \in Nodes /\ [task |-> task, node |-> attempt[task].node] \in Messages
      BY <1>0, <2>1, <2>2, MessageOf DEF WriterTypes
    <3>2. inbox'[[task |-> task, node |-> attempt[task].node]] > 0
      BY <1>0, <2>1, <2>2, <3>1, InboxGrows
    <3> QED BY <3>1, <3>2 DEF Going
  <2>3. CASE t # task
    BY <1>0, <1>1, <2>1, <2>3 DEF WriterTypes
  <2> QED BY <2>2, <2>3
<1>5. ASSUME NEW t \in Tasks, AttemptDies(t) PROVE Left
  <2>1. /\ attempt' = [attempt EXCEPT ![t] = NoAttempt]
        /\ torn' = IF attempt[t].at = "hash" THEN torn \cup {t} ELSE torn
        /\ unfinished' = unfinished \cup {t}
        /\ UNCHANGED <<pg, hash, enqueued, overwritten>>
    BY <1>5 DEF AttemptDies, Tear, Beside, taskState
  <2>2. CASE t = task
    <3>1. attempt'[task].at = "none"
      BY <1>0, <2>1, <2>2 DEF WriterTypes, NoAttempt
    <3> QED BY <2>1, <2>2, <3>1
  <2>3. CASE t # task
    BY <1>0, <1>1, <2>1, <2>3 DEF WriterTypes
  <2> QED BY <2>2, <2>3
<1>6. ASSUME NEW t \in Tasks, EnqueueHash(t) PROVE Left
  <2>1. /\ hash' = [hash EXCEPT ![t].status = "classified"]
        /\ enqueued' = enqueued \cup {t}
        /\ torn' = IF Ending(t) \/ attempt[t].at = "hash" THEN torn \cup {t} ELSE torn
        /\ unfinished' = unfinished \cup {t}
        /\ UNCHANGED <<pg, attempt, overwritten>>
    BY <1>6 DEF EnqueueHash, Tear, Beside
  <2>2. CASE t = task
    <3>1. hash'[task].status = "classified"
      BY <1>0, <2>1, <2>2 DEF TaskRecord
    <3> QED BY <2>1, <2>2, <3>1
  <2>3. CASE t # task
    BY <1>0, <1>1, <2>1, <2>3
  <2> QED BY <2>2, <2>3
<1>7. ASSUME NEW t \in Tasks, EnqueueRow(t) PROVE Left
  <2>1. /\ t \in enqueued
        /\ pg' = [pg EXCEPT ![t].status = "classified"]
        /\ enqueued' = enqueued \ {t}
        /\ torn' = IF Ending(t) \/ attempt[t].at = "hash" THEN torn \cup {t} ELSE torn
        /\ unfinished' = unfinished \cup {t}
        /\ UNCHANGED <<hash, attempt, overwritten>>
    BY <1>7 DEF EnqueueRow, Tear, Beside
  <2>2. CASE t = task
    <3>1. pg'[task].status = "classified"
      BY <1>0, <2>1, <2>2 DEF TaskRecord
    <3> QED BY <2>1, <2>2, <3>1
  <2>3. CASE t # task
    BY <1>0, <1>1, <2>1, <2>3
  <2> QED BY <2>2, <2>3
<1>8. ASSUME NEW t \in Tasks, EnqueueDies(t) PROVE Left
  <2>1. /\ t \in enqueued /\ enqueued' = enqueued \ {t} /\ torn' = torn \cup {t}
        /\ UNCHANGED <<pg, hash, attempt, overwritten, unfinished>>
    BY <1>8 DEF EnqueueDies, Tear, Beside, taskState
  <2>2. CASE t = task
    BY <2>1, <2>2
  <2>3. CASE t # task
    BY <1>1, <2>1, <2>3
  <2> QED BY <2>2, <2>3
<1>9. ASSUME NEW m \in Messages, Duplicate(m) PROVE Left
  BY <1>1, <1>9 DEF Duplicate, taskState, writers, history, marks
<1> QED BY <1>2, <1>3, <1>4, <1>5, <1>6, <1>7, <1>8, <1>9 DEF Beyond

LEMMA StoresBeyond ==
    ASSUME Types, Stores, Beyond
    PROVE  Stores'
<1>1. UNCHANGED <<last, running, msg, pc, todo, cur>>
  BY BeyondKeeps DEF nodeState, handler
<1>2. \A k \in Messages : inbox[k] > 0 => inbox'[k] > 0
  BY BeyondKeeps, InboxGrows, TypesSplit DEF Types
<1>3. LoopInv'
  BY <1>1 DEF Stores, LoopInv, NodeId
<1>4. ASSUME NEW task \in Tasks PROVE StoreInv(task)'
  <2>1. StoreInv(task)
    BY DEF Stores
  <2>2. /\ Going(task) => Going(task)'
        /\ Doomed(task) => Doomed(task)'
        /\ Current(task)' <=> Current(task)
        /\ Listed(task)' <=> Listed(task)
    BY <1>1, <1>2, MessageOf DEF Going, Doomed, Failing, Current, Working, Executing, Listed, NodeId
  <2>3. CASE Going(task)'
    BY <2>3 DEF StoreInv, RecordInv
  <2>4. CASE ~Going(task)'
    <3>0. /\ PairInv(task) => PairInv(task)'
          /\ PairInv(task) /\ Consistent(task) => Consistent(task)'
          /\ \A status : OnRecord(task, status) => OnRecord(task, status)'
          /\ Ending(task) => pg'[task] = pg[task] \/ task \in torn'
          /\ pg'[task].status = "running" => pg[task].status = "running"
          /\ task \in torn => task \in torn'
          /\ task \in unfinished => task \in unfinished'
      BY <2>4, BeyondTask
    <3>1. /\ Settled(task) => Settled(task)'
          /\ GivenUp(task) => GivenUp(task)'
      BY <1>1, <3>0 DEF Settled, GivenUp
    <3>2. ASSUME NEW status, NEW at, Recorded(task, status, at), Ending(task) \/ pc = at
          PROVE  Recorded(task, status, at)'
      BY <1>1, <3>0, <3>2 DEF Recorded
    <3>3. RecordInv(task)'
      <4>1. RecordInv(task) /\ ~Going(task)
        BY <2>1, <2>2, <2>4 DEF StoreInv
      <4>2. /\ pc \in {"hashDone", "publishDone"} /\ msg.task = task => Recorded(task, "done", "publishDone")
            /\ pc \in {"xHash", "xPublish"} /\ msg.task = task => Recorded(task, "failed", "xPublish")
            /\ pc \in {"uHash", "uPublish"} /\ cur = task => Recorded(task, "failed", "uPublish")
        BY <4>1 DEF RecordInv
      <4>3. /\ pc \in {"hashDone", "publishDone"} /\ msg.task = task => Recorded(task, "done", "publishDone")'
            /\ pc \in {"xHash", "xPublish"} /\ msg.task = task => Recorded(task, "failed", "xPublish")'
            /\ pc \in {"uHash", "uPublish"} /\ cur = task => Recorded(task, "failed", "uPublish")'
        BY <3>2, <4>2 DEF Ending
      <4> QED BY <1>1, <4>3 DEF RecordInv
    <3> QED BY <2>1, <2>2, <3>0, <3>1, <3>3 DEF StoreInv
  <2> QED BY <2>3, <2>4
<1> QED BY <1>3, <1>4 DEF Stores

(* The API's UPDATE touches rows of tasks that are being executed, or will *)
(* be again, or were given up.                                             *)
LEMMA StoresFailRows ==
    ASSUME Types, Stores, FailRows
    PROVE  Stores'
<1>1. UNCHANGED <<hash, last, attempt, enqueued, overwritten, torn, unfinished, running, inbox, msg, pc, todo, cur>>
  BY DEF FailRows, nodeState, handler, history, marks, writers
<1>2. ASSUME NEW task \in Tasks
      PROVE  \/ pg'[task] = pg[task]
             \/ pg[task].status = "running" /\ pg'[task].status = "failed"
  <2>1. pg'[task] = IF OnNode(pg[task]) THEN [pg[task] EXCEPT !.status = "failed"] ELSE pg[task]
    BY DEF FailRows
  <2>2. pg[task] \in TaskRecord
    BY TypesSplit DEF Types, TaskTypes
  <2> QED BY <2>1, <2>2 DEF OnNode, TaskRecord
<1>3. LoopInv'
  BY <1>1 DEF Stores, LoopInv, NodeId
<1>4. ASSUME NEW task \in Tasks PROVE StoreInv(task)'
  <2>1. StoreInv(task)
    BY DEF Stores
  <2>2. /\ Going(task)' <=> Going(task)
        /\ Doomed(task)' <=> Doomed(task)
        /\ Current(task)' <=> Current(task)
        /\ Listed(task)' <=> Listed(task)
        /\ GivenUp(task)' <=> GivenUp(task)
    BY <1>1 DEF Going, Doomed, Failing, Current, Working, Executing, Listed, NodeId, GivenUp
  <2>3. CASE pg'[task] = pg[task]
    <3>1. Settled(task)' <=> Settled(task)
      BY <1>1, <2>3 DEF Settled, OnRecord, Consistent, PairInv
    <3>2. \A status, at : Recorded(task, status, at)' <=> Recorded(task, status, at)
      BY <1>1, <2>3 DEF Recorded, OnRecord, Consistent, PairInv
    <3>3. RecordInv(task)'
      BY <1>1, <2>1, <2>2, <3>2 DEF StoreInv, RecordInv
    <3> QED BY <2>1, <2>2, <2>3, <3>1, <3>3 DEF StoreInv
  <2>4. CASE pg[task].status = "running" /\ pg'[task].status = "failed"
    <3>1. Going(task) \/ Current(task) \/ GivenUp(task)
      BY <2>1, <2>4 DEF StoreInv
    <3>2. GivenUp(task) => Settled(task)'
      BY <1>1 DEF GivenUp, Settled, OnRecord, Consistent, PairInv
    <3>3. RecordInv(task)'
      <4>1. \A status, at : ~Recorded(task, status, at)
        BY <2>4 DEF Recorded
      <4> QED BY <1>1, <2>1, <2>2, <4>1 DEF StoreInv, RecordInv
    <3> QED BY <2>2, <2>4, <3>1, <3>2, <3>3 DEF StoreInv
  <2> QED BY <1>2, <2>3, <2>4
<1> QED BY <1>3, <1>4 DEF Stores

LEMMA StoresRecordRunning ==
    ASSUME Types, Stores, RecordRunning
    PROVE  Stores'
<1>1. /\ UNCHANGED <<last, attempt, enqueued, overwritten, torn, unfinished, running, inbox, msg, todo, cur>>
      /\ \/ /\ pc = "pgRunning" /\ pc' = "hashRunning" /\ hash' = hash
            /\ pg' = [pg EXCEPT ![TaskId] = [status |-> "running", node |-> NodeId]]
         \/ /\ pc = "hashRunning" /\ pc' = "poll" /\ pg' = pg
            /\ hash' = [hash EXCEPT ![TaskId] = [status |-> "running", node |-> NodeId]]
  BY DEF RecordRunning, Goto, Rest, nodeState, history, marks, writers
<1>2. Working /\ Working' /\ pc \notin UnavailablePoints /\ pc' \notin UnavailablePoints
  BY <1>1 DEF Working, Executing, TryPoints, UnavailablePoints
<1>3. LoopInv'
  BY <1>2, Points DEF LoopInv, FailingMember, UnavailablePoints
<1>4. ASSUME NEW task \in Tasks PROVE StoreInv(task)'
  <2>1. StoreInv(task)
    BY DEF Stores
  <2>2. RecordInv(task)'
    BY <1>1 DEF RecordInv
  <2>3. CASE task = TaskId
    BY <1>1, <1>2, <2>2, <2>3 DEF StoreInv, Current, TaskId
  <2>4. CASE task # TaskId
    <3>1. pg'[task] = pg[task] /\ hash'[task] = hash[task]
      BY <1>1, <2>4, TypesSplit DEF Types, TaskTypes
    <3>2. /\ Going(task)' <=> Going(task)
          /\ Current(task)' <=> Current(task)
          /\ Doomed(task)' <=> Doomed(task)
          /\ ~Listed(task)
      BY <1>1, <1>2, Points DEF Going, Current, Doomed, Failing, Listed, FailingMember, UnavailablePoints
    <3>3. (Settled(task)' <=> Settled(task)) /\ (GivenUp(task)' <=> GivenUp(task))
      BY <1>1, <3>1 DEF Settled, OnRecord, Consistent, PairInv, GivenUp
    <3> QED BY <2>1, <2>2, <3>1, <3>2, <3>3 DEF StoreInv
  <2> QED BY <2>3, <2>4
<1> QED BY <1>3, <1>4 DEF Stores

(* RecordDone, RecordFailed and FailMember: the row, then the hash, of the *)
(* task that the handler or its loop has in hand.                          *)
LEMMA StoresRecord ==
    ASSUME Types, Stores, NEW t \in Tasks, NEW status \in {"done", "failed"},
           NEW rowAt, NEW hashAt, NEW publishAt,
           RecordStatus(t, status, rowAt, hashAt, hashAt, publishAt),
           \/ /\ t = msg.task /\ status = "done"
              /\ rowAt = "pgDone" /\ hashAt = "hashDone" /\ publishAt = "publishDone"
           \/ /\ t = msg.task /\ status = "failed"
              /\ rowAt = "xPg" /\ hashAt = "xHash" /\ publishAt = "xPublish"
           \/ /\ t = cur /\ status = "failed"
              /\ rowAt = "uPg" /\ hashAt = "uHash" /\ publishAt = "uPublish"
    PROVE  Stores'
<1>1. /\ UNCHANGED <<last, attempt, enqueued, overwritten, unfinished, running, inbox, msg, todo, cur>>
      /\ torn' = IF attempt[t].at = "hash" \/ t \in enqueued THEN torn \cup {t} ELSE torn
      /\ \/ /\ pc = rowAt /\ pc' = hashAt /\ hash' = hash
            /\ pg' = [pg EXCEPT ![t].status = status]
         \/ /\ pc = hashAt /\ pc' = publishAt /\ pg' = pg
            /\ hash' = [hash EXCEPT ![t].status = status]
  BY DEF RecordStatus, Goto, Rest, nodeState, writers, Tear, Recording, Enqueueing
<1>2. pg \in [Tasks -> TaskRecord] /\ hash \in [Tasks -> TaskRecord]
  BY TypesSplit DEF Types, TaskTypes
<1>3. \/ pc = rowAt /\ pc' = hashAt /\ pg'[t].status = status /\ hash'[t] = hash[t]
      \/ pc = hashAt /\ pc' = publishAt /\ pg'[t] = pg[t] /\ hash'[t].status = status
  BY <1>1, <1>2 DEF TaskRecord
<1>4. \A task \in Tasks : task # t => pg'[task] = pg[task] /\ hash'[task] = hash[task]
                                      /\ (task \in torn' <=> task \in torn)
  BY <1>1, <1>2
<1>5. /\ \/ Working /\ Working' /\ pc \notin UnavailablePoints /\ pc' \notin UnavailablePoints
         \/ pc \in FailingMember /\ pc' \in FailingMember
      /\ hashAt # publishAt /\ rowAt # publishAt
  BY <1>1 DEF Working, Executing, TryPoints, ExceptPoints, UnavailablePoints, FailingMember
<1>6. LoopInv'
  BY <1>1, <1>5, Points DEF Stores, LoopInv, NodeId, FailingMember, UnavailablePoints
<1>7. ASSUME NEW task \in Tasks PROVE StoreInv(task)'
  <2>1. StoreInv(task)
    BY DEF Stores
  <2>2. /\ Going(task)' <=> Going(task)
        /\ Current(task)' <=> Current(task)
        /\ Doomed(task)' <=> Doomed(task)
        /\ Listed(task)' <=> Listed(task)
    <3>1. (Working' <=> Working) /\ (pc' \in UnavailablePoints <=> pc \in UnavailablePoints)
      BY <1>5, Points DEF Working, Executing, TryPoints, ExceptPoints, UnavailablePoints, FailingMember
    <3>2. /\ pc' \in FailingMember <=> pc \in FailingMember
          /\ pc \notin {"members", "next"} /\ pc' \notin {"members", "next"}
      BY <1>1, <1>5 DEF FailingMember
    <3> QED BY <1>1, <3>1, <3>2 DEF Going, Current, Doomed, Failing, Listed
  <2>3. CASE task = t
    <3>1. Current(task) \/ Listed(task)
      BY <1>1, <1>5, <2>3 DEF Current, Listed, Working, Executing, TryPoints, ExceptPoints, FailingMember
    <3>2. PairInv(task)'
      BY <1>1, <2>3 DEF PairInv
    <3>3. CASE pc = rowAt
      <4>1. Recorded(task, status, publishAt)'
        BY <1>1, <1>3, <1>5, <2>3, <3>2, <3>3 DEF Recorded, OnRecord
      <4>2. pg'[task].status # "running"
        BY <1>3, <1>5, <2>3, <3>3, <1>1
      <4> QED BY <1>1, <1>5, <2>1, <2>2, <2>3, <3>1, <3>3, <4>1, <4>2 DEF StoreInv, RecordInv
    <3>4. CASE pc = hashAt
      <4>1. CASE Going(task)
        BY <2>2, <4>1 DEF StoreInv, RecordInv
      <4>2. CASE ~Going(task)
        <5>1. Recorded(task, status, publishAt)
          BY <1>1, <2>1, <2>3, <3>4, <4>2 DEF StoreInv, RecordInv
        <5>2. Consistent(task)'
          BY <1>1, <1>3, <1>5, <2>3, <3>4, <5>1 DEF Recorded, Consistent
        <5>3. OnRecord(task, status)' /\ pg'[task].status # "running"
          BY <1>1, <1>3, <1>5, <2>3, <3>4, <5>1 DEF Recorded, OnRecord
        <5>4. Recorded(task, status, publishAt)'
          BY <1>1, <1>5, <3>2, <3>4, <5>2, <5>3 DEF Recorded
        <5> QED BY <1>1, <2>2, <2>3, <3>1, <3>4, <5>3, <5>4 DEF StoreInv, RecordInv
      <4> QED BY <4>1, <4>2
    <3> QED BY <1>1, <3>3, <3>4
  <2>4. CASE task # t
    <3>1. (Settled(task)' <=> Settled(task)) /\ (GivenUp(task)' <=> GivenUp(task))
      BY <1>1, <1>4, <2>4 DEF Settled, OnRecord, Consistent, PairInv, GivenUp
    <3>2. RecordInv(task)'
      BY <1>1, <2>4 DEF RecordInv
    <3> QED BY <1>4, <2>1, <2>2, <2>4, <3>1, <3>2 DEF StoreInv
  <2> QED BY <2>3, <2>4
<1> QED BY <1>6, <1>7 DEF Stores

LEMMA StoresPublish ==
    ASSUME Types, Stores, PublishDone \/ PublishFailed
    PROVE  Stores'
<1>1. PICK event \in {"done", "failed"} :
        /\ pc = (IF event = "done" THEN "publishDone" ELSE "xPublish") /\ pc' \in {"doneSent", "commit"}
        /\ last' = [last EXCEPT ![TaskId] = event]
        /\ UNCHANGED <<pg, hash, attempt, enqueued, overwritten, torn, unfinished, running, inbox, msg, todo, cur>>
  BY DEF PublishDone, PublishFailed, Publish, Goto, Rest, nodeState, taskState, writers, marks
<1>2. /\ pc \notin UnavailablePoints /\ pc' \notin UnavailablePoints
      /\ pc \notin FailingMember \cup {"members", "next"} /\ pc' \notin FailingMember \cup {"next"}
  BY <1>1 DEF UnavailablePoints, FailingMember
<1>3. LoopInv'
  BY <1>2 DEF LoopInv
<1>4. last \in [Tasks -> {"none", "done", "failed"}]
  BY TypesSplit DEF Types, CountTypes
<1>5. ASSUME NEW task \in Tasks PROVE StoreInv(task)'
  <2>1. StoreInv(task)
    BY DEF Stores
  <2>2. /\ Going(task)' <=> Going(task)
        /\ Doomed(task)' <=> Doomed(task)
        /\ GivenUp(task)' <=> GivenUp(task)
        /\ ~Listed(task)
    BY <1>1, <1>2 DEF Going, Doomed, Failing, GivenUp, Listed
  <2>3. RecordInv(task)'
    BY <1>1 DEF RecordInv
  <2>4. CASE task = TaskId
    <3>1. last'[task] = event
      BY <1>1, <1>4, <2>4
    <3>2. Going(task) \/ Recorded(task, event, pc)
      BY <1>1, <2>1, <2>4 DEF StoreInv, RecordInv, TaskId
    <3>3. Recorded(task, event, pc) => Settled(task)' /\ pg'[task].status # "running"
      BY <1>1, <3>1 DEF Recorded, Settled, OnRecord, Consistent, PairInv
    <3> QED BY <2>2, <2>3, <3>2, <3>3 DEF StoreInv
  <2>5. CASE task # TaskId
    <3>1. last'[task] = last[task] /\ ~Current(task)
      BY <1>1, <1>4, <2>5 DEF Current, TaskId
    <3>2. Settled(task)' <=> Settled(task)
      BY <1>1, <3>1 DEF Settled, OnRecord, Consistent, PairInv
    <3> QED BY <1>1, <2>1, <2>2, <2>3, <3>1, <3>2 DEF StoreInv
  <2> QED BY <2>4, <2>5
<1> QED BY <1>3, <1>5 DEF Stores

LEMMA StoresPublishMember ==
    ASSUME Types, Stores, PublishMember
    PROVE  Stores'
<1>1. /\ pc = "uPublish" /\ pc' = "next" /\ last' = [last EXCEPT ![cur] = "failed"]
      /\ UNCHANGED <<pg, hash, attempt, enqueued, overwritten, torn, unfinished, running, inbox, msg, todo, cur>>
  BY DEF PublishMember, Goto, Rest, nodeState, taskState, writers, marks
<1>2. pc \in UnavailablePoints /\ pc' \in UnavailablePoints
  BY <1>1 DEF UnavailablePoints
<1>3. LoopInv'
  BY <1>1 DEF Stores, LoopInv, NodeId, FailingMember
<1>4. last \in [Tasks -> {"none", "done", "failed"}]
  BY TypesSplit DEF Types, CountTypes
<1>5. ASSUME NEW task \in Tasks PROVE StoreInv(task)'
  <2>1. StoreInv(task)
    BY DEF Stores
  <2>2. /\ Going(task)' <=> Going(task)
        /\ Doomed(task)' <=> Doomed(task)
        /\ GivenUp(task)' <=> GivenUp(task)
        /\ ~Current(task)
        /\ Listed(task)' <=> task \in todo
        /\ Listed(task) <=> task \in todo \/ task = cur
    BY <1>1, <1>2, Points DEF Going, Doomed, Failing, GivenUp, Current, Listed, FailingMember
  <2>3. RecordInv(task)'
    BY <1>1 DEF RecordInv
  <2>4. CASE task = cur
    <3>1. last'[task] = "failed"
      BY <1>1, <1>4, <2>4
    <3>2. Going(task) \/ Recorded(task, "failed", pc)
      BY <1>1, <2>1, <2>4 DEF StoreInv, RecordInv
    <3>3. Recorded(task, "failed", pc) => Settled(task)' /\ pg'[task].status # "running"
      BY <1>1, <3>1 DEF Recorded, Settled, OnRecord, Consistent, PairInv
    <3> QED BY <2>2, <2>3, <3>2, <3>3 DEF StoreInv
  <2>5. CASE task # cur
    <3>1. last'[task] = last[task]
      BY <1>1, <1>4, <2>5
    <3>2. Settled(task)' <=> Settled(task)
      BY <1>1, <3>1 DEF Settled, OnRecord, Consistent, PairInv
    <3> QED BY <1>1, <2>1, <2>2, <2>3, <2>5, <3>2 DEF StoreInv
  <2> QED BY <2>4, <2>5
<1> QED BY <1>3, <1>5 DEF Stores

(* The loop reads the set, takes its members in turn, and deletes the set. *)
LEMMA StoresLoop ==
    ASSUME Types, Stores, ReadMembers \/ NextMember
    PROVE  Stores'
<1>1. /\ UNCHANGED Written /\ UNCHANGED <<running, inbox, msg>>
      /\ \/ pc = "members" /\ pc' = "next" /\ todo' = running[NodeId]
         \/ pc = "next" /\ pc' = "del" /\ todo = {}
         \/ pc = "next" /\ pc' = "uPg" /\ cur' \in todo /\ todo' = todo \ {cur'}
  BY DEF ReadMembers, NextMember, Goto, nodeState, taskState, writers, history, marks, Written
<1>2. /\ pc \in UnavailablePoints /\ pc' \in UnavailablePoints
      /\ pc \notin FailingMember /\ {"members", "next", "del"} \cap FailingMember = {}
  BY <1>1 DEF UnavailablePoints, FailingMember
<1>3. LoopInv'
  BY <1>1, <1>2 DEF Stores, LoopInv, NodeId, FailingMember
<1>4. ASSUME NEW task \in Tasks PROVE StoreInv(task)'
  <2>1. StoreInv(task)
    BY DEF Stores
  <2>2. /\ Going(task)' <=> Going(task)
        /\ Doomed(task)' <=> Doomed(task)
        /\ ~Current(task)
    BY <1>1, <1>2, Points DEF Going, Doomed, Failing, Current
  <2>3. Listed(task) => Listed(task)'
    BY <1>1, <1>2 DEF Listed, NodeId, FailingMember
  <2>4. RecordInv(task)'
    BY <1>1 DEF RecordInv
  <2> QED BY <1>1, <2>1, <2>2, <2>3, <2>4, WrittenKept DEF StoreInv
<1> QED BY <1>3, <1>4 DEF Stores

LEMMA StoresForgetMembers ==
    ASSUME Types, Stores, ForgetMembers
    PROVE  Stores'
<1>1. /\ pc = "del" /\ pc' = "commit" /\ running' = [running EXCEPT ![NodeId] = {}]
      /\ UNCHANGED Written /\ UNCHANGED <<inbox, msg, todo, cur>>
  BY DEF ForgetMembers, Goto, Rest, taskState, writers, history, marks, Written
<1>2. /\ pc \in UnavailablePoints /\ pc' \notin UnavailablePoints
      /\ pc \notin FailingMember /\ pc' \notin FailingMember
  BY <1>1 DEF UnavailablePoints, FailingMember
<1>3. running \in [Nodes -> SUBSET Tasks]
  BY TypesSplit DEF Types, NodeTypes
<1>4. LoopInv'
  BY <1>1, <1>2 DEF LoopInv
<1>5. ASSUME NEW task \in Tasks PROVE StoreInv(task)'
  <2>1. StoreInv(task)
    BY DEF Stores
  <2>2. /\ Going(task)' <=> Going(task)
        /\ ~Current(task) /\ ~Listed(task)
    BY <1>1, <1>2, Points DEF Going, Current, Listed
  <2>3. Doomed(task) => Doomed(task)'
    <3>1. \A node \in Nodes : ~Failing(node) => running'[node] = running[node]
      BY <1>1, <1>2, <1>3 DEF Failing, NodeId
    <3>2. \A node \in Nodes : ~Failing(node)'
      BY <1>2 DEF Failing
    <3> QED BY <1>1, <3>1, <3>2 DEF Doomed
  <2>4. RecordInv(task)'
    BY <1>1 DEF RecordInv
  <2> QED BY <1>1, <2>1, <2>2, <2>3, <2>4, WrittenKept DEF StoreInv
<1> QED BY <1>4, <1>5 DEF Stores

LEMMA StoresTry ==
    ASSUME Types, Stores,
           \/ RemoveFromWaiting \/ ReadNode \/ Reserve \/ AddRunning \/ Poll \/ ReadBeforeRelease
           \/ ReleaseDone \/ ReleaseFailed \/ RemoveRunning \/ TryRaises
    PROVE  Stores'
<1> USE DEF Goto
<1>1. UNCHANGED Written /\ UNCHANGED <<inbox, msg, todo, cur>>
  BY DEF RemoveFromWaiting, ReadNode, Reserve, AddRunning, Poll, ReadBeforeRelease, ReleaseDone,
     ReleaseFailed, Release, RemoveRunning, TryRaises, Rest, taskState, writers, history, marks, Written
<1>2. /\ Executing /\ Working'
      /\ pc' \notin {"hashDone", "publishDone", "xHash", "xPublish"}
  BY DEF RemoveFromWaiting, ReadNode, Reserve, AddRunning, Poll, ReadBeforeRelease, ReleaseDone,
     ReleaseFailed, Release, RemoveRunning, TryRaises, HandleFailure, Working, Executing, TryPoints, ExceptPoints
<1>3. ASSUME NEW node \in Nodes, NEW task \in running[node], task # TaskId
      PROVE  task \in running'[node]
  <2>1. running \in [Nodes -> SUBSET Tasks]
    BY TypesSplit DEF Types, NodeTypes
  <2>2. \/ running' = running
        \/ running' = [running EXCEPT ![NodeId] = @ \cup {TaskId}]
        \/ running' = [running EXCEPT ![NodeId] = @ \ {TaskId}]
    BY DEF RemoveFromWaiting, ReadNode, Reserve, AddRunning, Poll, ReadBeforeRelease, ReleaseDone,
       ReleaseFailed, Release, RemoveRunning, TryRaises, nodeState
  <2> QED BY <1>3, <2>1, <2>2
<1> QED BY <1>1, <1>2, <1>3, StoresInTry

(* The API and the surroundings, but for the UPDATE and the other writers. *)
LEMMA StoresOutside ==
    ASSUME Types, Stores,
           \/ ReadTask \/ MarkFailed \/ MarkClassified \/ PublishUnavailable \/ RequestDies
           \/ \E node \in Nodes : NodeKeyExpires(node) \/ FailNode(node)
           \/ UNCHANGED vars
    PROVE  Stores'
<1>1. /\ UNCHANGED <<pg, last, attempt, enqueued, torn, unfinished>>
      /\ UNCHANGED <<running, msg, pc, todo, cur>>
  BY DEF ReadTask, MarkFailed, MarkClassified, Overwrite, PublishUnavailable, RequestDies,
     NodeKeyExpires, FailNode, nodeState, taskState, writers, handler, history, marks, vars
<1>2. /\ overwritten \subseteq overwritten'
      /\ \A task \in Tasks : hash'[task].status = hash[task].status \/ task \in overwritten'
  <2>1. hash \in [Tasks -> TaskRecord]
    BY TypesSplit DEF Types, TaskTypes
  <2>2. CASE MarkFailed \/ MarkClassified
    BY <2>1, <2>2 DEF MarkFailed, MarkClassified, Overwrite
  <2>3. CASE UNCHANGED <<hash, overwritten>>
    BY <2>3
  <2> QED BY <2>2, <2>3 DEF ReadTask, PublishUnavailable, RequestDies,
             NodeKeyExpires, FailNode, taskState, history, marks, vars
<1>3. \A k \in Messages : inbox[k] > 0 => inbox'[k] > 0
  <2>1. inbox' = inbox \/ \E m : inbox' = [inbox EXCEPT ![m] = @ + 1]
    BY DEF ReadTask, MarkFailed, MarkClassified, Overwrite, PublishUnavailable, RequestDies,
       NodeKeyExpires, FailNode, vars
  <2> QED BY <2>1, InboxGrows, TypesSplit DEF Types
<1> QED BY <1>1, <1>2, <1>3, StoresKept

LEMMA StoresStep == Types /\ Stores /\ [Next]_vars => Stores'
<1> SUFFICES ASSUME Types, Stores, [Next]_vars PROVE Stores'
  OBVIOUS
<1>1. CASE UNCHANGED vars
  BY <1>1, StoresOutside
<1>2. CASE RecordDone
  <2>1. RecordStatus(msg.task, "done", "pgDone", "hashDone", "hashDone", "publishDone")
    BY <1>2 DEF RecordDone, TaskId
  <2>2. msg.task \in Tasks
    BY <2>1 DEF RecordStatus, Goto, Types, HandlerInv, Executing, TryPoints, ExceptPoints
  <2> QED BY <2>1, <2>2, StoresRecord
<1>3. CASE RecordFailed
  <2>1. RecordStatus(msg.task, "failed", "xPg", "xHash", "xHash", "xPublish")
    BY <1>3 DEF RecordFailed, TaskId
  <2>2. msg.task \in Tasks
    BY <2>1 DEF RecordStatus, Goto, Types, HandlerInv, Executing, TryPoints, ExceptPoints
  <2> QED BY <2>1, <2>2, StoresRecord
<1>4. CASE FailMember
  <2>1. RecordStatus(cur, "failed", "uPg", "uHash", "uHash", "uPublish")
    BY <1>4 DEF FailMember
  <2>2. cur \in Tasks
    <3>1. pc \in FailingMember
      BY <2>1 DEF RecordStatus, Goto, FailingMember
    <3>2. cur \in running[NodeId] /\ NodeId \in Nodes
      BY <3>1, MessageOf DEF Stores, LoopInv, Types, HandlerInv, FailingMember, NodeId
    <3> QED BY <3>2, TypesSplit DEF Types, NodeTypes
  <2> QED BY <2>1, <2>2, StoresRecord
<1>5. CASE Next
  BY <1>2, <1>3, <1>4, <1>5, Steps, StoresReceive, StoresCommit, StoresAbandon, StoresBeyond,
     StoresFailRows, StoresRecordRunning, StoresPublish, StoresPublishMember, StoresLoop,
     StoresForgetMembers, StoresTry, StoresOutside
<1> QED BY <1>1, <1>5

LEMMA StoresAlways == Spec => [](Types /\ Stores)
  BY TypesInit, TypesStep, StoresInit, StoresStep, PTL DEF Spec

LEMMA SettledAtRest ==
    ASSUME Types, Stores, AtRest, NEW task \in Tasks
    PROVE  Settled(task)
<1>1. StoreInv(task)
  BY DEF Stores
<1>2. ~Going(task) /\ ~Doomed(task)
  <2>1. \A k \in Messages : ~(inbox[k] > 0)
    BY DEF AtRest
  <2> QED BY <2>1, MessageOf DEF Going, Doomed
<1>3. ~Current(task) /\ ~Listed(task)
  BY Points DEF AtRest, Current, Listed, FailingMember
<1> QED BY <1>1, <1>2, <1>3 DEF StoreInv

(* Whatever fails, and although coordinator, queue-agent, executor and API *)
(* all write the row: at rest it says what the last execution.* event of   *)
(* the task said, unless something was recorded since that will never be   *)
(* executed.                                                               *)
THEOREM RowTellsLastEvent == Spec => []RowMatchesLastEvent
<1>1. Types /\ Stores => RowMatchesLastEvent
  BY SettledAtRest DEF RowMatchesLastEvent, Settled, OnRecord, AtRest, NoAttempt
<1> QED BY <1>1, StoresAlways, PTL

(* ... and row and hash agree, unless the API overwrote the hash by what it*)
(* had read before, two writers crossed, or one was cut short.             *)
THEOREM StoresAgreeAtRest == Spec => []StoresAgree
<1>1. Types /\ Stores => StoresAgree
  BY SettledAtRest DEF StoresAgree, Settled, Consistent, AtRest, NoAttempt
<1> QED BY <1>1, StoresAlways, PTL
=============================================================================
