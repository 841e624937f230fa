----------------------------- MODULE TaskFlowProofs -----------------------------
(***************************************************************************)
(* The types of TaskFlow are correct, for any tasks, nodes and number of   *)
(* faults; that needs what a step does to the bag of messages.  The lemmas *)
(* on the bag are those TaskFlowRefinement counts copies with.             *)
(***************************************************************************)
EXTENDS TaskFlow, FiniteSetTheorems, TLAPS

(***************************************************************************)
(* What the broker does to the copies of an event.                         *)
(***************************************************************************)
NumberIn(x, B) == IF BagIn(x, B) THEN B[x] ELSE 0

LEMMA BagOfSet ==
  ASSUME NEW S
  PROVE  IsABag(SetToBag(S)) /\ \A x : NumberIn(x, SetToBag(S)) = IF x \in S THEN 1 ELSE 0
BY DEF IsABag, SetToBag, NumberIn, BagIn, BagToSet

LEMMA BagSum ==
  ASSUME NEW B, NEW C, IsABag(B), IsABag(C)
  PROVE  IsABag(B (+) C) /\ \A x : NumberIn(x, B (+) C) = NumberIn(x, B) + NumberIn(x, C)
BY DEF IsABag, NumberIn, BagIn, BagToSet, \oplus

LEMMA BagTake ==
  ASSUME NEW B, NEW y, IsABag(B), BagIn(y, B)
  PROVE  /\ IsABag(B (-) SetToBag({y}))
         /\ \A x : NumberIn(x, B (-) SetToBag({y})) = NumberIn(x, B) - IF x = y THEN 1 ELSE 0
BY DEF IsABag, SetToBag, NumberIn, BagIn, BagToSet, \ominus

LEMMA BagCount ==
  ASSUME NEW B, IsABag(B), NEW x
  PROVE  NumberIn(x, B) \in Nat /\ (BagIn(x, B) <=> NumberIn(x, B) > 0)
BY DEF IsABag, NumberIn, BagIn, BagToSet

Count(c) == NumberIn(c, inbox)
Spread(events) == UNION {BoundTo(e) \X {e} : e \in events}
One(condition) == IF condition THEN 1 ELSE 0

LEMMA Sends ==
  ASSUME NEW events, IsABag(inbox), Publish(events)
  PROVE  IsABag(inbox') /\ \A c : Count(c)' = Count(c) + One(c \in Spread(events))
<1>1. /\ IsABag(SetToBag(Spread(events)))
      /\ \A c : NumberIn(c, SetToBag(Spread(events))) = IF c \in Spread(events) THEN 1 ELSE 0
  BY BagOfSet
<1>2. inbox' = inbox (+) SetToBag(Spread(events))
  BY DEF Publish, Copies, Spread
<1> QED BY <1>1, <1>2, BagSum DEF Count, One

LEMMA TakesAndSends ==
  ASSUME NEW q, NEW e, NEW events, IsABag(inbox), Handles(q, e, events)
  PROVE  /\ IsABag(inbox') /\ Count(<<q, e>>) > 0
         /\ \A c : Count(c)' = Count(c) - One(c = <<q, e>>) + One(c \in Spread(events))
<1> DEFINE B == inbox (-) SetToBag({<<q, e>>})
<1>1. /\ IsABag(SetToBag(Spread(events)))
      /\ \A c : NumberIn(c, SetToBag(Spread(events))) = IF c \in Spread(events) THEN 1 ELSE 0
  BY BagOfSet
<1>2. BagIn(<<q, e>>, inbox) /\ inbox' = B (+) SetToBag(Spread(events))
  BY DEF Handles, Copies, Spread
<1>3. IsABag(B) /\ \A c : NumberIn(c, B) = NumberIn(c, inbox) - IF c = <<q, e>> THEN 1 ELSE 0
  BY <1>2, BagTake
<1> HIDE DEF B
<1>4. IsABag(inbox') /\ \A c : NumberIn(c, inbox') = NumberIn(c, B) + NumberIn(c, SetToBag(Spread(events)))
  BY <1>1, <1>2, <1>3, BagSum
<1>5. Count(<<q, e>>) > 0
  BY <1>2, BagCount DEF Count
<1> QED BY <1>1, <1>3, <1>4, <1>5 DEF Count, One

(* Where the copies of an event go.                                        *)
LEMMA SpreadOf ==
  ASSUME NEW events
  PROVE  /\ \A c \in Spread(events) : c = <<c[1], c[2]>> /\ c[2] \in events
         /\ \A t : <<"requests", Event("created", t, "none")>> \in Spread(events)
                   <=> Event("created", t, "none") \in events
         /\ \A t, n : <<"executor", Event("dispatch", t, n)>> \in Spread(events)
                      <=> Event("dispatch", t, n) \in events
         /\ events \subseteq Events => Spread(events) \subseteq Queues \X Events
<1>1. \A e, q : <<q, e>> \in Spread(events) <=> e \in events /\ q \in BoundTo(e)
  BY DEF Spread
<1>2. \A c \in Spread(events) : c = <<c[1], c[2]>> /\ c[2] \in events
  BY DEF Spread
<1>3. \A t : BoundTo(Event("created", t, "none")) = {"requests"}
  BY DEF BoundTo, Event
<1>4. \A t, n : BoundTo(Event("dispatch", t, n)) = {"executor"}
  BY DEF BoundTo, Event
<1>5. \A e : BoundTo(e) \subseteq Queues
  BY DEF BoundTo, Queues
<1> QED BY <1>1, <1>2, <1>3, <1>4, <1>5

(***************************************************************************)
(* Types.                                                                  *)
(***************************************************************************)
MessageTypes == IsABag(inbox) /\ BagToSet(inbox) \subseteq Queues \X Events

StoreTypes ==
    /\ row \in [Tasks -> Lifecycle!Stages]
    /\ assigned \in [Tasks -> Nodes \cup {NoNode}]
    /\ retried \in [Tasks -> Nat] /\ regressed \in [Tasks -> Nat]

KeyTypes ==
    /\ classified \subseteq Tasks /\ made \subseteq Tasks
    /\ proposals \in [Tasks -> SUBSET (Nodes \cup {NoNode})]
    /\ risk \in [Tasks -> {"none", "foreign", "low", "high"}]

AttemptTypes ==
    /\ stored \in Tasks \cup {NoTask} /\ skipped \subseteq Tasks
    /\ attempt \in [Tasks -> Attempts]

PoolTypes ==
    /\ nodes \subseteq Nodes /\ failed \subseteq nodes /\ failing \subseteq Nodes
    /\ exec \in [task : Tasks, node : Nodes] \cup {Idle}
    /\ cooling \in BOOLEAN
    /\ blocked \subseteq Tasks /\ lost \subseteq Tasks
    /\ cooldowns \in 0 .. MaxCooldowns /\ faults \in 0 .. MaxFaults

LEMMA TypeParts == TypeOK <=> MessageTypes /\ StoreTypes /\ KeyTypes /\ AttemptTypes /\ PoolTypes
BY Zenon DEF TypeOK, MessageTypes, StoreTypes, KeyTypes, AttemptTypes, PoolTypes

LEMMA InBag ==
  ASSUME IsABag(inbox), NEW c
  PROVE  Count(c) \in Nat /\ (c \in BagToSet(inbox) <=> Count(c) > 0)
BY BagCount DEF Count, BagIn

LEMMA EventTypes ==
  ASSUME NEW t \in Tasks
  PROVE  /\ \A k \in {"created", "classified", "place", "scaled"} : Event(k, t, "none") \in Events
         /\ \A n \in Nodes \cup {NoNode} : Event("fit", t, n) \in Events
         /\ \A s \in {"low", "high"} : Event("risk", t, s) \in Events
         /\ \A n \in Nodes : Event("dispatch", t, n) \in Events
         /\ \A p \in {"requeue", "advisory"} : Event("scale", t, p) \in Events
BY DEF Event, Events

(* What any step does to the messages.                                     *)
Transfers(events) ==
    \/ inbox' = inbox
    \/ Publish(events)
    \/ \E q, e : Handles(q, e, events)
    \/ \E c : BagIn(c, inbox) /\ inbox' = inbox (-) SetToBag({c})

LEMMA MessageSteps ==
  ASSUME TypeOK, Next
  PROVE  \E events \in SUBSET Events : Transfers(events)
<1>0. {} \in SUBSET Events
  OBVIOUS
<1>1. ASSUME NEW t \in Tasks, Consume(t)
      PROVE  \E events \in SUBSET Events : Transfers(events)
  <2>1. CASE Enqueue(t)
    <3>1. Announced(t) \in SUBSET Events
      BY EventTypes DEF Announced
    <3> QED BY <2>1, <3>1 DEF Enqueue, Transfers
  <2>2. CASE RequeueScaled(t)
    <3>1. SUBSET {Event("place", t, "none")} \subseteq SUBSET Events
      BY EventTypes
    <3> QED BY <2>2, <3>1 DEF RequeueScaled, Transfers
  <2>3. CASE Propose(t)
    <3>1. Fitting \subseteq Nodes
      BY DEF Fitting, TypeOK
    <3>2. {Event("fit", t, NoNode)} \in SUBSET Events /\ {Event("fit", t, n) : n \in Fitting} \in SUBSET Events
      BY <3>1, EventTypes
    <3> QED BY <2>3, <3>2 DEF Propose, Transfers
  <2>4. CASE \/ SignalClassified(t) \/ \E s \in Severities : SignalRisk(t, s)
             \/ \E n \in Nodes \cup {NoNode} : SignalFit(t, n)
             \/ AssessRaises(t) \/ Schedule(t)
    BY <1>0, <2>4 DEF SignalClassified, SignalRisk, SignalFit, Signal, AssessRaises, Schedule, Transfers
  <2>5. ASSUME NEW s \in Severities, Boost(t, s)
        PROVE  \E events \in SUBSET Events : Transfers(events)
    <3>1. SUBSET {Event("place", t, "none")} \subseteq SUBSET Events
      BY EventTypes
    <3> QED BY <2>5, <3>1 DEF Boost, Transfers
  <2>6. ASSUME NEW s \in Severities, Assess(t, s)
        PROVE  \E events \in SUBSET Events : Transfers(events)
    <3>1. {Event("risk", t, s)} \in SUBSET Events
      BY EventTypes, TasksAssumption
    <3> QED BY <2>6, <3>1 DEF Assess, Transfers
  <2>7. ASSUME NEW p \in {"requeue", "advisory"}, ScaleOut(t, p) \/ ScaleBlocked(t, p)
        PROVE  \E events \in SUBSET Events : Transfers(events)
    <3>1. {Event("scaled", t, "none")} \in SUBSET Events
      BY EventTypes
    <3> QED BY <1>0, <2>7, <3>1 DEF ScaleOut, ScaleBlocked, Transfers
  <2> QED BY <1>1, <2>1, <2>2, <2>3, <2>4, <2>5, <2>6, <2>7 DEF Consume
<1>2. ASSUME NEW t \in Tasks, Decide(t)
      PROVE  \E events \in SUBSET Events : Transfers(events)
  <2>1. CASE inbox' = inbox
    BY <1>0, <2>1 DEF Transfers
  <2>2. CASE AskScale(t)
    <3>1. {Event("scale", t, "requeue")} \in SUBSET Events
      BY EventTypes
    <3> QED BY <2>2, <3>1 DEF AskScale, Transfers
  <2>3. CASE Advise(t)
    <3>1. {Event("scale", t, "advisory")} \in SUBSET Events
      BY EventTypes
    <3> QED BY <2>3, <3>1 DEF Advise, Transfers
  <2>4. CASE SendDispatch(t)
    <3>1. attempt[t].node \in Nodes
      BY <2>4 DEF SendDispatch, GoesOn, TypeOK, Attempts, Open
    <3>2. {Event("dispatch", t, attempt[t].node)} \in SUBSET Events
      BY <3>1, EventTypes
    <3> QED BY <2>4, <3>2 DEF SendDispatch, Transfers
  <2> QED BY <1>2, <2>1, <2>2, <2>3, <2>4
        DEF Decide, LookInVain, Look, Degrade, DegradeRaises, RecordRow, Mark, Leave
<1>3. CASE Execute
  BY <1>0, <1>3 DEF Execute, Start, End, Transfers
<1>4. CASE Surroundings
  <2>1. ASSUME NEW t \in Tasks, Submit(t)
        PROVE  \E events \in SUBSET Events : Transfers(events)
    <3>1. {Event("created", t, "none")} \in SUBSET Events
      BY EventTypes
    <3> QED BY <2>1, <3>1 DEF Submit, Transfers
  <2>2. ASSUME NEW t \in Tasks, Redeliver(t)
        PROVE  \E events \in SUBSET Events : Transfers(events)
    <3>1. PICK c \in CopiesOf(t) : Publish({c[2]})
      BY <2>2 DEF Redeliver
    <3>2. {c[2]} \in SUBSET Events
      BY DEF CopiesOf, TypeOK
    <3> QED BY <3>1, <3>2 DEF Transfers
  <2>3. ASSUME NEW t \in Tasks, DeadLetter(t)
        PROVE  \E events \in SUBSET Events : Transfers(events)
    BY <1>0, <2>3 DEF DeadLetter, CopiesOf, BagIn, Transfers
  <2>4. CASE \/ \E t \in Tasks : SubmitFails(t) \/ AttemptDies(t)
             \/ CooldownEnds \/ \E n \in Nodes : FailNode(n) \/ FailRows(n)
    BY <1>0, <2>4 DEF SubmitFails, AttemptDies, CooldownEnds, FailNode, FailRows, Transfers
  <2> QED BY <1>4, <2>1, <2>2, <2>3, <2>4 DEF Surroundings
<1> QED BY <1>1, <1>2, <1>3, <1>4 DEF Next

(* So a copy was there before, or is that of an event bound to its queue.  *)
LEMMA CopiesAfter ==
  ASSUME TypeOK, NEW events \in SUBSET Events, Transfers(events)
  PROVE  IsABag(inbox') /\ BagToSet(inbox') \subseteq BagToSet(inbox) \cup Spread(events)
<1>0. IsABag(inbox)
  BY DEF TypeOK
<1>1. /\ IsABag(inbox')
      /\ \A c : Count(c)' > 0 => Count(c) > 0 \/ c \in Spread(events)
  <2>1. \A c : Count(c) \in Nat
    BY <1>0, InBag
  <2>2. CASE inbox' = inbox
    BY <1>0, <2>2 DEF Count
  <2>3. CASE Publish(events)
    BY <1>0, <2>1, <2>3, Sends DEF One
  <2>4. CASE \E q, e : Handles(q, e, events)
    <3>1. PICK q, e : Handles(q, e, events)
      BY <2>4
    <3>2. IsABag(inbox') /\ \A c : Count(c)' = Count(c) - One(c = <<q, e>>) + One(c \in Spread(events))
      BY <1>0, <3>1, TakesAndSends DEF One
    <3> QED BY <2>1, <3>2 DEF One
  <2>5. CASE \E c : BagIn(c, inbox) /\ inbox' = inbox (-) SetToBag({c})
    <3>1. PICK c : BagIn(c, inbox) /\ inbox' = inbox (-) SetToBag({c})
      BY <2>5
    <3>2. IsABag(inbox') /\ \A x : NumberIn(x, inbox') = NumberIn(x, inbox) - IF x = c THEN 1 ELSE 0
      BY <1>0, <3>1, BagTake
    <3> QED BY <2>1, <3>2 DEF Count
  <2> QED BY <2>2, <2>3, <2>4, <2>5 DEF Transfers
<1>2. \A c : c \in BagToSet(inbox') <=> Count(c)' > 0
  BY <1>1, BagCount DEF Count, BagIn
<1>3. \A c : c \in BagToSet(inbox) <=> Count(c) > 0
  BY <1>0, InBag
<1> QED BY <1>1, <1>2, <1>3

LEMMA MessagesStep ==
  ASSUME TypeOK, Next
  PROVE  MessageTypes'
BY MessageSteps, CopiesAfter, SpreadOf DEF TypeOK, MessageTypes

LEMMA SetRowTyped ==
  ASSUME StoreTypes, NEW t \in Tasks, NEW s \in Lifecycle!Stages, SetRow(t, s)
  PROVE  row' \in [Tasks -> Lifecycle!Stages] /\ regressed' \in [Tasks -> Nat]
BY DEF SetRow, StoreTypes

LEMMA StagesAre ==
  /\ {"created", "classified", "dispatched", "running", "failed", "done"} \subseteq Lifecycle!Stages
  /\ "absent" \in Lifecycle!Stages
BY DEF Lifecycle!Stages

LEMMA StoresStep ==
  ASSUME TypeOK, Next
  PROVE  StoreTypes'
<1>0. StoreTypes
  BY TypeParts
<1>1. ASSUME NEW t \in Tasks, NEW s \in Lifecycle!Stages, SetRow(t, s), assigned' = assigned, retried' = retried
      PROVE  StoreTypes'
  BY <1>0, <1>1, SetRowTyped DEF StoreTypes
<1>2. ASSUME UNCHANGED stores, retried' = retried
      PROVE  StoreTypes'
  BY <1>0, <1>2 DEF stores, StoreTypes
<1>3. ASSUME NEW t \in Tasks, Consume(t)
      PROVE  StoreTypes'
  <2>1. CASE Enqueue(t)
    BY <1>1, <2>1, StagesAre DEF Enqueue, history
  <2>2. CASE ~Enqueue(t)
    BY <1>2, <1>3, <2>2 DEF Consume, RequeueScaled, Propose, SignalClassified, Boost, Assess, AssessRaises,
       SignalRisk, SignalFit, Signal, Schedule, ScaleOut, ScaleBlocked, history
  <2> QED BY <2>1, <2>2
<1>4. ASSUME NEW t \in Tasks, Decide(t)
      PROVE  StoreTypes'
  <2>1. CASE ~RecordRow(t)
    BY <1>2, <1>4, <2>1 DEF Decide, LookInVain, Look, Degrade, DegradeRaises, AskScale, SendDispatch, Mark,
       Advise, Leave, history
  <2>2. CASE RecordRow(t)
    <3>1. attempt[t].node \in Nodes
      BY <2>2 DEF RecordRow, GoesOn, TypeOK, Attempts, Open
    <3>2. assigned' = [assigned EXCEPT ![t] = attempt[t].node] /\ SetRow(t, "dispatched") /\ retried' = retried
      BY <2>2 DEF RecordRow, history
    <3> QED BY <1>0, <3>1, <3>2, SetRowTyped, StagesAre DEF StoreTypes
  <2> QED BY <2>1, <2>2
<1>5. CASE Execute
  <2>1. ASSUME NEW t \in Tasks, NEW n \in Nodes, Start(t, n)
        PROVE  StoreTypes'
    BY <1>1, <2>1, StagesAre DEF Start, history
  <2>2. CASE End
    <3>1. exec.task \in Tasks
      BY <2>2 DEF End, TypeOK, Idle
    <3> QED BY <1>1, <2>2, <3>1, StagesAre DEF End, history
  <2> QED BY <1>5, <2>1, <2>2 DEF Execute
<1>6. CASE Surroundings
  <2>1. ASSUME NEW t \in Tasks, Submit(t) \/ SubmitFails(t)
        PROVE  StoreTypes'
    BY <1>1, <2>1, StagesAre DEF Submit, SubmitFails, history
  <2>2. ASSUME NEW t \in Tasks, Redeliver(t) \/ AttemptDies(t)
        PROVE  StoreTypes'
    BY <1>0, <2>2 DEF Redeliver, AttemptDies, stores, StoreTypes
  <2>3. CASE \/ \E t \in Tasks : DeadLetter(t)
             \/ CooldownEnds \/ \E n \in Nodes : FailNode(n)
    BY <1>2, <2>3 DEF DeadLetter, CooldownEnds, FailNode, history
  <2>4. ASSUME NEW n \in Nodes, FailRows(n)
        PROVE  StoreTypes'
    BY <1>0, <2>4, StagesAre DEF FailRows, history, StoreTypes
  <2> QED BY <1>6, <2>1, <2>2, <2>3, <2>4 DEF Surroundings
<1> QED BY <1>3, <1>4, <1>5, <1>6 DEF Next

LEMMA KeysStep ==
  ASSUME TypeOK, Next
  PROVE  KeyTypes'
<1>0. KeyTypes
  BY TypeParts
<1>1. CASE UNCHANGED keys
  BY <1>0, <1>1 DEF keys, KeyTypes
<1>2. ASSUME NEW t \in Tasks, Consume(t)
      PROVE  KeyTypes'
  <2>1. CASE \/ SignalClassified(t) \/ \E s \in Severities : SignalRisk(t, s)
             \/ \E s \in Severities : Assess(t, s)
    BY <1>0, <2>1, TasksAssumption DEF SignalClassified, SignalRisk, Signal, Assess, KeyTypes
  <2>2. ASSUME NEW n \in Nodes \cup {NoNode}, SignalFit(t, n)
        PROVE  KeyTypes'
    BY <1>0, <2>2 DEF SignalFit, Signal, KeyTypes
  <2> QED
    BY <1>1, <1>2, <2>1, <2>2 DEF Consume, Enqueue, RequeueScaled, Propose, Boost, AssessRaises, Schedule,
       ScaleOut, ScaleBlocked
<1>3. ASSUME NEW t \in Tasks, Decide(t)
      PROVE  KeyTypes'
  <2>1. CASE Mark(t)
    BY <1>0, <2>1 DEF Mark, KeyTypes
  <2> QED BY <1>1, <1>3, <2>1 DEF Decide, LookInVain, Look, Degrade, DegradeRaises, AskScale, RecordRow,
          SendDispatch, Advise, Leave
<1>4. CASE Execute
  BY <1>1, <1>4 DEF Execute, Start, End
<1>5. CASE Surroundings
  BY <1>1, <1>5 DEF Surroundings, Submit, SubmitFails, Redeliver, DeadLetter, AttemptDies, CooldownEnds,
     FailNode, FailRows
<1> QED BY <1>2, <1>3, <1>4, <1>5 DEF Next

(* An attempt that goes on keeps its node, and has one where it needs one. *)
PhaseSet(t, to) == attempt' = [attempt EXCEPT ![t].at = to]

LEMMA GoesOnTyped ==
  ASSUME AttemptTypes, NEW t \in Tasks, NEW to, to \in Open \/ (attempt[t].at \in Chosen /\ to \in Chosen),
         PhaseSet(t, to)
  PROVE  attempt' \in [Tasks -> Attempts]
<1>1. attempt[t] \in Attempts
  BY DEF AttemptTypes
<1>2. attempt[t].node \in Nodes \cup {NoNode} /\ attempt[t].advise \in BOOLEAN
  BY <1>1 DEF Attempts
<1>3. attempt[t].at \in Chosen => attempt[t].node \in Nodes
  BY <1>1 DEF Attempts, Open, Chosen
<1>4. [attempt[t] EXCEPT !.at = to] = [at |-> to, node |-> attempt[t].node, advise |-> attempt[t].advise]
  BY <1>1 DEF Attempts
<1>5. [attempt[t] EXCEPT !.at = to] \in Attempts
  BY <1>2, <1>3, <1>4 DEF Attempts
<1> QED BY <1>5 DEF PhaseSet, AttemptTypes

LEMMA ChoosesTyped ==
  ASSUME AttemptTypes, NEW t \in Tasks, NEW candidates \in SUBSET (Nodes \cup {NoNode}),
         NEW advise \in BOOLEAN, Chooses(t, candidates, advise)
  PROVE  attempt' \in [Tasks -> Attempts]
<1>2. [at |-> "asking", node |-> NoNode, advise |-> FALSE] \in Attempts
  BY DEF Attempts, Open
<1>3. \A n \in Safe(candidates) : [at |-> "recording", node |-> n, advise |-> advise] \in Attempts
  BY DEF Safe, Attempts, Chosen
<1> QED BY <1>2, <1>3 DEF Chooses, AttemptTypes

LEMMA AttemptsStep ==
  ASSUME TypeOK, Next
  PROVE  AttemptTypes'
<1>0. AttemptTypes
  BY TypeParts
<1>1. CASE UNCHANGED deciding
  BY <1>0, <1>1 DEF deciding, AttemptTypes
<1>2. ASSUME NEW t \in Tasks, Consume(t)
      PROVE  AttemptTypes'
  <2>1. ASSUME NEW e, Signal(t, e)
        PROVE  AttemptTypes'
    BY <1>0, <2>1 DEF Signal, AttemptTypes
  <2>2. CASE Schedule(t)
    <3>1. stored' = NoTask /\ skipped' \subseteq Tasks
      BY <1>0, <2>2 DEF Schedule, AttemptTypes
    <3>2. PhaseSet(t, "window") \/ attempt' = attempt
      BY <2>2 DEF Schedule, PhaseSet
    <3>3. attempt' \in [Tasks -> Attempts]
      BY <1>0, <3>2, GoesOnTyped DEF Open, AttemptTypes
    <3> QED BY <3>1, <3>3 DEF AttemptTypes
  <2> QED
    BY <1>1, <1>2, <2>1, <2>2 DEF Consume, Enqueue, RequeueScaled, Propose, Boost, Assess, AssessRaises,
       SignalClassified, SignalRisk, SignalFit, ScaleOut, ScaleBlocked
<1>3. ASSUME NEW t \in Tasks, Decide(t)
      PROVE  AttemptTypes'
  <2>1. stored' = stored /\ skipped' \subseteq skipped
    BY <1>3 DEF Decide, LookInVain, Look, Degrade, DegradeRaises, AskScale, RecordRow, SendDispatch, Mark,
       Advise, Leave
  <2>2. ASSUME attempt' \in [Tasks -> Attempts]
        PROVE  AttemptTypes'
    BY <1>0, <2>1, <2>2 DEF AttemptTypes
  <2>3. CASE LookInVain(t) \/ DegradeRaises(t) \/ AskScale(t) \/ Advise(t)
    <3>1. PhaseSet(t, "over")
      BY <2>3 DEF LookInVain, DegradeRaises, AskScale, Advise, GoesOn, PhaseSet
    <3> QED BY <1>0, <2>2, <3>1, GoesOnTyped DEF Open
  <2>4. CASE Leave(t)
    <3>1. NoAttempt \in Attempts
      BY DEF NoAttempt, Attempts, Open
    <3> QED BY <1>0, <2>2, <2>4, <3>1 DEF Leave, AttemptTypes
  <2>5. CASE Look(t)
    <3>1. PICK advise \in BOOLEAN :
             \/ attempt' = [attempt EXCEPT ![t] = [at |-> "degrading", node |-> NoNode, advise |-> advise]]
             \/ Chooses(t, proposals[t], advise)
      BY <2>5 DEF Look
    <3>2. proposals[t] \in SUBSET (Nodes \cup {NoNode})
      BY DEF TypeOK
    <3>3. [at |-> "degrading", node |-> NoNode, advise |-> advise] \in Attempts
      BY DEF Attempts, Open
    <3> QED BY <1>0, <2>2, <3>1, <3>2, <3>3, ChoosesTyped DEF AttemptTypes
  <2>6. CASE Degrade(t)
    <3>1. Fitting \in SUBSET (Nodes \cup {NoNode})
      BY DEF Fitting, TypeOK
    <3>2. attempt[t].advise \in BOOLEAN
      BY <1>0 DEF AttemptTypes, Attempts
    <3> QED BY <1>0, <2>2, <2>6, <3>1, <3>2, ChoosesTyped DEF Degrade
  <2>7. CASE RecordRow(t) \/ SendDispatch(t) \/ Mark(t)
    <3>1. PICK to \in {"sending", "marking", "advising", "over"} :
             attempt[t].at \in {"recording", "sending", "marking"} /\ PhaseSet(t, to)
      BY <2>7 DEF RecordRow, SendDispatch, Mark, GoesOn, PhaseSet
    <3> QED BY <1>0, <2>2, <3>1, GoesOnTyped DEF Open, Chosen
  <2> QED BY <1>3, <2>3, <2>4, <2>5, <2>6, <2>7 DEF Decide
<1>4. CASE Execute
  BY <1>1, <1>4 DEF Execute, Start, End
<1>5. CASE Surroundings
  <2>1. ASSUME NEW t \in Tasks, AttemptDies(t)
        PROVE  AttemptTypes'
    <3>1. PhaseSet(t, "over") /\ stored' = stored /\ skipped' = skipped
      BY <2>1 DEF AttemptDies, PhaseSet
    <3>2. attempt' \in [Tasks -> Attempts]
      BY <1>0, <3>1, GoesOnTyped DEF Open
    <3> QED BY <1>0, <3>1, <3>2 DEF AttemptTypes
  <2> QED BY <1>1, <1>5, <2>1 DEF Surroundings, Submit, SubmitFails, Redeliver, DeadLetter, CooldownEnds,
     FailNode, FailRows
<1> QED BY <1>2, <1>3, <1>4, <1>5 DEF Next

LEMMA FaultTyped ==
  ASSUME PoolTypes, NEW w \in {1, 2}, Fault(w)
  PROVE  cooldowns' \in 0 .. MaxCooldowns /\ faults' \in 0 .. MaxFaults
BY BoundsAssumption DEF PoolTypes, Fault

LEMMA PoolStep ==
  ASSUME TypeOK, Next
  PROVE  PoolTypes'
<1>0. PoolTypes
  BY TypeParts
<1>1. CASE UNCHANGED <<pool, history, bounds>>
  BY <1>0, <1>1 DEF pool, history, bounds, PoolTypes, Idle
<1>2. ASSUME NEW t \in Tasks, Consume(t)
      PROVE  PoolTypes'
  <2>1. CASE \E p \in {"requeue", "advisory"} : ScaleOut(t, p)
    BY <1>0, <2>1 DEF ScaleOut, PoolTypes, history, bounds, Idle
  <2>2. CASE \E p \in {"requeue", "advisory"} : ScaleBlocked(t, p)
    BY <1>0, <2>2 DEF ScaleBlocked, PoolTypes, pool, bounds, Idle
  <2> QED
    BY <1>1, <1>2, <2>1, <2>2 DEF Consume, Enqueue, RequeueScaled, Propose, SignalClassified, Boost, Assess,
       AssessRaises, SignalRisk, SignalFit, Signal, Schedule
<1>3. ASSUME NEW t \in Tasks, Decide(t)
      PROVE  PoolTypes'
  BY <1>1, <1>3 DEF Decide, LookInVain, Look, Degrade, DegradeRaises, AskScale, RecordRow, SendDispatch, Mark,
     Advise, Leave
<1>4. CASE Execute
  BY <1>0, <1>4 DEF Execute, Start, End, PoolTypes, history, bounds, Idle
<1>5. CASE Surroundings
  <2>1. ASSUME NEW t \in Tasks, Submit(t)
        PROVE  PoolTypes'
    BY <1>1, <2>1 DEF Submit
  <2>2. ASSUME NEW t \in Tasks, SubmitFails(t) \/ DeadLetter(t) \/ AttemptDies(t)
        PROVE  PoolTypes'
    <3>1. UNCHANGED <<pool, blocked>> /\ lost' = lost \cup {t} /\ Fault(2)
      BY <2>2 DEF SubmitFails, DeadLetter, AttemptDies, Lose
    <3> QED BY <1>0, <3>1, FaultTyped DEF pool, PoolTypes, Idle
  <2>3. ASSUME NEW t \in Tasks, Redeliver(t)
        PROVE  PoolTypes'
    <3>1. UNCHANGED <<pool, blocked, lost>> /\ Fault(2)
      BY <2>3 DEF Redeliver
    <3> QED BY <1>0, <3>1, FaultTyped DEF pool, PoolTypes, Idle
  <2>5. CASE CooldownEnds
    <3>1. /\ UNCHANGED <<nodes, failed, failing, exec, history, faults>>
          /\ cooldowns < MaxCooldowns /\ cooldowns' = cooldowns + 1
      BY <2>5 DEF CooldownEnds
    <3>2. cooldowns' \in 0 .. MaxCooldowns
      BY <1>0, <3>1, BoundsAssumption DEF PoolTypes
    <3>3. cooling' \in BOOLEAN
      BY <2>5 DEF CooldownEnds
    <3> QED BY <1>0, <3>1, <3>2, <3>3 DEF history, PoolTypes, Idle
  <2>6. ASSUME NEW n \in Nodes, FailNode(n)
        PROVE  PoolTypes'
    <3>1. /\ Fault(1) /\ UNCHANGED <<nodes, exec, cooling, history>> /\ n \in nodes
          /\ failed' = failed \cup {n} /\ failing' = failing \cup {n}
      BY <2>6 DEF FailNode
    <3> QED BY <1>0, <3>1, FaultTyped DEF history, PoolTypes, Idle
  <2>7. ASSUME NEW n \in Nodes, FailRows(n)
        PROVE  PoolTypes'
    BY <1>0, <2>7 DEF FailRows, history, bounds, PoolTypes, Idle
  <2> QED BY <1>5, <2>1, <2>2, <2>3, <2>5, <2>6, <2>7 DEF Surroundings
<1> QED BY <1>2, <1>3, <1>4, <1>5 DEF Next

LEMMA TypesStep ==
  ASSUME TypeOK, [Next]_vars
  PROVE  TypeOK'
<1>1. CASE Next
  <2>1. MessageTypes' /\ StoreTypes' /\ KeyTypes' /\ AttemptTypes' /\ PoolTypes'
    BY <1>1, MessagesStep, StoresStep, KeysStep, AttemptsStep, PoolStep
  <2> QED BY <2>1 DEF TypeOK, MessageTypes, StoreTypes, KeyTypes, AttemptTypes, PoolTypes
<1>2. CASE UNCHANGED vars
  BY <1>2 DEF vars, stores, keys, deciding, pool, history, bounds, TypeOK, Idle
<1> QED BY <1>1, <1>2

LEMMA TypesInit == Init => TypeOK
<1> SUFFICES ASSUME Init PROVE TypeOK
  OBVIOUS
<1>1. MessageTypes
  BY DEF Init, MessageTypes, IsABag, EmptyBag, SetToBag, BagToSet
<1>2. StoreTypes /\ KeyTypes
  BY StagesAre DEF Init, StoreTypes, KeyTypes
<1>3. AttemptTypes
  BY DEF Init, AttemptTypes, NoAttempt, Attempts, Open
<1>4. PoolTypes
  <2>1. cooling \in BOOLEAN
    BY DEF Init
  <2> QED BY <2>1, NodesAssumption, BoundsAssumption DEF Init, PoolTypes
<1> QED BY <1>1, <1>2, <1>3, <1>4, TypeParts

(* The variables keep their types: the bag holds events of the bindings,   *)
(* an attempt that records or sends a decision has a node to decide for,   *)
(* and rows hold no status but those of the life cycle.                    *)
THEOREM TypeCorrect == Spec => []TypeOK
BY TypesInit, TypesStep, PTL DEF Spec

================================================================================
