--------------------------- MODULE TaskFlowRefinement ---------------------------
(***************************************************************************)
(* TaskFlow implements TaskLifecycle, and strands no task.                 *)
(*                                                                         *)
(* A retry is used up when it sets the row back.  That never happens more  *)
(* often than something was retried, because what is still under way can   *)
(* set the row back at most Debt(t) times: every copy of request.created   *)
(* but the first once, every execution but the first once, and a task that *)
(* can still be decided although a dispatch was recorded twice, by the row *)
(* of the decision and by the execution that follows it.  A decision is    *)
(* taken, and its execution under way, from the recorded row on.           *)
(***************************************************************************)
EXTENDS TaskFlowProofs

Creations(t) == Count(<<"requests", Event("created", t, "none")>>)
Dispatches(t) == [n \in Nodes |-> Count(<<"executor", Event("dispatch", t, n)>>)]

(* A dispatch is a node and the number of its copy.                        *)
Numbered(f) == {p \in Nodes \X Nat : p[2] < f[p[1]]}
Executions(t) == Cardinality(Numbered(Dispatches(t)))

Coming(t) == Executions(t) + One(attempt[t].at = "sending")
Decided(t) == t \in made \/ attempt[t].at \in {"sending", "marking"}

(* The next execution would be the first to be seen in the row.            *)
Fresh(t) == row[t] \in {"absent", "created", "classified", "dispatched"} /\ exec.task # t

Debt(t) ==
    LET creations == Creations(t)
        executions == Coming(t)
    IN  (IF row[t] = "created" /\ creations > 0 THEN creations - 1 ELSE creations)
        + (IF Decided(t)
           THEN IF Fresh(t) /\ executions > 0 THEN executions - 1 ELSE executions
           ELSE IF Fresh(t) THEN IF executions = 0 THEN 0 ELSE executions + 1
           ELSE executions + 2)

Solvent(t) == IsFiniteSet(Numbered(Dispatches(t))) /\ regressed[t] + Debt(t) <= retried[t]

(* Nobody hears of a task that has no row, or of one not yet classified    *)
(* anything but that it was created.                                       *)
Heard(t) ==
    /\ row[t] = "absent" => CopiesOf(t) = {}
    /\ row[t] \in {"absent", "created"} =>
           /\ t \notin classified /\ exec.task # t
           /\ \A c \in CopiesOf(t) : c[2].kind = "created"

(* An attempt that looked knows the task, and nobody else decides.         *)
Attempting(t) ==
    /\ attempt[t].at \notin {"none", "window", "over"} => t \in classified
    /\ attempt[t].at \in {"degrading", "asking", "recording", "sending", "marking"} => t \notin made

(* The executor's task and the rows.                                       *)
Executed(t) ==
    /\ row[t] = "running" => exec.task = t
    /\ exec.task = t => row[t] # "done"

(* Without a retry the stages come in order.                               *)
InOrder(t) == retried[t] = 0 =>
    /\ row[t] = "classified" => Coming(t) = 0
    /\ exec.task = t => row[t] \in {"running", "failed"}

TaskInv(t) == Solvent(t) /\ Heard(t) /\ Attempting(t) /\ Executed(t) /\ InOrder(t)

(* Copies lie in the queues bound to their event.                          *)
Routed == \A c \in BagToSet(inbox) : c[1] \in BoundTo(c[2])

FlowInv == TypeOK /\ Routed /\ \A t \in Tasks : TaskInv(t)

LEMMA RoutedStep ==
  ASSUME TypeOK, Routed, Next
  PROVE  Routed'
<1>1. PICK events \in SUBSET Events : Transfers(events)
  BY MessageSteps
<1>2. BagToSet(inbox') \subseteq BagToSet(inbox) \cup Spread(events)
  BY <1>1, CopiesAfter
<1>3. \A c \in Spread(events) : c[1] \in BoundTo(c[2])
  BY DEF Spread
<1> QED BY <1>2, <1>3 DEF Routed

LEMMA OneMore ==
  ASSUME NEW f \in [Nodes -> Nat], NEW g \in [Nodes -> Nat], NEW n \in Nodes, IsFiniteSet(Numbered(f)),
         g[n] = f[n] + 1, \A m \in Nodes : m # n => g[m] = f[m]
  PROVE  IsFiniteSet(Numbered(g)) /\ Cardinality(Numbered(g)) = Cardinality(Numbered(f)) + 1
<1>1. Numbered(g) = Numbered(f) \cup {<<n, f[n]>>}
  BY DEF Numbered
<1>2. <<n, f[n]>> \notin Numbered(f)
  BY DEF Numbered
<1> QED BY <1>1, <1>2, FS_AddElement

LEMMA OneLess ==
  ASSUME NEW f \in [Nodes -> Nat], NEW g \in [Nodes -> Nat], NEW n \in Nodes, IsFiniteSet(Numbered(f)),
         g[n] = f[n] - 1, \A m \in Nodes : m # n => g[m] = f[m]
  PROVE  IsFiniteSet(Numbered(g)) /\ Cardinality(Numbered(g)) = Cardinality(Numbered(f)) - 1
<1>1. Numbered(g) = Numbered(f) \ {<<n, g[n]>>}
  BY DEF Numbered
<1>2. <<n, g[n]>> \in Numbered(f)
  BY DEF Numbered
<1> QED BY <1>1, <1>2, FS_RemoveElement

LEMMA NoneNumbered ==
  ASSUME NEW f \in [Nodes -> Nat], IsFiniteSet(Numbered(f))
  PROVE  /\ Cardinality(Numbered(f)) \in Nat
         /\ \A n \in Nodes : f[n] > 0 => Cardinality(Numbered(f)) > 0
<1>1. Cardinality(Numbered(f)) \in Nat
  BY FS_CardinalityType
<1>2. ASSUME NEW n \in Nodes, f[n] > 0
      PROVE  Cardinality(Numbered(f)) > 0
  <2>1. <<n, 0>> \in Numbered(f)
    BY <1>2 DEF Numbered
  <2> QED BY <1>1, <2>1, FS_EmptySet
<1> QED BY <1>1, <1>2

LEMMA Numbers ==
  ASSUME TypeOK, NEW t \in Tasks, Solvent(t)
  PROVE  /\ Creations(t) \in Nat /\ Executions(t) \in Nat /\ Dispatches(t) \in [Nodes -> Nat]
         /\ \A n \in Nodes : Dispatches(t)[n] > 0 => Executions(t) > 0
         /\ retried[t] \in Nat /\ regressed[t] \in Nat
<1>1. Creations(t) \in Nat /\ \A n \in Nodes : Count(<<"executor", Event("dispatch", t, n)>>) \in Nat
  BY InBag DEF Creations, TypeOK
<1>2. Dispatches(t) \in [Nodes -> Nat]
  BY <1>1 DEF Dispatches
<1>3. IsFiniteSet(Numbered(Dispatches(t)))
  BY DEF Solvent
<1>4. retried[t] \in Nat /\ regressed[t] \in Nat
  BY DEF TypeOK
<1> QED BY <1>1, <1>2, <1>3, <1>4, NoneNumbered DEF Executions

(***************************************************************************)
(* Messages of one task leave the others alone.                            *)
(***************************************************************************)
Elsewhere(t) == \A c \in Queues \X Events : c[2].task # t => Count(c)' = Count(c)

LEMMA CopiesCounted ==
  ASSUME TypeOK, NEW t
  PROVE  CopiesOf(t) = {c \in Queues \X Events : c[2].task = t /\ Count(c) > 0}
BY InBag DEF TypeOK, CopiesOf

LEMMA OthersCopies ==
  ASSUME TypeOK, TypeOK', NEW t \in Tasks, Elsewhere(t), NEW u \in Tasks, u # t
  PROVE  Creations(u)' = Creations(u) /\ Dispatches(u)' = Dispatches(u) /\ CopiesOf(u)' = CopiesOf(u)
<1>1. /\ <<"requests", Event("created", u, "none")>> \in Queues \X Events
      /\ \A n \in Nodes : <<"executor", Event("dispatch", u, n)>> \in Queues \X Events
  BY EventTypes DEF Queues
<1>2. Event("created", u, "none").task = u /\ \A n \in Nodes : Event("dispatch", u, n).task = u
  BY DEF Event
<1>3. Creations(u)' = Creations(u)
  BY <1>1, <1>2 DEF Elsewhere, Creations
<1>4. Dispatches(u)' = Dispatches(u)
  BY <1>1, <1>2 DEF Elsewhere, Dispatches
<1>5. CopiesOf(u)' = {c \in Queues \X Events : c[2].task = u /\ Count(c)' > 0}
  <2>1. IsABag(inbox') /\ BagToSet(inbox)' \subseteq Queues \X Events
    BY DEF TypeOK
  <2>2. \A c : c \in BagToSet(inbox)' <=> Count(c)' > 0
    BY <2>1, BagCount DEF Count, BagIn
  <2> QED BY <2>1, <2>2 DEF CopiesOf
<1>6. CopiesOf(u)' = CopiesOf(u)
  BY <1>5, CopiesCounted DEF Elsewhere
<1> QED BY <1>3, <1>4, <1>6

Aside(t) ==
    /\ Elsewhere(t)
    /\ \A u \in Tasks : u # t =>
           /\ row'[u] = row[u] /\ retried'[u] = retried[u] /\ regressed'[u] = regressed[u]
           /\ (u \in made' <=> u \in made) /\ (u \in classified' <=> u \in classified)
           /\ (exec'.task = u <=> exec.task = u) /\ attempt'[u] = attempt[u]

LEMMA OthersKept ==
  ASSUME FlowInv, TypeOK', NEW t \in Tasks, Aside(t), NEW u \in Tasks, u # t
  PROVE  TaskInv(u)'
<1>1. Creations(u)' = Creations(u) /\ Dispatches(u)' = Dispatches(u) /\ CopiesOf(u)' = CopiesOf(u)
  BY OthersCopies DEF FlowInv, Aside
<1>2. /\ row'[u] = row[u] /\ retried'[u] = retried[u] /\ regressed'[u] = regressed[u]
      /\ (u \in made' <=> u \in made) /\ (u \in classified' <=> u \in classified)
      /\ (exec'.task = u <=> exec.task = u) /\ attempt'[u] = attempt[u]
  BY DEF Aside
<1>3. /\ Executions(u)' = Executions(u) /\ (Fresh(u)' <=> Fresh(u))
      /\ Coming(u)' = Coming(u) /\ (Decided(u)' <=> Decided(u))
  BY <1>1, <1>2 DEF Executions, Fresh, Coming, Decided
<1>4. TaskInv(u)
  BY DEF FlowInv
<1>5. Solvent(u)'
  BY <1>1, <1>2, <1>3, <1>4 DEF Solvent, Debt, TaskInv
<1>6. Heard(u)' /\ Attempting(u)' /\ Executed(u)' /\ InOrder(u)'
  BY <1>1, <1>2, <1>3, <1>4 DEF TaskInv, Heard, Attempting, Executed, InOrder
<1> QED BY <1>5, <1>6 DEF TaskInv

LEMMA Handled ==
  ASSUME TypeOK, TypeOK', NEW t \in Tasks, NEW q, NEW e, NEW events, Handles(q, e, events),
         e.task = t, \A x \in events : x.task = t
  PROVE  /\ Elsewhere(t) /\ <<q, e>> \in CopiesOf(t)
         /\ Creations(t)' = Creations(t) - One(<<q, e>> = <<"requests", Event("created", t, "none")>>)
                                         + One(Event("created", t, "none") \in events)
         /\ \A n \in Nodes : Dispatches(t)'[n] = Dispatches(t)[n]
                - One(<<q, e>> = <<"executor", Event("dispatch", t, n)>>)
                + One(Event("dispatch", t, n) \in events)
         /\ \A c \in CopiesOf(t)' : c \in CopiesOf(t) \/ c[2] \in events
<1>0. IsABag(inbox)
  BY DEF TypeOK
<1>1. Count(<<q, e>>) > 0 /\ \A c : Count(c)' = Count(c) - One(c = <<q, e>>) + One(c \in Spread(events))
  BY <1>0, TakesAndSends DEF One
<1>2. \A c : Count(c) \in Nat
  BY <1>0, InBag
<1>3. \A c : c[2].task # t => c # <<q, e>> /\ c \notin Spread(events)
  BY SpreadOf
<1>4. Elsewhere(t)
  BY <1>1, <1>2, <1>3 DEF Elsewhere, One
<1>5. <<q, e>> \in CopiesOf(t)
  BY <1>0, <1>1, InBag DEF CopiesOf
<1>6. Creations(t)' = Creations(t) - One(<<q, e>> = <<"requests", Event("created", t, "none")>>)
                                   + One(Event("created", t, "none") \in events)
  BY <1>1, SpreadOf DEF Creations, One
<1>7. ASSUME NEW n \in Nodes
      PROVE  Dispatches(t)'[n] = Dispatches(t)[n] - One(<<q, e>> = <<"executor", Event("dispatch", t, n)>>)
                + One(Event("dispatch", t, n) \in events)
  BY <1>1, SpreadOf DEF Dispatches, One
<1>8. ASSUME NEW c \in CopiesOf(t)'
      PROVE  c \in CopiesOf(t) \/ c[2] \in events
  <2>1. IsABag(inbox') /\ c \in BagToSet(inbox') /\ c[2].task = t
    BY DEF TypeOK, CopiesOf
  <2>2. Count(c)' > 0
    BY <2>1, BagCount DEF Count, BagIn
  <2>3. Count(c) > 0 \/ c \in Spread(events)
    BY <1>1, <1>2, <2>2 DEF One
  <2> QED BY <1>0, <2>1, <2>3, InBag, SpreadOf DEF CopiesOf
<1> QED BY <1>4, <1>5, <1>6, <1>7, <1>8

LEMMA Published ==
  ASSUME TypeOK, TypeOK', NEW t \in Tasks, NEW events, Publish(events), \A x \in events : x.task = t
  PROVE  /\ Elsewhere(t)
         /\ Creations(t)' = Creations(t) + One(Event("created", t, "none") \in events)
         /\ \A n \in Nodes : Dispatches(t)'[n] = Dispatches(t)[n] + One(Event("dispatch", t, n) \in events)
         /\ \A c \in CopiesOf(t)' : c \in CopiesOf(t) \/ c[2] \in events
<1>0. IsABag(inbox)
  BY DEF TypeOK
<1>1. \A c : Count(c)' = Count(c) + One(c \in Spread(events))
  BY <1>0, Sends DEF One
<1>2. \A c : Count(c) \in Nat
  BY <1>0, InBag
<1>3. \A c : c[2].task # t => c \notin Spread(events)
  BY SpreadOf
<1>4. Elsewhere(t)
  BY <1>1, <1>2, <1>3 DEF Elsewhere, One
<1>5. Creations(t)' = Creations(t) + One(Event("created", t, "none") \in events)
  BY <1>1, SpreadOf DEF Creations, One
<1>6. ASSUME NEW n \in Nodes
      PROVE  Dispatches(t)'[n] = Dispatches(t)[n] + One(Event("dispatch", t, n) \in events)
  BY <1>1, SpreadOf DEF Dispatches, One
<1>7. ASSUME NEW c \in CopiesOf(t)'
      PROVE  c \in CopiesOf(t) \/ c[2] \in events
  <2>1. IsABag(inbox') /\ c \in BagToSet(inbox') /\ c[2].task = t
    BY DEF TypeOK, CopiesOf
  <2>2. Count(c)' > 0
    BY <2>1, BagCount DEF Count, BagIn
  <2>3. Count(c) > 0 \/ c \in Spread(events)
    BY <1>1, <1>2, <2>2 DEF One
  <2> QED BY <1>0, <2>1, <2>3, InBag, SpreadOf DEF CopiesOf
<1> QED BY <1>4, <1>5, <1>6, <1>7

(* Dispatches(t) as the function it is after the step.                     *)
LEMMA NumbersAfter ==
  ASSUME TypeOK', NEW t \in Tasks
  PROVE  Creations(t)' \in Nat /\ Dispatches(t)' \in [Nodes -> Nat]
<1>1. IsABag(inbox')
  BY DEF TypeOK
<1>2. \A c : Count(c)' \in Nat
  BY <1>1, BagCount DEF Count
<1> QED BY <1>2 DEF Creations, Dispatches

LEMMA SameExecutions ==
  ASSUME TypeOK, TypeOK', NEW t \in Tasks, Solvent(t), \A n \in Nodes : Dispatches(t)'[n] = Dispatches(t)[n]
  PROVE  IsFiniteSet(Numbered(Dispatches(t)))' /\ Executions(t)' = Executions(t)
<1>1. Dispatches(t)' = Dispatches(t)
  BY Numbers, NumbersAfter
<1> QED BY <1>1 DEF Solvent, Executions

LEMMA ExecutionAdded ==
  ASSUME TypeOK, TypeOK', NEW t \in Tasks, Solvent(t), NEW n \in Nodes,
         \A m \in Nodes : Dispatches(t)'[m] = Dispatches(t)[m] + One(m = n)
  PROVE  IsFiniteSet(Numbered(Dispatches(t)))' /\ Executions(t)' = Executions(t) + 1
<1> DEFINE f == Dispatches(t)
           g == Dispatches(t)'
<1>1. f \in [Nodes -> Nat] /\ g \in [Nodes -> Nat]
  BY Numbers, NumbersAfter
<1>2. IsFiniteSet(Numbered(f))
  BY DEF Solvent
<1>3. g[n] = f[n] + 1 /\ \A m \in Nodes : m # n => g[m] = f[m]
  BY <1>1 DEF One
<1> HIDE DEF f, g
<1>4. IsFiniteSet(Numbered(g)) /\ Cardinality(Numbered(g)) = Cardinality(Numbered(f)) + 1
  BY <1>1, <1>2, <1>3, OneMore
<1> QED BY <1>4 DEF Executions, f, g, Numbered

LEMMA ExecutionTaken ==
  ASSUME TypeOK, TypeOK', NEW t \in Tasks, Solvent(t), NEW n \in Nodes,
         \A m \in Nodes : Dispatches(t)'[m] = Dispatches(t)[m] - One(m = n)
  PROVE  IsFiniteSet(Numbered(Dispatches(t)))' /\ Executions(t)' = Executions(t) - 1
<1> DEFINE f == Dispatches(t)
           g == Dispatches(t)'
<1>1. f \in [Nodes -> Nat] /\ g \in [Nodes -> Nat]
  BY Numbers, NumbersAfter
<1>2. IsFiniteSet(Numbered(f))
  BY DEF Solvent
<1>3. g[n] = f[n] - 1 /\ \A m \in Nodes : m # n => g[m] = f[m]
  BY <1>1 DEF One
<1> HIDE DEF f, g
<1>4. IsFiniteSet(Numbered(g)) /\ Cardinality(Numbered(g)) = Cardinality(Numbered(f)) - 1
  BY <1>1, <1>2, <1>3, OneLess
<1> QED BY <1>4 DEF Executions, f, g, Numbered

(***************************************************************************)
(* The steps.  A step is about one task, whose row it may set.             *)
(***************************************************************************)
Advances(t, s, retries) ==
    /\ SetRow(t, s)
    /\ retried' = [retried EXCEPT ![t] = @ + retries]
    /\ s \in Lifecycle!Successors[row[t]] \cup {row[t]} \/ retried[t] + retries > 0

Rests == UNCHANGED <<row, retried, regressed>>

(* The attempt goes on, but is no more and no less of a decision.          *)
Calm(t) ==
    /\ Decided(t)' <=> Decided(t)
    /\ attempt'[t].at = "sending" <=> attempt[t].at = "sending"
    /\ Attempting(t)'
    /\ \A u \in Tasks : u # t =>
           (u \in classified' <=> u \in classified) /\ (u \in made' <=> u \in made) /\ attempt'[u] = attempt[u]

(* Talk about a task that everybody knows.                                 *)
Talk(t) ==
    /\ Elsewhere(t)
    /\ Creations(t)' = Creations(t)
    /\ \A n \in Nodes : Dispatches(t)'[n] = Dispatches(t)[n]
    /\ row[t] \notin {"absent", "created"}
    /\ Rests /\ exec' = exec /\ Calm(t)

LEMMA TalkKeeps ==
  ASSUME FlowInv, TypeOK', NEW t \in Tasks, Talk(t)
  PROVE  TaskInv(t)' /\ Aside(t)
<1>1. TaskInv(t) /\ TypeOK
  BY DEF FlowInv
<1>2. /\ Creations(t)' = Creations(t) /\ Rests /\ exec' = exec /\ row[t] \notin {"absent", "created"}
      /\ Calm(t) /\ Elsewhere(t)
  BY DEF Talk
<1>3. IsFiniteSet(Numbered(Dispatches(t)))' /\ Executions(t)' = Executions(t)
  BY <1>1, SameExecutions DEF Talk, TaskInv
<1>4. (Fresh(t)' <=> Fresh(t)) /\ Coming(t)' = Coming(t) /\ (Decided(t)' <=> Decided(t))
  BY <1>2, <1>3 DEF Fresh, Rests, Coming, Calm, One
<1>5. Solvent(t)'
  BY <1>1, <1>2, <1>3, <1>4 DEF Solvent, Debt, Rests, TaskInv
<1>6. Heard(t)' /\ Executed(t)' /\ InOrder(t)'
  BY <1>1, <1>2, <1>4 DEF Heard, Executed, InOrder, Rests, TaskInv
<1>7. Aside(t) /\ Attempting(t)'
  BY <1>2 DEF Calm, Aside, Rests
<1> QED BY <1>5, <1>6, <1>7 DEF TaskInv

(* One who hears anything but a creation hears of a task with a row.       *)
LEMMA HeardOf ==
  ASSUME FlowInv, NEW t \in Tasks, NEW c \in CopiesOf(t)
  PROVE  row[t] # "absent" /\ (c[2].kind # "created" => row[t] # "created")
BY DEF FlowInv, TaskInv, Heard

Small == {"classified", "place", "scaled", "fit", "risk", "scale"}

LEMMA TalkHandled ==
  ASSUME FlowInv, TypeOK', NEW t \in Tasks, NEW q, NEW e, NEW events, Handles(q, e, events),
         e.task = t, e.kind \in Small, \A x \in events : x.task = t /\ x.kind \in Small,
         Rests, exec' = exec, Calm(t)
  PROVE  Talk(t)
<1>0. TypeOK
  BY DEF FlowInv
<1>1. /\ Elsewhere(t) /\ <<q, e>> \in CopiesOf(t)
      /\ Creations(t)' = Creations(t) - One(<<q, e>> = <<"requests", Event("created", t, "none")>>)
                                      + One(Event("created", t, "none") \in events)
      /\ \A n \in Nodes : Dispatches(t)'[n] = Dispatches(t)[n]
                - One(<<q, e>> = <<"executor", Event("dispatch", t, n)>>)
                + One(Event("dispatch", t, n) \in events)
  BY <1>0, Handled DEF One
<1>2. /\ e # Event("created", t, "none") /\ Event("created", t, "none") \notin events
      /\ \A n \in Nodes : e # Event("dispatch", t, n) /\ Event("dispatch", t, n) \notin events
  BY DEF Event, Small
<1>3. row[t] \notin {"absent", "created"}
  BY <1>1, HeardOf DEF Small
<1>4. Creations(t)' = Creations(t) /\ \A n \in Nodes : Dispatches(t)'[n] = Dispatches(t)[n]
  <2>1. Creations(t) \in Nat /\ Dispatches(t) \in [Nodes -> Nat]
    BY <1>0, Numbers DEF FlowInv, TaskInv
  <2> QED BY <1>1, <1>2, <2>1 DEF One
<1> QED BY <1>1, <1>3, <1>4 DEF Talk

LEMMA EventFields ==
  ASSUME NEW k, NEW t, NEW a
  PROVE  Event(k, t, a).kind = k /\ Event(k, t, a).task = t /\ Event(k, t, a).about = a
BY DEF Event

LEMMA ConsumeTakes ==
  ASSUME FlowInv, NEW t \in Tasks, Consume(t), ~Enqueue(t), ~Schedule(t)
  PROVE  \E q, e, events : /\ Handles(q, e, events) /\ e.task = t /\ e.kind \in Small
                            /\ \A x \in events : x.task = t /\ x.kind \in Small
<1>1. CASE RequeueScaled(t)
  <2>1. PICK events \in SUBSET {Event("place", t, "none")} : Handles("requests", Event("scaled", t, "none"), events)
    BY <1>1 DEF RequeueScaled
  <2> QED BY <2>1, EventFields DEF Small
<1>2. CASE Propose(t)
  <2>1. PICK events \in SUBSET {Event("fit", t, n) : n \in Nodes \cup {NoNode}} :
           Handles("resources", Event("place", t, "none"), events)
    <3>1. Fitting \subseteq Nodes
      BY DEF Fitting, FlowInv, TypeOK
    <3>2. /\ {Event("fit", t, NoNode)} \in SUBSET {Event("fit", t, n) : n \in Nodes \cup {NoNode}}
          /\ {Event("fit", t, n) : n \in Fitting} \in SUBSET {Event("fit", t, n) : n \in Nodes \cup {NoNode}}
      BY <3>1
    <3> QED BY <1>2, <3>2 DEF Propose
  <2> QED BY <2>1, EventFields DEF Small
<1>3. CASE \/ SignalClassified(t) \/ \E s \in Severities : SignalRisk(t, s)
           \/ \E n \in Nodes \cup {NoNode} : SignalFit(t, n)
  BY <1>3, EventFields DEF SignalClassified, SignalRisk, SignalFit, Signal, Small
<1>4. ASSUME NEW s \in Severities, Boost(t, s)
      PROVE  \E q, e, events : /\ Handles(q, e, events) /\ e.task = t /\ e.kind \in Small
                               /\ \A x \in events : x.task = t /\ x.kind \in Small
  <2>1. PICK events \in SUBSET {Event("place", t, "none")} : Handles("requests", Event("risk", t, s), events)
    BY <1>4 DEF Boost
  <2> QED BY <2>1, EventFields DEF Small
<1>5. CASE \E s \in Severities : Assess(t, s)
  BY <1>5, EventFields DEF Assess, Small
<1>7. CASE AssessRaises(t)
  <2>1. Handles("sla", Event("classified", t, "none"), {})
    BY <1>7 DEF AssessRaises
  <2> QED BY <2>1, EventFields DEF Small
<1>6. ASSUME NEW p \in {"requeue", "advisory"}, ScaleOut(t, p) \/ ScaleBlocked(t, p)
      PROVE  \E q, e, events : /\ Handles(q, e, events) /\ e.task = t /\ e.kind \in Small
                               /\ \A x \in events : x.task = t /\ x.kind \in Small
  <2>1. PICK events \in SUBSET {Event("scaled", t, "none")} : Handles("scale", Event("scale", t, p), events)
    BY <1>6 DEF ScaleOut, ScaleBlocked
  <2> QED BY <2>1, EventFields DEF Small
<1> QED BY <1>1, <1>2, <1>3, <1>4, <1>5, <1>6, <1>7 DEF Consume

LEMMA ConsumeTalks ==
  ASSUME FlowInv, TypeOK', NEW t \in Tasks, Consume(t), ~Enqueue(t), ~Schedule(t)
  PROVE  Talk(t)
<1>1. Rests /\ UNCHANGED <<made, exec, attempt>>
  BY DEF Consume, RequeueScaled, Propose, SignalClassified, Boost, Assess, AssessRaises, SignalRisk,
     SignalFit, Signal, ScaleOut, ScaleBlocked, stores, keys, deciding, pool, history, Rests
<1>2. classified' = classified \/ classified' = classified \cup {t}
  BY DEF Consume, RequeueScaled, Propose, SignalClassified, Boost, Assess, AssessRaises, SignalRisk,
     SignalFit, Signal, ScaleOut, ScaleBlocked, keys
<1>3. \E q, e, events : /\ Handles(q, e, events) /\ e.task = t /\ e.kind \in Small
                        /\ \A x \in events : x.task = t /\ x.kind \in Small
  BY ConsumeTakes
<1>4. Attempting(t)
  BY DEF FlowInv, TaskInv
<1>5. Calm(t)
  BY <1>1, <1>2, <1>4 DEF Calm, Decided, Attempting
<1> QED BY <1>1, <1>3, <1>5, TalkHandled

(* The attempt's phase is set, and nothing of the others.                  *)
LEMMA PhaseIs ==
  ASSUME TypeOK, NEW t \in Tasks, NEW to, PhaseSet(t, to)
  PROVE  attempt'[t].at = to /\ \A u \in Tasks : u # t => attempt'[u] = attempt[u]
<1>1. attempt[t] \in Attempts
  BY DEF TypeOK
<1>2. [attempt[t] EXCEPT !.at = to].at = to
  BY <1>1 DEF Attempts
<1> QED BY <1>2 DEF PhaseSet, TypeOK

(* A request for a node, by an attempt that has no node or needs another.  *)
LEMMA DecideTalks ==
  ASSUME FlowInv, TypeOK', NEW t \in Tasks, AskScale(t) \/ Advise(t)
  PROVE  Talk(t)
<1>0. TypeOK /\ TaskInv(t)
  BY DEF FlowInv
<1>1. /\ attempt[t].at \in {"asking", "advising"} /\ PhaseSet(t, "over")
      /\ UNCHANGED <<stores, keys, pool, history>>
  BY DEF AskScale, Advise, GoesOn, PhaseSet
<1>a. PICK about \in {"requeue", "advisory"} : Publish({Event("scale", t, about)})
  BY DEF AskScale, Advise
<1>2. /\ Elsewhere(t)
      /\ Creations(t)' = Creations(t) + One(Event("created", t, "none") \in {Event("scale", t, about)})
      /\ \A n \in Nodes : Dispatches(t)'[n] = Dispatches(t)[n]
             + One(Event("dispatch", t, n) \in {Event("scale", t, about)})
  BY <1>0, <1>a, Published, EventFields DEF One
<1>3. /\ Event("created", t, "none") # Event("scale", t, about)
      /\ \A n \in Nodes : Event("dispatch", t, n) # Event("scale", t, about)
  BY DEF Event
<1>4. Creations(t) \in Nat /\ Dispatches(t) \in [Nodes -> Nat]
  BY <1>0, Numbers DEF TaskInv
<1>5. Creations(t)' = Creations(t) /\ \A n \in Nodes : Dispatches(t)'[n] = Dispatches(t)[n]
  BY <1>2, <1>3, <1>4 DEF One
<1>6. row[t] \notin {"absent", "created"}
  BY <1>0, <1>1 DEF TaskInv, Heard, Attempting
<1>7. attempt'[t].at = "over" /\ \A u \in Tasks : u # t => attempt'[u] = attempt[u]
  BY <1>0, <1>1, PhaseIs
<1>8. Calm(t)
  BY <1>1, <1>7 DEF Calm, Decided, Attempting, keys
<1> QED BY <1>1, <1>2, <1>5, <1>6, <1>8 DEF Talk, Rests, stores, pool, history

(***************************************************************************)
(* The steps that set a row or send a message that leads to one.           *)
(***************************************************************************)
LEMMA Ranks ==
  /\ Lifecycle!Rank["absent"] = 0 /\ Lifecycle!Rank["created"] = 1 /\ Lifecycle!Rank["classified"] = 2
  /\ Lifecycle!Rank["dispatched"] = 3 /\ Lifecycle!Rank["running"] = 4
  /\ Lifecycle!Rank["failed"] = 5 /\ Lifecycle!Rank["done"] = 6
BY DEF Lifecycle!Rank

LEMMA Follow ==
  /\ Lifecycle!Successors["absent"] = {"created"} /\ Lifecycle!Successors["created"] = {"classified"}
  /\ Lifecycle!Successors["classified"] = {"dispatched"}
  /\ Lifecycle!Successors["dispatched"] = {"running", "failed"}
  /\ Lifecycle!Successors["running"] = {"failed", "done"}
  /\ Lifecycle!Successors["failed"] = {"done"}
BY DEF Lifecycle!Successors

LEMMA RowSet ==
  ASSUME TypeOK, NEW t \in Tasks, NEW s \in Lifecycle!Stages, SetRow(t, s)
  PROVE  /\ row'[t] = s
         /\ Lifecycle!Rank[s] < Lifecycle!Rank[row[t]] => regressed'[t] = regressed[t] + 1
         /\ ~(Lifecycle!Rank[s] < Lifecycle!Rank[row[t]]) => regressed'[t] = regressed[t]
         /\ \A u \in Tasks : u # t => row'[u] = row[u] /\ regressed'[u] = regressed[u]
BY DEF TypeOK, SetRow

LEMMA RowIs ==
  ASSUME TypeOK, NEW t \in Tasks
  PROVE  row[t] \in {"absent", "created", "classified", "dispatched", "running", "failed", "done"}
BY DEF TypeOK, Lifecycle!Stages

(* A dispatch is counted, and one that is has a copy.                      *)
LEMMA UnheardNotSent ==
  ASSUME TypeOK, NEW t \in Tasks, TaskInv(t), row[t] \in {"absent", "created"}
  PROVE  Executions(t) = 0 /\ Coming(t) = 0
<1>0. attempt[t].at # "sending"
  BY DEF TaskInv, Heard, Attempting
<1>1. SUFFICES ASSUME Executions(t) # 0
               PROVE  FALSE
  BY <1>0 DEF Coming, One
<1>2. Numbered(Dispatches(t)) # {}
  BY <1>1, FS_EmptySet DEF Executions
<1>3. Dispatches(t) \in [Nodes -> Nat]
  BY Numbers DEF TaskInv
<1>4. PICK n \in Nodes : Dispatches(t)[n] > 0
  BY <1>2, <1>3 DEF Numbered
<1>5. <<"executor", Event("dispatch", t, n)>> \in CopiesOf(t)
  BY <1>4, InBag, EventFields DEF CopiesOf, Dispatches, TypeOK
<1>6. Event("dispatch", t, n).kind = "created"
  BY <1>5 DEF TaskInv, Heard
<1> QED BY <1>6, EventFields

LEMMA EnqueueStep ==
  ASSUME FlowInv, TypeOK', NEW t \in Tasks, Enqueue(t)
  PROVE  TaskInv(t)' /\ Aside(t) /\ Advances(t, "classified", 0)
<1>0. TypeOK /\ TaskInv(t)
  BY DEF FlowInv
<1>1. /\ Handles("requests", Event("created", t, "none"), Announced(t)) /\ SetRow(t, "classified")
      /\ UNCHANGED <<keys, deciding, pool, history>>
  BY DEF Enqueue
<1>2. /\ \A x \in Announced(t) : x.task = t /\ x.kind \notin {"created", "dispatch"}
      /\ Event("created", t, "none").task = t /\ Event("created", t, "none").kind = "created"
      /\ \A n \in Nodes : Event("dispatch", t, n).kind = "dispatch"
  BY EventFields DEF Announced
<1>3. /\ Elsewhere(t) /\ <<"requests", Event("created", t, "none")>> \in CopiesOf(t)
      /\ Creations(t)' = Creations(t)
             - One(<<"requests", Event("created", t, "none")>> = <<"requests", Event("created", t, "none")>>)
             + One(Event("created", t, "none") \in Announced(t))
      /\ \A n \in Nodes : Dispatches(t)'[n] = Dispatches(t)[n]
             - One(<<"requests", Event("created", t, "none")>> = <<"executor", Event("dispatch", t, n)>>)
             + One(Event("dispatch", t, n) \in Announced(t))
  BY <1>0, <1>1, <1>2, Handled DEF One
<1>4. /\ Creations(t) \in Nat /\ Executions(t) \in Nat /\ Dispatches(t) \in [Nodes -> Nat]
      /\ retried[t] \in Nat /\ regressed[t] \in Nat
  BY <1>0, Numbers DEF TaskInv
<1>5. Creations(t)' = Creations(t) - 1 /\ \A n \in Nodes : Dispatches(t)'[n] = Dispatches(t)[n]
  BY <1>2, <1>3, <1>4 DEF One
<1>6. IsFiniteSet(Numbered(Dispatches(t)))' /\ Executions(t)' = Executions(t)
  BY <1>0, <1>5, SameExecutions DEF TaskInv
<1>7. /\ Creations(t) > 0 /\ row[t] # "absent"
  <2>1. Creations(t)' \in Nat
    BY NumbersAfter
  <2>2. row[t] # "absent"
    BY <1>3, HeardOf
  <2> QED BY <1>4, <1>5, <2>1, <2>2
<1>8. /\ row'[t] = "classified"
      /\ Lifecycle!Rank["classified"] < Lifecycle!Rank[row[t]] => regressed'[t] = regressed[t] + 1
      /\ ~(Lifecycle!Rank["classified"] < Lifecycle!Rank[row[t]]) => regressed'[t] = regressed[t]
      /\ \A u \in Tasks : u # t => row'[u] = row[u] /\ regressed'[u] = regressed[u]
  BY <1>0, <1>1, RowSet, StagesAre
<1>9. made' = made /\ classified' = classified /\ exec' = exec /\ retried' = retried /\ attempt' = attempt
  BY <1>1 DEF keys, deciding, pool, history
<1>10. /\ Fresh(t)' <=> exec.task # t
       /\ Coming(t)' = Coming(t) /\ Coming(t) \in Nat /\ (Decided(t)' <=> Decided(t))
  BY <1>4, <1>6, <1>8, <1>9 DEF Fresh, Coming, Decided, One
<1>11. regressed[t] + Debt(t) <= retried[t]
  BY <1>0 DEF TaskInv, Solvent
<1>12. row[t] = "created" => exec.task # t
  BY <1>0 DEF TaskInv, Heard
<1>13. Solvent(t)'
  <2>1. regressed'[t] + Debt(t)' <= retried'[t]
    <3>1. CASE row[t] = "created"
      BY <1>4, <1>5, <1>7, <1>8, <1>9, <1>10, <1>11, <1>12, <3>1, Ranks DEF Debt, Fresh
    <3>2. CASE row[t] = "classified"
      BY <1>4, <1>5, <1>7, <1>8, <1>9, <1>10, <1>11, <3>2, Ranks DEF Debt, Fresh
    <3>3. CASE row[t] = "dispatched"
      BY <1>4, <1>5, <1>7, <1>8, <1>9, <1>10, <1>11, <3>3, Ranks DEF Debt, Fresh
    <3>4. CASE row[t] \in {"running", "failed", "done"}
      BY <1>4, <1>5, <1>7, <1>8, <1>9, <1>10, <1>11, <3>4, Ranks DEF Debt, Fresh
    <3> QED BY <1>0, <1>7, <3>1, <3>2, <3>3, <3>4, RowIs
  <2> QED BY <1>6, <2>1 DEF Solvent
<1>14. Heard(t)' /\ Attempting(t)' /\ Executed(t)'
  BY <1>0, <1>8, <1>9 DEF TaskInv, Heard, Attempting, Executed
<1>15. row[t] # "created" => retried[t] > 0
  BY <1>4, <1>7, <1>10, <1>11 DEF Debt
<1>16. row[t] = "created" => Coming(t) = 0
  BY <1>0, UnheardNotSent DEF TaskInv
<1>17. InOrder(t)'
  BY <1>8, <1>9, <1>10, <1>12, <1>15, <1>16 DEF InOrder
<1>18. Advances(t, "classified", 0)
  <2>1. retried' = [retried EXCEPT ![t] = @ + 0]
    BY <1>0, <1>9 DEF TypeOK
  <2> QED BY <1>1, <1>4, <1>15, <2>1, Follow DEF Advances
<1> QED BY <1>3, <1>8, <1>9, <1>13, <1>14, <1>17, <1>18 DEF TaskInv, Aside

(* A step that leaves the messages alone.                                  *)
LEMMA NoMessage ==
  ASSUME FlowInv, TypeOK', NEW t \in Tasks, inbox' = inbox
  PROVE  /\ Elsewhere(t) /\ Creations(t)' = Creations(t)
         /\ IsFiniteSet(Numbered(Dispatches(t)))' /\ Executions(t)' = Executions(t)
         /\ CopiesOf(t)' = CopiesOf(t)
<1>1. \A c : Count(c)' = Count(c)
  BY DEF Count
<1>2. Elsewhere(t) /\ Creations(t)' = Creations(t) /\ CopiesOf(t)' = CopiesOf(t)
  BY <1>1 DEF Elsewhere, Creations, CopiesOf
<1>3. Dispatches(t)' = Dispatches(t)
  BY <1>1 DEF Dispatches
<1>4. IsFiniteSet(Numbered(Dispatches(t)))
  BY DEF FlowInv, TaskInv, Solvent
<1> QED BY <1>2, <1>3, <1>4 DEF Executions

(* A row that is set to what it was.                                       *)
LEMMA SameRow ==
  ASSUME TypeOK, NEW t \in Tasks, UNCHANGED <<row, regressed>>
  PROVE  SetRow(t, row[t])
<1>1. row' = [row EXCEPT ![t] = row[t]]
  BY DEF TypeOK
<1>2. ~(Lifecycle!Rank[row[t]] < Lifecycle!Rank[row[t]])
  BY RowIs, Ranks
<1> QED BY <1>1, <1>2 DEF SetRow

(* An attempt records its decision.                                        *)
LEMMA RecordStep ==
  ASSUME FlowInv, TypeOK', NEW t \in Tasks, RecordRow(t)
  PROVE  TaskInv(t)' /\ Aside(t) /\ Advances(t, "dispatched", 0)
<1>0. TypeOK /\ TaskInv(t) /\ Solvent(t)
  BY DEF FlowInv, TaskInv
<1>1. /\ attempt[t].at = "recording" /\ PhaseSet(t, "sending") /\ SetRow(t, "dispatched")
      /\ inbox' = inbox /\ UNCHANGED <<classified, made, exec, retried>>
  BY DEF RecordRow, GoesOn, PhaseSet, keys, pool, history
<1>2. attempt'[t].at = "sending" /\ \A u \in Tasks : u # t => attempt'[u] = attempt[u]
  BY <1>0, <1>1, PhaseIs
<1>3. t \in classified /\ t \notin made /\ row[t] \notin {"absent", "created"}
  BY <1>0, <1>1 DEF TaskInv, Heard, Attempting
<1>4. /\ Elsewhere(t) /\ Creations(t)' = Creations(t)
      /\ IsFiniteSet(Numbered(Dispatches(t)))' /\ Executions(t)' = Executions(t)
  BY <1>1, NoMessage
<1>5. Creations(t) \in Nat /\ Executions(t) \in Nat /\ retried[t] \in Nat /\ regressed[t] \in Nat
  BY <1>0, Numbers
<1>6. Coming(t) = Executions(t) /\ Coming(t)' = Executions(t) + 1 /\ ~Decided(t) /\ Decided(t)'
  BY <1>1, <1>2, <1>3, <1>4, <1>5 DEF Coming, Decided, One
<1>7. /\ row'[t] = "dispatched"
      /\ Lifecycle!Rank["dispatched"] < Lifecycle!Rank[row[t]] => regressed'[t] = regressed[t] + 1
      /\ ~(Lifecycle!Rank["dispatched"] < Lifecycle!Rank[row[t]]) => regressed'[t] = regressed[t]
      /\ \A u \in Tasks : u # t => row'[u] = row[u] /\ regressed'[u] = regressed[u]
  BY <1>0, <1>1, RowSet, StagesAre
<1>8. Fresh(t)' <=> exec.task # t
  BY <1>1, <1>7 DEF Fresh
<1>9. regressed[t] + Debt(t) <= retried[t]
  BY <1>0 DEF Solvent
<1>10. regressed'[t] + Debt(t)' <= retried'[t]
  <2>1. CASE row[t] \in {"classified", "dispatched"}
    BY <1>1, <1>4, <1>5, <1>6, <1>7, <1>8, <1>9, <2>1, Ranks DEF Debt, Fresh
  <2>2. CASE row[t] \in {"running", "failed", "done"}
    BY <1>1, <1>4, <1>5, <1>6, <1>7, <1>8, <1>9, <2>2, Ranks DEF Debt, Fresh
  <2> QED BY <1>0, <1>3, <2>1, <2>2, RowIs
<1>11. retried[t] = 0 => exec.task # t /\ row[t] \in {"classified", "dispatched"}
  BY <1>0, <1>3, <1>5, <1>6, <1>9, RowIs DEF Debt, Fresh
<1>12. Solvent(t)' /\ Heard(t)' /\ Attempting(t)' /\ Executed(t)' /\ InOrder(t)'
  BY <1>1, <1>2, <1>3, <1>4, <1>7, <1>10, <1>11 DEF Solvent, Heard, Attempting, Executed, InOrder
<1>13. Advances(t, "dispatched", 0)
  <2>1. retried' = [retried EXCEPT ![t] = @ + 0]
    BY <1>0, <1>1 DEF TypeOK
  <2>2. "dispatched" \in Lifecycle!Successors[row[t]] \cup {row[t]} \/ retried[t] + 0 > 0
    BY <1>5, <1>11, Follow
  <2> QED BY <1>1, <2>1, <2>2 DEF Advances
<1> QED BY <1>1, <1>2, <1>4, <1>7, <1>12, <1>13 DEF TaskInv, Aside

(* The event that an attempt announced by its row.                         *)
LEMMA SendStep ==
  ASSUME FlowInv, TypeOK', NEW t \in Tasks, SendDispatch(t)
  PROVE  TaskInv(t)' /\ Aside(t) /\ Rests
<1>0. TypeOK /\ TaskInv(t) /\ Solvent(t)
  BY DEF FlowInv, TaskInv
<1>1. PICK n \in Nodes : Publish({Event("dispatch", t, n)})
  BY <1>0 DEF SendDispatch, GoesOn, TypeOK, Attempts, Open
<1>2. /\ attempt[t].at = "sending" /\ PhaseSet(t, "marking")
      /\ Rests /\ UNCHANGED <<classified, made, exec>>
  BY DEF SendDispatch, GoesOn, PhaseSet, stores, keys, pool, history, Rests
<1>3. attempt'[t].at = "marking" /\ \A u \in Tasks : u # t => attempt'[u] = attempt[u]
  BY <1>0, <1>2, PhaseIs
<1>4. Event("dispatch", t, n).task = t /\ Event("dispatch", t, n).kind = "dispatch"
  BY EventFields
<1>5. /\ Elsewhere(t)
      /\ Creations(t)' = Creations(t) + One(Event("created", t, "none") \in {Event("dispatch", t, n)})
      /\ \A m \in Nodes : Dispatches(t)'[m] = Dispatches(t)[m]
             + One(Event("dispatch", t, m) \in {Event("dispatch", t, n)})
  BY <1>0, <1>1, <1>4, Published DEF One
<1>6. /\ Creations(t) \in Nat /\ Executions(t) \in Nat /\ Dispatches(t) \in [Nodes -> Nat]
  BY <1>0, Numbers
<1>7. /\ Event("created", t, "none") # Event("dispatch", t, n)
      /\ \A m \in Nodes : Event("dispatch", t, m) = Event("dispatch", t, n) <=> m = n
  BY DEF Event
<1>8. Creations(t)' = Creations(t) /\ \A m \in Nodes : Dispatches(t)'[m] = Dispatches(t)[m] + One(m = n)
  BY <1>5, <1>6, <1>7 DEF One
<1>9. IsFiniteSet(Numbered(Dispatches(t)))' /\ Executions(t)' = Executions(t) + 1
  BY <1>0, <1>8, ExecutionAdded
<1>10. /\ Coming(t)' = Coming(t) /\ Coming(t) \in Nat
       /\ (Decided(t)' <=> Decided(t)) /\ (Fresh(t)' <=> Fresh(t))
  BY <1>2, <1>3, <1>6, <1>9 DEF Coming, Decided, Fresh, Rests, One
<1>11. Solvent(t)'
  BY <1>0, <1>2, <1>8, <1>9, <1>10 DEF Solvent, Debt, Rests
<1>12. row[t] \notin {"absent", "created"}
  BY <1>0, <1>2 DEF TaskInv, Heard, Attempting
<1>13. Heard(t)' /\ Attempting(t)' /\ Executed(t)' /\ InOrder(t)'
  BY <1>0, <1>2, <1>3, <1>10, <1>12 DEF TaskInv, Heard, Attempting, Executed, InOrder, Rests
<1> QED BY <1>2, <1>3, <1>5, <1>11, <1>13 DEF TaskInv, Aside, Rests

(* An attempt dies with a row recorded: a decision less, and two retries.  *)
LEMMA AbortStep ==
  ASSUME FlowInv, TypeOK', NEW t \in Tasks, AttemptDies(t), attempt[t].at \in {"sending", "marking"}
  PROVE  TaskInv(t)' /\ Aside(t) /\ Advances(t, row[t], 2)
<1>0. TypeOK /\ TaskInv(t) /\ Solvent(t)
  BY DEF FlowInv, TaskInv
<1>1. /\ PhaseSet(t, "over") /\ retried' = [retried EXCEPT ![t] = @ + 2]
      /\ inbox' = inbox /\ UNCHANGED <<row, regressed, classified, made, exec>>
  BY DEF AttemptDies, PhaseSet, stores, keys, pool
<1>2. attempt'[t].at = "over" /\ \A u \in Tasks : u # t => attempt'[u] = attempt[u]
  BY <1>0, <1>1, PhaseIs
<1>3. t \notin made /\ row[t] \notin {"absent", "created"}
  BY <1>0 DEF TaskInv, Heard, Attempting
<1>4. /\ Elsewhere(t) /\ Creations(t)' = Creations(t)
      /\ IsFiniteSet(Numbered(Dispatches(t)))' /\ Executions(t)' = Executions(t)
  BY <1>1, NoMessage
<1>5. Creations(t) \in Nat /\ Executions(t) \in Nat /\ retried[t] \in Nat /\ regressed[t] \in Nat
  BY <1>0, Numbers
<1>6. /\ Coming(t)' = Executions(t) /\ Coming(t) \in {Executions(t), Executions(t) + 1}
      /\ Decided(t) /\ ~Decided(t)'
  BY <1>1, <1>2, <1>3, <1>4, <1>5 DEF Coming, Decided, One
<1>7. retried'[t] = retried[t] + 2 /\ \A u \in Tasks : u # t => retried'[u] = retried[u]
  BY <1>0, <1>1 DEF TypeOK
<1>8. Fresh(t)' <=> Fresh(t)
  BY <1>1 DEF Fresh
<1>9. regressed[t] + Debt(t) <= retried[t]
  BY <1>0 DEF Solvent
<1>10. Solvent(t)'
  BY <1>1, <1>3, <1>4, <1>5, <1>6, <1>7, <1>8, <1>9 DEF Solvent, Debt
<1>11. Heard(t)' /\ Attempting(t)' /\ Executed(t)' /\ InOrder(t)'
  BY <1>0, <1>1, <1>2, <1>3, <1>5, <1>7 DEF TaskInv, Heard, Attempting, Executed, InOrder
<1>12. Advances(t, row[t], 2)
  BY <1>0, <1>1, <1>5, SameRow DEF Advances
<1> QED BY <1>1, <1>2, <1>4, <1>7, <1>10, <1>11, <1>12 DEF TaskInv, Aside

LEMMA StartStep ==
  ASSUME FlowInv, TypeOK', NEW t \in Tasks, NEW n \in Nodes, Start(t, n)
  PROVE  TaskInv(t)' /\ Aside(t) /\ \E s \in Lifecycle!Stages : Advances(t, s, 0)
<1>0. TypeOK /\ TaskInv(t) /\ Solvent(t)
  BY DEF FlowInv, TaskInv
<1>1. /\ exec = Idle /\ Handles("executor", Event("dispatch", t, n), {})
      /\ UNCHANGED <<classified, made, retried, attempt>>
  BY DEF Start, keys, deciding, history
<1>2. PICK s \in {"failed", "running"} :
        /\ SetRow(t, s)
        /\ s = "failed" => exec' = exec
        /\ s = "running" => exec' = [task |-> t, node |-> n]
  BY DEF Start
<1>3. Event("dispatch", t, n).task = t
  BY EventFields
<1>4. /\ Elsewhere(t) /\ <<"executor", Event("dispatch", t, n)>> \in CopiesOf(t)
      /\ Creations(t)' = Creations(t)
             - One(<<"executor", Event("dispatch", t, n)>> = <<"requests", Event("created", t, "none")>>)
             + One(Event("created", t, "none") \in {})
      /\ \A m \in Nodes : Dispatches(t)'[m] = Dispatches(t)[m]
             - One(<<"executor", Event("dispatch", t, n)>> = <<"executor", Event("dispatch", t, m)>>)
             + One(Event("dispatch", t, m) \in {})
      /\ \A c \in CopiesOf(t)' : c \in CopiesOf(t) \/ c[2] \in {}
  BY <1>0, <1>1, <1>3, Handled DEF One
<1>5. /\ Creations(t) \in Nat /\ Executions(t) \in Nat /\ Dispatches(t) \in [Nodes -> Nat]
      /\ retried[t] \in Nat /\ regressed[t] \in Nat
  BY <1>0, Numbers
<1>6. Creations(t)' = Creations(t)
  BY <1>4, <1>5 DEF One
<1>7. \A m \in Nodes : Event("dispatch", t, n) = Event("dispatch", t, m) <=> m = n
  BY EventFields
<1>8. \A m \in Nodes : Dispatches(t)'[m] = Dispatches(t)[m] - One(m = n)
  BY <1>4, <1>5, <1>7 DEF One
<1>9. IsFiniteSet(Numbered(Dispatches(t)))' /\ Executions(t)' = Executions(t) - 1
  BY <1>0, <1>8, ExecutionTaken
<1>10. Executions(t) > 0
  <2>1. Dispatches(t)'[n] = Dispatches(t)[n] - 1 /\ Dispatches(t)' \in [Nodes -> Nat]
    BY <1>8, NumbersAfter DEF One
  <2>2. Dispatches(t)[n] > 0
    BY <1>5, <2>1
  <2> QED BY <1>0, <2>2, Numbers
<1>a. /\ Coming(t)' = Coming(t) - 1 /\ Coming(t) > 0 /\ Coming(t) \in Nat
      /\ (Decided(t)' <=> Decided(t)) /\ Coming(t) >= Executions(t)
  BY <1>1, <1>5, <1>9, <1>10 DEF Coming, Decided, One
<1>11. row[t] \notin {"absent", "created"}
  BY <1>4, HeardOf, EventFields
<1>12. /\ row'[t] = s
       /\ Lifecycle!Rank[s] < Lifecycle!Rank[row[t]] => regressed'[t] = regressed[t] + 1
       /\ ~(Lifecycle!Rank[s] < Lifecycle!Rank[row[t]]) => regressed'[t] = regressed[t]
       /\ \A u \in Tasks : u # t => row'[u] = row[u] /\ regressed'[u] = regressed[u]
  BY <1>0, <1>2, RowSet, StagesAre
<1>13. exec.task = NoTask /\ exec.task # t /\ (exec'.task = t <=> s = "running")
       /\ \A u \in Tasks : u # t => (exec'.task = u <=> exec.task = u)
  BY <1>1, <1>2, TasksAssumption DEF Idle
<1>14. ~Fresh(t)' /\ (Fresh(t) <=> row[t] \in {"classified", "dispatched"})
  BY <1>2, <1>11, <1>12, <1>13 DEF Fresh
<1>15. regressed[t] + Debt(t) <= retried[t]
  BY <1>0 DEF Solvent
<1>16. row[t] # "running"
  BY <1>0, <1>13 DEF TaskInv, Executed
<1>17. regressed'[t] + Debt(t)' <= retried'[t]
  <2>1. CASE row[t] \in {"classified", "dispatched"}
    BY <1>1, <1>2, <1>5, <1>6, <1>a, <1>12, <1>14, <1>15, <2>1, Ranks DEF Debt
  <2>2. CASE row[t] \in {"failed", "done"}
    BY <1>1, <1>2, <1>5, <1>6, <1>a, <1>12, <1>14, <1>15, <2>2, Ranks DEF Debt
  <2> QED BY <1>0, <1>11, <1>16, <2>1, <2>2, RowIs
<1>18. retried[t] = 0 => row[t] = "dispatched"
  <2>1. retried[t] = 0 => row[t] \in {"classified", "dispatched"}
    BY <1>0, <1>5, <1>a, <1>11, <1>14, <1>15, RowIs DEF Debt
  <2> QED BY <1>0, <1>a, <2>1 DEF TaskInv, InOrder
<1>19. Solvent(t)' /\ Heard(t)' /\ Attempting(t)' /\ Executed(t)' /\ InOrder(t)'
  BY <1>0, <1>1, <1>2, <1>9, <1>12, <1>13, <1>17 DEF TaskInv, Solvent, Heard, Attempting, Executed, InOrder
<1>20. Advances(t, s, 0)
  <2>1. retried' = [retried EXCEPT ![t] = @ + 0]
    BY <1>0, <1>1 DEF TypeOK
  <2> QED BY <1>2, <1>5, <1>18, <2>1, Follow DEF Advances
<1> QED BY <1>1, <1>2, <1>4, <1>12, <1>13, <1>19, <1>20, StagesAre DEF TaskInv, Aside

(* A step that leaves the messages and the rows alone.                     *)
LEMMA NothingKeeps ==
  ASSUME FlowInv, TypeOK', NEW t \in Tasks, inbox' = inbox, Rests, UNCHANGED <<classified, exec>>,
         Decided(t)' <=> Decided(t), attempt'[t].at = "sending" <=> attempt[t].at = "sending", Attempting(t)'
  PROVE  TaskInv(t)'
<1>1. TaskInv(t)
  BY DEF FlowInv
<1>2. /\ Creations(t)' = Creations(t) /\ IsFiniteSet(Numbered(Dispatches(t)))'
      /\ Executions(t)' = Executions(t) /\ CopiesOf(t)' = CopiesOf(t)
  BY NoMessage
<1>3. (Fresh(t)' <=> Fresh(t)) /\ Coming(t)' = Coming(t)
  BY <1>2 DEF Fresh, Rests, Coming, One
<1>4. Solvent(t)'
  BY <1>1, <1>2, <1>3 DEF Solvent, Debt, Rests, TaskInv
<1>5. Heard(t)' /\ Executed(t)' /\ InOrder(t)'
  BY <1>1, <1>2, <1>3 DEF Heard, Executed, InOrder, Rests, TaskInv
<1> QED BY <1>4, <1>5 DEF TaskInv

LEMMA EndStep ==
  ASSUME FlowInv, TypeOK', End
  PROVE  \E t \in Tasks, s \in Lifecycle!Stages : TaskInv(t)' /\ Aside(t) /\ Advances(t, s, 0)
<1>a. TypeOK /\ exec.task \in Tasks
  BY DEF FlowInv, TypeOK, End, Idle
<1>b. PICK t \in Tasks : t = exec.task
  BY <1>a
<1>0. TypeOK /\ t = exec.task
  BY <1>a, <1>b
<1>1. TaskInv(t) /\ Solvent(t)
  BY <1>0 DEF FlowInv, TaskInv
<1>2. PICK s \in {"failed", "done"} : SetRow(t, s)
  BY <1>0 DEF End
<1>3. exec.task = t /\ exec' = Idle /\ inbox' = inbox /\ UNCHANGED <<classified, made, retried, attempt>>
  BY <1>0 DEF End, keys, deciding, history
<1>4. /\ Elsewhere(t) /\ Creations(t)' = Creations(t)
      /\ IsFiniteSet(Numbered(Dispatches(t)))' /\ Executions(t)' = Executions(t)
  BY <1>0, <1>3, NoMessage
<1>5. Creations(t) \in Nat /\ Executions(t) \in Nat /\ retried[t] \in Nat /\ regressed[t] \in Nat
  BY <1>0, <1>1, Numbers
<1>6. /\ row'[t] = s
      /\ ~(Lifecycle!Rank[s] < Lifecycle!Rank[row[t]]) => regressed'[t] = regressed[t]
      /\ \A u \in Tasks : u # t => row'[u] = row[u] /\ regressed'[u] = regressed[u]
  BY <1>0, <1>2, RowSet, StagesAre
<1>7. row[t] \in {"classified", "dispatched", "running", "failed"}
  BY <1>0, <1>1, <1>3, RowIs DEF TaskInv, Heard, Executed
<1>8. regressed'[t] = regressed[t]
  BY <1>2, <1>6, <1>7, Ranks
<1>9. exec'.task # t /\ \A u \in Tasks : u # t => (exec'.task = u <=> exec.task = u)
  BY <1>0, <1>3, TasksAssumption DEF Idle
<1>10. ~Fresh(t) /\ ~Fresh(t)' /\ row[t] # "created" /\ row'[t] # "created"
  BY <1>2, <1>3, <1>6, <1>7 DEF Fresh
<1>c. Coming(t)' = Coming(t) /\ Coming(t) \in Nat /\ (Decided(t)' <=> Decided(t))
  BY <1>3, <1>4, <1>5 DEF Coming, Decided, One
<1>11. Solvent(t)'
  BY <1>1, <1>3, <1>4, <1>5, <1>8, <1>10, <1>c DEF Solvent, Debt
<1>12. Heard(t)' /\ Attempting(t)' /\ Executed(t)' /\ InOrder(t)'
  BY <1>1, <1>2, <1>3, <1>6, <1>9 DEF TaskInv, Heard, Attempting, Executed, InOrder
<1>13. retried[t] = 0 => row[t] \in {"running", "failed"}
  BY <1>1, <1>3 DEF TaskInv, InOrder
<1>14. Advances(t, s, 0)
  <2>1. retried' = [retried EXCEPT ![t] = @ + 0]
    BY <1>0, <1>3 DEF TypeOK
  <2> QED BY <1>2, <1>5, <1>13, <2>1, Follow DEF Advances
<1>15. Aside(t)
  BY <1>3, <1>4, <1>6, <1>9 DEF Aside
<1> QED BY <1>0, <1>2, <1>11, <1>12, <1>14, <1>15, StagesAre DEF TaskInv

LEMMA SubmitStep ==
  ASSUME FlowInv, TypeOK', NEW t \in Tasks, Submit(t) \/ SubmitFails(t)
  PROVE  TaskInv(t)' /\ Aside(t) /\ Advances(t, "created", 0)
<1>0. TypeOK /\ TaskInv(t) /\ Solvent(t)
  BY DEF FlowInv, TaskInv
<1>1. row[t] = "absent" /\ SetRow(t, "created") /\ UNCHANGED <<classified, made, exec, retried, attempt>>
  BY DEF Submit, SubmitFails, keys, deciding, pool, history
<1>2. CopiesOf(t) = {} /\ t \notin classified /\ exec.task # t
  BY <1>0, <1>1 DEF TaskInv, Heard
<1>3. Executions(t) = 0 /\ Coming(t) = 0
  BY <1>0, <1>1, UnheardNotSent
<1>4. Creations(t) = 0
  <2>1. Creations(t) \in Nat
    BY <1>0, Numbers
  <2>2. <<"requests", Event("created", t, "none")>> \notin CopiesOf(t)
    BY <1>2
  <2> QED BY <1>0, <2>1, <2>2, InBag, EventFields DEF CopiesOf, Creations, TypeOK
<1>5. /\ Elsewhere(t) /\ Creations(t)' \in {0, 1}
      /\ IsFiniteSet(Numbered(Dispatches(t)))' /\ Executions(t)' = Executions(t)
      /\ \A c \in CopiesOf(t)' : c[2] = Event("created", t, "none")
  <2>1. CASE Submit(t)
    <3>1. Publish({Event("created", t, "none")})
      BY <2>1 DEF Submit
    <3>2. /\ Elsewhere(t)
          /\ Creations(t)' = Creations(t) + One(Event("created", t, "none") \in {Event("created", t, "none")})
          /\ \A n \in Nodes : Dispatches(t)'[n] = Dispatches(t)[n]
                 + One(Event("dispatch", t, n) \in {Event("created", t, "none")})
          /\ \A c \in CopiesOf(t)' : c \in CopiesOf(t) \/ c[2] \in {Event("created", t, "none")}
      BY <1>0, <3>1, Published, EventFields DEF One
    <3>3. \A n \in Nodes : Event("dispatch", t, n) # Event("created", t, "none")
      BY DEF Event
    <3>4. Dispatches(t) \in [Nodes -> Nat]
      BY <1>0, Numbers
    <3>5. Creations(t)' = 1 /\ \A n \in Nodes : Dispatches(t)'[n] = Dispatches(t)[n]
      BY <1>4, <3>2, <3>3, <3>4 DEF One
    <3> QED BY <1>0, <1>2, <3>2, <3>5, SameExecutions
  <2>2. CASE SubmitFails(t)
    <3>1. inbox' = inbox
      BY <2>2 DEF SubmitFails
    <3> QED BY <1>2, <1>4, <3>1, NoMessage
  <2> QED BY <2>1, <2>2
<1>6. retried[t] \in Nat /\ regressed[t] \in Nat
  BY <1>0, Numbers
<1>7. /\ row'[t] = "created" /\ regressed'[t] = regressed[t]
      /\ \A u \in Tasks : u # t => row'[u] = row[u] /\ regressed'[u] = regressed[u]
  BY <1>0, <1>1, RowSet, StagesAre, Ranks
<1>8. Fresh(t) /\ Fresh(t)'
  BY <1>1, <1>2, <1>7 DEF Fresh
<1>a. Coming(t)' = 0
  BY <1>1, <1>3, <1>5 DEF Coming
<1>9. Debt(t)' = 0 /\ Debt(t) = 0
  BY <1>1, <1>3, <1>4, <1>5, <1>7, <1>8, <1>a DEF Debt
<1>10. Solvent(t)'
  BY <1>0, <1>1, <1>5, <1>7, <1>9 DEF Solvent
<1>11. Heard(t)' /\ Attempting(t)' /\ Executed(t)' /\ InOrder(t)'
  BY <1>0, <1>1, <1>2, <1>5, <1>7, EventFields DEF TaskInv, Heard, Attempting, Executed, InOrder
<1>12. Advances(t, "created", 0)
  <2>1. retried' = [retried EXCEPT ![t] = @ + 0]
    BY <1>0, <1>1 DEF TypeOK
  <2> QED BY <1>1, <2>1, Follow DEF Advances
<1> QED BY <1>1, <1>5, <1>7, <1>10, <1>11, <1>12 DEF TaskInv, Aside

LEMMA RedeliverStep ==
  ASSUME FlowInv, TypeOK', NEW t \in Tasks, Redeliver(t)
  PROVE  TaskInv(t)' /\ Aside(t) /\ Advances(t, row[t], 1)
<1>0. TypeOK /\ TaskInv(t) /\ Solvent(t) /\ Routed
  BY DEF FlowInv, TaskInv
<1>1. PICK c \in CopiesOf(t) : Publish({c[2]})
  BY DEF Redeliver
<1>2. retried' = [retried EXCEPT ![t] = @ + 1] /\ UNCHANGED <<row, regressed, made, classified, exec, attempt>>
  BY DEF Redeliver, stores, keys, deciding, pool
<1>3. c \in Queues \X Events /\ c[2].task = t /\ c = <<c[1], c[2]>> /\ Count(c) > 0 /\ c[1] \in BoundTo(c[2])
  BY <1>0, InBag DEF CopiesOf, TypeOK, Routed
<1>4. /\ Elsewhere(t)
      /\ Creations(t)' = Creations(t) + One(Event("created", t, "none") \in {c[2]})
      /\ \A m \in Nodes : Dispatches(t)'[m] = Dispatches(t)[m] + One(Event("dispatch", t, m) \in {c[2]})
      /\ \A x \in CopiesOf(t)' : x \in CopiesOf(t) \/ x[2] \in {c[2]}
  BY <1>0, <1>1, <1>3, Published DEF One
<1>5. /\ Creations(t) \in Nat /\ Executions(t) \in Nat /\ Dispatches(t) \in [Nodes -> Nat]
      /\ retried[t] \in Nat /\ regressed[t] \in Nat
  BY <1>0, Numbers
<1>6. retried'[t] = retried[t] + 1 /\ \A u \in Tasks : u # t => retried'[u] = retried[u]
  BY <1>0, <1>2 DEF TypeOK
<1>7. (Fresh(t)' <=> Fresh(t)) /\ (Decided(t)' <=> Decided(t))
  BY <1>2 DEF Fresh, Decided
<1>8. regressed[t] + Debt(t) <= retried[t]
  BY <1>0 DEF Solvent
<1>9. Solvent(t)'
  <2>1. ASSUME NEW n \in Nodes, c[2] = Event("dispatch", t, n)
        PROVE  Solvent(t)'
    <3>1. \A m \in Nodes : Event("dispatch", t, m) = c[2] <=> m = n
      BY <2>1, EventFields
    <3>2. Event("created", t, "none") # c[2]
      BY <2>1 DEF Event
    <3>3. Creations(t)' = Creations(t)
      BY <1>4, <1>5, <3>2 DEF One
    <3>4. \A m \in Nodes : Dispatches(t)'[m] = Dispatches(t)[m] + One(m = n)
      BY <1>4, <1>5, <3>1 DEF One
    <3>5. IsFiniteSet(Numbered(Dispatches(t)))' /\ Executions(t)' = Executions(t) + 1
      BY <1>0, <3>4, ExecutionAdded
    <3>6. BoundTo(c[2]) = {"executor"}
      BY <2>1 DEF BoundTo, Event
    <3>7. Dispatches(t)[n] > 0
      BY <1>3, <2>1, <3>6 DEF Dispatches
    <3>8. Executions(t) > 0
      BY <1>0, <3>7, Numbers
    <3>9. Coming(t)' = Coming(t) + 1 /\ Coming(t) > 0 /\ Coming(t) \in Nat
      BY <1>2, <1>5, <3>5, <3>8 DEF Coming, One
    <3> QED BY <1>2, <1>5, <1>6, <1>7, <1>8, <3>3, <3>5, <3>8, <3>9 DEF Solvent, Debt
  <2>2. CASE \A n \in Nodes : c[2] # Event("dispatch", t, n)
    <3>1. \A m \in Nodes : Dispatches(t)'[m] = Dispatches(t)[m]
      BY <1>4, <1>5, <2>2 DEF One
    <3>2. IsFiniteSet(Numbered(Dispatches(t)))' /\ Executions(t)' = Executions(t)
      BY <1>0, <3>1, SameExecutions
    <3>3. Creations(t)' \in {Creations(t), Creations(t) + 1}
      BY <1>4, <1>5 DEF One
    <3>4. Coming(t)' = Coming(t) /\ Coming(t) \in Nat
      BY <1>2, <1>5, <3>2 DEF Coming, One
    <3> QED BY <1>2, <1>5, <1>6, <1>7, <1>8, <3>2, <3>3, <3>4 DEF Solvent, Debt
  <2> QED BY <2>1, <2>2
<1>10. Heard(t)' /\ Attempting(t)' /\ Executed(t)' /\ InOrder(t)'
  <2>1. Heard(t)'
    BY <1>0, <1>2, <1>4 DEF TaskInv, Heard
  <2> QED BY <1>0, <1>2, <1>5, <1>6, <2>1 DEF TaskInv, Attempting, Executed, InOrder
<1>11. Advances(t, row[t], 1)
  <2>1. SetRow(t, row[t])
    BY <1>0, <1>2, SameRow
  <2> QED BY <1>2, <2>1 DEF Advances
<1> QED BY <1>2, <1>4, <1>6, <1>9, <1>10, <1>11 DEF TaskInv, Aside

LEMMA DeadLetterStep ==
  ASSUME FlowInv, TypeOK', NEW t \in Tasks, DeadLetter(t)
  PROVE  TaskInv(t)' /\ Aside(t) /\ Rests
<1>0. TypeOK /\ TaskInv(t) /\ Solvent(t)
  BY DEF FlowInv, TaskInv
<1>1. PICK c \in CopiesOf(t) : inbox' = inbox (-) SetToBag({c})
  BY DEF DeadLetter
<1>2. Rests /\ UNCHANGED <<made, classified, exec, attempt>>
  BY DEF DeadLetter, stores, keys, deciding, pool, Rests
<1>3. IsABag(inbox) /\ BagIn(c, inbox) /\ c[2].task = t
  BY <1>0 DEF CopiesOf, BagIn, TypeOK
<1>4. \A x : Count(x)' = Count(x) - One(x = c)
  BY <1>1, <1>3, BagTake DEF Count, One
<1>5. \A x : Count(x) \in Nat
  BY <1>3, InBag
<1>6. Elsewhere(t)
  BY <1>3, <1>4, <1>5 DEF Elsewhere, One
<1>7. CopiesOf(t)' \subseteq CopiesOf(t)
  <2> SUFFICES ASSUME NEW x \in CopiesOf(t)' PROVE x \in CopiesOf(t)
    OBVIOUS
  <2>1. IsABag(inbox') /\ BagIn(x, inbox') /\ x[2].task = t
    BY DEF TypeOK, CopiesOf, BagIn
  <2>2. Count(x)' > 0
    BY <2>1, BagCount DEF Count
  <2>3. Count(x) > 0
    BY <1>4, <1>5, <2>2 DEF One
  <2> QED BY <1>3, <2>1, <2>3, InBag DEF CopiesOf
<1>8. /\ Creations(t) \in Nat /\ Executions(t) \in Nat /\ Dispatches(t) \in [Nodes -> Nat]
      /\ retried[t] \in Nat /\ regressed[t] \in Nat
  BY <1>0, Numbers
<1>9. Creations(t)' \in {Creations(t), Creations(t) - 1} /\ Creations(t)' \in Nat
  BY <1>4, <1>8, NumbersAfter DEF Creations, One
<1>10. /\ IsFiniteSet(Numbered(Dispatches(t)))'
       /\ Executions(t)' = Executions(t) \/ (Executions(t)' = Executions(t) - 1 /\ Executions(t) > 0)
  <2>1. ASSUME NEW n \in Nodes, c = <<"executor", Event("dispatch", t, n)>>
        PROVE  <1>10!1 /\ <1>10!2
    <3>1. \A m \in Nodes : <<"executor", Event("dispatch", t, m)>> = c <=> m = n
      BY <2>1, EventFields
    <3>2. \A m \in Nodes : Dispatches(t)'[m] = Dispatches(t)[m] - One(m = n)
      BY <1>4, <1>8, <3>1 DEF Dispatches, One
    <3>3. Dispatches(t)[n] > 0
      BY <1>3, <2>1, InBag, BagCount DEF Dispatches, Count
    <3>4. Executions(t) > 0
      BY <1>0, <3>3, Numbers
    <3> QED BY <1>0, <3>2, <3>4, ExecutionTaken
  <2>2. CASE \A n \in Nodes : c # <<"executor", Event("dispatch", t, n)>>
    <3>1. \A m \in Nodes : Dispatches(t)'[m] = Dispatches(t)[m]
      BY <1>4, <1>5, <2>2 DEF Dispatches, One
    <3> QED BY <1>0, <3>1, SameExecutions
  <2> QED BY <2>1, <2>2
<1>11. /\ Fresh(t)' <=> Fresh(t)
       /\ Decided(t)' <=> Decided(t)
       /\ Coming(t)' = Coming(t) \/ (Coming(t)' = Coming(t) - 1 /\ Coming(t) > 0)
       /\ Coming(t) \in Nat
  BY <1>2, <1>8, <1>10 DEF Fresh, Rests, Decided, Coming, One
<1>12. regressed[t] + Debt(t) <= retried[t]
  BY <1>0 DEF Solvent
<1>13. Debt(t)' <= Debt(t) /\ Debt(t) \in Nat /\ Debt(t)' \in Nat
  BY <1>2, <1>8, <1>9, <1>11 DEF Debt, Rests
<1>14. Solvent(t)'
  BY <1>2, <1>8, <1>10, <1>12, <1>13 DEF Solvent, Rests
<1>15. Heard(t)' /\ Attempting(t)' /\ Executed(t)' /\ InOrder(t)'
  BY <1>0, <1>2, <1>7, <1>8, <1>11 DEF TaskInv, Heard, Attempting, Executed, InOrder, Rests
<1> QED BY <1>2, <1>6, <1>14, <1>15 DEF TaskInv, Aside, Rests

RunsOn(t, n) == row[t] = "running" /\ assigned[t] = n

(* A failing node fails the executor's task, or no row.                    *)
LEMMA FailStep ==
  ASSUME FlowInv, TypeOK', NEW n \in Nodes, FailRows(n)
  PROVE  /\ \A u \in Tasks : TaskInv(u)'
         /\ Rests \/ \E t \in Tasks : Advances(t, "failed", 0)
<1>0. TypeOK
  BY DEF FlowInv
<1>1. /\ row' = [t \in Tasks |-> IF RunsOn(t, n) THEN "failed" ELSE row[t]]
      /\ inbox' = inbox /\ UNCHANGED <<regressed, made, classified, exec, retried, attempt>>
  BY DEF FailRows, RunsOn, keys, deciding, history
<1>2. \A u \in Tasks : TaskInv(u) /\ (RunsOn(u, n) => row[u] = "running" /\ exec.task = u)
  BY DEF FlowInv, TaskInv, Executed, RunsOn
<1>3. CASE \A u \in Tasks : ~RunsOn(u, n)
  <2>1. row' = row
    BY <1>0, <1>1, <1>3 DEF TypeOK
  <2>2. Rests
    BY <1>1, <2>1 DEF Rests
  <2>3. \A u \in Tasks : (Decided(u)' <=> Decided(u)) /\ Attempting(u)'
    BY <1>1, <1>2 DEF TaskInv, Decided, Attempting
  <2> QED BY <1>1, <2>2, <2>3, NothingKeeps
<1>4. ASSUME NEW t \in Tasks, RunsOn(t, n)
      PROVE  (\A u \in Tasks : TaskInv(u)') /\ Advances(t, "failed", 0)
  <2>1. row[t] = "running" /\ exec.task = t /\ TaskInv(t) /\ Solvent(t)
    BY <1>2, <1>4 DEF TaskInv
  <2>2. \A u \in Tasks : u # t => ~RunsOn(u, n)
    BY <1>2, <2>1
  <2>3. row' = [row EXCEPT ![t] = "failed"]
    BY <1>0, <1>1, <1>4, <2>2 DEF TypeOK
  <2>4. row'[t] = "failed" /\ \A u \in Tasks : u # t => row'[u] = row[u]
    BY <1>0, <2>3 DEF TypeOK
  <2>5. SetRow(t, "failed")
    <3>1. ~(Lifecycle!Rank["failed"] < Lifecycle!Rank[row[t]])
      BY <2>1, Ranks
    <3> QED BY <1>1, <2>3, <3>1 DEF SetRow
  <2>6. Advances(t, "failed", 0)
    <3>1. retried' = [retried EXCEPT ![t] = @ + 0]
      BY <1>0, <1>1 DEF TypeOK
    <3> QED BY <2>1, <2>5, <3>1, Follow DEF Advances
  <2>7. /\ Elsewhere(t) /\ Creations(t)' = Creations(t)
        /\ IsFiniteSet(Numbered(Dispatches(t)))' /\ Executions(t)' = Executions(t)
    BY <1>1, NoMessage
  <2>8. ~Fresh(t) /\ ~Fresh(t)'
    BY <2>1, <2>4 DEF Fresh
  <2>a. Coming(t)' = Coming(t) /\ (Decided(t)' <=> Decided(t))
    BY <1>1, <2>7 DEF Coming, Decided
  <2>9. Solvent(t)'
    BY <1>1, <2>1, <2>4, <2>7, <2>8, <2>a DEF Solvent, Debt
  <2>10. Heard(t)' /\ Attempting(t)' /\ Executed(t)' /\ InOrder(t)'
    BY <1>1, <2>1, <2>4 DEF TaskInv, Heard, Attempting, Executed, InOrder
  <2>11. Aside(t)
    BY <1>1, <2>4, <2>7 DEF Aside
  <2> QED BY <2>6, <2>9, <2>10, <2>11, OthersKept DEF TaskInv
<1> QED BY <1>3, <1>4

(* The other steps of an attempt send nothing and set no row.              *)
Ponders(t) ==
    \/ Schedule(t) \/ LookInVain(t) \/ Look(t) \/ Degrade(t) \/ DegradeRaises(t) \/ Mark(t) \/ Leave(t)

LEMMA ChosenIs ==
  ASSUME TypeOK, NEW t \in Tasks, NEW candidates, NEW advise, Chooses(t, candidates, advise)
  PROVE  /\ attempt'[t].at \in {"asking", "recording"}
         /\ \A u \in Tasks : u # t => attempt'[u] = attempt[u]
<1>1. attempt \in [Tasks -> Attempts]
  BY DEF TypeOK
<1> QED BY <1>1 DEF Chooses

(* An attempt goes on before it has recorded anything.                     *)
LEMMA CalmBefore ==
  ASSUME NEW t \in Tasks, UNCHANGED <<made, classified>>, attempt[t].at \notin {"sending", "marking"},
         \A u \in Tasks : u # t => attempt'[u] = attempt[u],
         \/ attempt'[t].at \in {"none", "window", "over"}
         \/ /\ attempt'[t].at \in {"degrading", "asking", "recording"}
            /\ t \in classified /\ t \notin made
  PROVE  Calm(t)
BY DEF Calm, Decided, Attempting

LEMMA PonderIsCalm ==
  ASSUME FlowInv, NEW t \in Tasks, Ponders(t)
  PROVE  inbox' = inbox /\ Rests /\ UNCHANGED <<classified, exec>> /\ Calm(t)
<1>0. TypeOK /\ Attempting(t)
  BY DEF FlowInv, TaskInv
<1>1. inbox' = inbox /\ Rests /\ UNCHANGED <<classified, exec>>
  BY DEF Ponders, Schedule, LookInVain, Look, Degrade, DegradeRaises, Mark, Leave, stores, keys, pool, history, Rests
<1>3. CASE Schedule(t)
  <2>1. made' = made /\ (attempt' = attempt \/ (attempt[t].at = "none" /\ PhaseSet(t, "window")))
    BY <1>3 DEF Schedule, PhaseSet, keys
  <2>2. CASE attempt' = attempt
    BY <1>0, <1>1, <2>1, <2>2 DEF Calm, Decided, Attempting
  <2>3. CASE attempt[t].at = "none" /\ PhaseSet(t, "window")
    BY <1>0, <1>1, CalmBefore, <2>1, <2>3, PhaseIs
  <2> QED BY <2>1, <2>2, <2>3
<1>4. CASE LookInVain(t) \/ DegradeRaises(t)
  <2>1. made' = made /\ PhaseSet(t, "over") /\ attempt[t].at \in {"window", "degrading"}
    BY <1>4 DEF LookInVain, DegradeRaises, GoesOn, PhaseSet, keys
  <2> QED BY <1>0, <1>1, CalmBefore, <2>1, PhaseIs
<1>5. CASE Look(t)
  <2>1. made' = made /\ attempt[t].at = "window" /\ t \in classified /\ t \notin made
    BY <1>5 DEF Look, Nothing, keys
  <2>2. PICK advise :
           \/ attempt' = [attempt EXCEPT ![t] = [at |-> "degrading", node |-> NoNode, advise |-> advise]]
           \/ Chooses(t, proposals[t], advise)
    BY <1>5 DEF Look
  <2>3. attempt'[t].at \in {"degrading", "asking", "recording"} /\ \A u \in Tasks : u # t => attempt'[u] = attempt[u]
    <3>1. CASE Chooses(t, proposals[t], advise)
      BY <1>0, <3>1, ChosenIs
    <3>2. CASE attempt' = [attempt EXCEPT ![t] = [at |-> "degrading", node |-> NoNode, advise |-> advise]]
      BY <1>0, <3>2 DEF TypeOK
    <3> QED BY <2>2, <3>1, <3>2
  <2> QED BY <1>1, CalmBefore, <2>1, <2>3
<1>6. CASE Degrade(t)
  <2>1. made' = made /\ attempt[t].at = "degrading" /\ Chooses(t, Fitting, attempt[t].advise)
    BY <1>6 DEF Degrade, keys
  <2>2. t \in classified /\ t \notin made
    BY <1>0, <2>1 DEF Attempting
  <2>3. attempt'[t].at \in {"asking", "recording"} /\ \A u \in Tasks : u # t => attempt'[u] = attempt[u]
    BY <1>0, <2>1, ChosenIs
  <2> QED BY <1>1, CalmBefore, <2>1, <2>2, <2>3
<1>7. CASE Mark(t)
  <2>1. PICK to \in {"advising", "over"} : attempt[t].at = "marking" /\ PhaseSet(t, to) /\ made' = made \cup {t}
    BY <1>7 DEF Mark, GoesOn, PhaseSet
  <2>2. attempt'[t].at = to /\ \A u \in Tasks : u # t => attempt'[u] = attempt[u]
    BY <1>0, <2>1, PhaseIs
  <2>3. t \in classified
    BY <1>0, <2>1 DEF Attempting
  <2> QED BY <1>1, <2>1, <2>2, <2>3 DEF Calm, Decided, Attempting
<1>8. CASE Leave(t)
  <2>1. made' = made /\ attempt[t].at = "over" /\ attempt' = [attempt EXCEPT ![t] = NoAttempt]
    BY <1>8 DEF Leave, keys
  <2>2. attempt'[t].at = "none" /\ \A u \in Tasks : u # t => attempt'[u] = attempt[u]
    BY <1>0, <2>1 DEF TypeOK, NoAttempt
  <2> QED BY <1>1, CalmBefore, <2>1, <2>2
<1> QED BY <1>1, <1>3, <1>4, <1>5, <1>6, <1>7, <1>8 DEF Ponders

LEMMA DyingIsCalm ==
  ASSUME FlowInv, NEW t \in Tasks, AttemptDies(t), attempt[t].at \notin {"sending", "marking"}
  PROVE  inbox' = inbox /\ Rests /\ UNCHANGED <<classified, exec>> /\ Calm(t)
<1>0. TypeOK
  BY DEF FlowInv
<1>1. /\ inbox' = inbox /\ Rests /\ UNCHANGED <<classified, exec, made>> /\ PhaseSet(t, "over")
  BY DEF AttemptDies, PhaseSet, stores, keys, pool, Rests
<1>2. attempt'[t].at = "over" /\ \A u \in Tasks : u # t => attempt'[u] = attempt[u]
  BY <1>0, <1>1, PhaseIs
<1> QED BY <1>1, <1>2 DEF Calm, Decided, Attempting

LEMMA FlowStep ==
  ASSUME FlowInv, [Next]_vars
  PROVE  /\ FlowInv'
         /\ Rests \/ \E t \in Tasks, s \in Lifecycle!Stages, k \in 0 .. 2 : Advances(t, s, k)
<1> DEFINE Goal == /\ \A u \in Tasks : TaskInv(u)'
                   /\ Rests \/ \E t \in Tasks, s \in Lifecycle!Stages, k \in 0 .. 2 : Advances(t, s, k)
<1>0. TypeOK /\ TypeOK' /\ Routed
  BY TypesStep DEF FlowInv
<1>a. Routed'
  <2>1. CASE Next
    BY <1>0, <2>1, RoutedStep
  <2>2. CASE UNCHANGED vars
    BY <1>0, <2>2 DEF vars, Routed
  <2> QED BY <2>1, <2>2
<1> SUFFICES Goal
  BY <1>0, <1>a DEF FlowInv
<1>1. ASSUME NEW t \in Tasks, TaskInv(t)', Aside(t),
             Rests \/ \E s \in Lifecycle!Stages, k \in 0 .. 2 : Advances(t, s, k)
      PROVE  Goal
  BY <1>0, <1>1, OthersKept
<1>2. ASSUME NEW t \in Tasks, inbox' = inbox, Rests, UNCHANGED <<classified, exec>>, Calm(t)
      PROVE  Goal
  <2>1. TaskInv(t)'
    BY <1>0, <1>2, NothingKeeps DEF Calm
  <2>2. Aside(t)
    BY <1>2, NoMessage, <1>0 DEF Calm, Aside, Rests
  <2> QED BY <1>1, <1>2, <2>1, <2>2
<1>b. ASSUME inbox' = inbox, Rests, UNCHANGED <<classified, exec, made, attempt>>
      PROVE  Goal
  <2>1. \A u \in Tasks : (Decided(u)' <=> Decided(u)) /\ Attempting(u)'
    BY <1>b DEF FlowInv, TaskInv, Decided, Attempting
  <2> QED BY <1>0, <1>b, <2>1, NothingKeeps
<1>3. 0 \in 0 .. 2 /\ 1 \in 0 .. 2 /\ 2 \in 0 .. 2
  OBVIOUS
<1>4. ASSUME NEW t \in Tasks, Consume(t) \/ Decide(t)
      PROVE  Goal
  <2>1. CASE Enqueue(t)
    <3>1. TaskInv(t)' /\ Aside(t) /\ Advances(t, "classified", 0)
      BY <1>0, <2>1, EnqueueStep
    <3> QED BY <1>1, <1>3, <3>1, StagesAre
  <2>2. CASE Talk(t)
    <3>1. TaskInv(t)' /\ Aside(t) /\ Rests
      BY <1>0, <2>2, TalkKeeps DEF Talk
    <3> QED BY <1>1, <3>1
  <2>3. CASE RecordRow(t)
    <3>1. TaskInv(t)' /\ Aside(t) /\ Advances(t, "dispatched", 0)
      BY <1>0, <2>3, RecordStep
    <3> QED BY <1>1, <1>3, <3>1, StagesAre
  <2>4. CASE SendDispatch(t)
    BY <1>0, <1>1, <2>4, SendStep
  <2>5. CASE Ponders(t)
    BY <1>0, <1>2, <2>5, PonderIsCalm
  <2> QED BY <1>0, <1>4, <2>1, <2>2, <2>3, <2>4, <2>5, ConsumeTalks, DecideTalks DEF Decide, Ponders
<1>5. CASE Execute
  <2>1. ASSUME NEW t \in Tasks, NEW n \in Nodes, Start(t, n)
        PROVE  Goal
    <3>1. TaskInv(t)' /\ Aside(t) /\ \E s \in Lifecycle!Stages : Advances(t, s, 0)
      BY <1>0, <2>1, StartStep
    <3> QED BY <1>1, <1>3, <3>1
  <2>2. CASE End
    <3>1. PICK t \in Tasks, s \in Lifecycle!Stages : TaskInv(t)' /\ Aside(t) /\ Advances(t, s, 0)
      BY <1>0, <2>2, EndStep
    <3> QED BY <1>1, <1>3, <3>1
  <2> QED BY <1>5, <2>1, <2>2 DEF Execute
<1>6. CASE Surroundings
  <2>1. ASSUME NEW t \in Tasks, Submit(t) \/ SubmitFails(t)
        PROVE  Goal
    <3>1. TaskInv(t)' /\ Aside(t) /\ Advances(t, "created", 0)
      BY <1>0, <2>1, SubmitStep
    <3> QED BY <1>1, <1>3, <3>1, StagesAre
  <2>2. ASSUME NEW t \in Tasks, Redeliver(t)
        PROVE  Goal
    <3>1. TaskInv(t)' /\ Aside(t) /\ Advances(t, row[t], 1)
      BY <1>0, <2>2, RedeliverStep
    <3>2. row[t] \in Lifecycle!Stages
      BY <1>0 DEF TypeOK
    <3> QED BY <1>1, <1>3, <3>1, <3>2
  <2>3. ASSUME NEW t \in Tasks, DeadLetter(t)
        PROVE  Goal
    BY <1>0, <1>1, <2>3, DeadLetterStep
  <2>4. ASSUME NEW t \in Tasks, AttemptDies(t)
        PROVE  Goal
    <3>1. CASE attempt[t].at \in {"sending", "marking"}
      <4>1. TaskInv(t)' /\ Aside(t) /\ Advances(t, row[t], 2)
        BY <1>0, <2>4, <3>1, AbortStep
      <4>2. row[t] \in Lifecycle!Stages
        BY <1>0 DEF TypeOK
      <4> QED BY <1>1, <1>3, <4>1, <4>2
    <3>2. CASE attempt[t].at \notin {"sending", "marking"}
      BY <1>0, <1>2, <2>4, <3>2, DyingIsCalm
    <3> QED BY <3>1, <3>2
  <2>5. CASE CooldownEnds \/ \E n \in Nodes : FailNode(n)
    BY <1>b, <2>5 DEF CooldownEnds, FailNode, stores, keys, deciding, history, Rests
  <2>6. ASSUME NEW n \in Nodes, FailRows(n)
        PROVE  Goal
    BY <1>0, <1>3, <2>6, FailStep, StagesAre
  <2> QED BY <1>6, <2>1, <2>2, <2>3, <2>4, <2>5, <2>6 DEF Surroundings
<1>7. CASE UNCHANGED vars
  BY <1>b, <1>7 DEF vars, stores, keys, deciding, pool, history, Rests
<1> QED BY <1>4, <1>5, <1>6, <1>7 DEF Next

LEMMA FlowInit == Init => FlowInv
<1> SUFFICES ASSUME Init PROVE FlowInv
  OBVIOUS
<1>1. TypeOK /\ BagToSet(inbox) = {}
  BY TypesInit DEF Init, EmptyBag, SetToBag, BagToSet
<1>2. Routed
  BY <1>1 DEF Routed
<1>3. ASSUME NEW t \in Tasks
      PROVE  TaskInv(t)
  <2>1. \A c : Count(c) = 0
    BY <1>1, InBag DEF TypeOK
  <2>2. Creations(t) = 0 /\ \A n \in Nodes : Dispatches(t)[n] = 0
    BY <2>1 DEF Creations, Dispatches
  <2>3. Numbered(Dispatches(t)) = {}
    BY <2>2 DEF Numbered
  <2>4. IsFiniteSet(Numbered(Dispatches(t))) /\ Executions(t) = 0
    BY <2>3, FS_EmptySet DEF Executions
  <2>5. /\ row[t] = "absent" /\ exec.task # t /\ t \notin classified /\ retried[t] = 0 /\ regressed[t] = 0
        /\ CopiesOf(t) = {}
    BY <1>1, TasksAssumption DEF Init, Idle, CopiesOf
  <2>a. attempt[t].at = "none" /\ t \notin made
    BY DEF Init, NoAttempt
  <2>6. Fresh(t) /\ Coming(t) = 0
    BY <2>4, <2>5, <2>a DEF Fresh, Coming, One
  <2>7. Solvent(t)
    BY <2>2, <2>4, <2>5, <2>6 DEF Solvent, Debt
  <2> QED BY <2>5, <2>6, <2>7, <2>a DEF TaskInv, Heard, Attempting, Executed, InOrder
<1> QED BY <1>1, <1>2, <1>3 DEF FlowInv

LEMMA FlowAlways == Spec => []FlowInv
BY FlowInit, FlowStep, PTL DEF Spec

(* What a step does to the row is a step of TaskLifecycle: the credit that *)
(* is left covers the row's going back.                                    *)
LEMMA Moved ==
  ASSUME FlowInv, FlowInv', NEW t \in Tasks, NEW s \in Lifecycle!Stages, NEW k \in 0 .. 2, Advances(t, s, k)
  PROVE  Lifecycle!Moves(t, s, k)
<1>0. TypeOK /\ TypeOK'
  BY DEF FlowInv
<1>1. /\ row' = [row EXCEPT ![t] = s] /\ retried' = [retried EXCEPT ![t] = @ + k]
      /\ regressed' = IF Lifecycle!Rank[s] < Lifecycle!Rank[row[t]]
                      THEN [regressed EXCEPT ![t] = @ + 1] ELSE regressed
      /\ s \in Lifecycle!Successors[row[t]] \cup {row[t]} \/ retried[t] + k > 0
  BY DEF Advances, SetRow
<1> DEFINE back == IF Lifecycle!Rank[s] < Lifecycle!Rank[row[t]] THEN 1 ELSE 0
           credit == [u \in Tasks |-> retried[u] - regressed[u]]
           replayed == {u \in Tasks : retried[u] > 0}
<1>2. \A u \in Tasks : retried[u] \in Nat /\ regressed[u] \in Nat
  BY <1>0 DEF TypeOK
<1>3. /\ retried'[t] = retried[t] + k /\ \A u \in Tasks : u # t => retried'[u] = retried[u]
      /\ regressed'[t] = regressed[t] + back /\ \A u \in Tasks : u # t => regressed'[u] = regressed[u]
  BY <1>0, <1>1, <1>2 DEF TypeOK
<1>4. regressed'[t] <= retried'[t]
  <2>1. Solvent(t)'
    BY DEF FlowInv, TaskInv
  <2>2. Creations(t)' \in Nat /\ Executions(t)' \in Nat
    <3>1. Creations(t)' \in Nat
      BY <1>0, NumbersAfter
    <3>2. IsFiniteSet(Numbered(Dispatches(t)))'
      BY <2>1 DEF Solvent
    <3> QED BY <3>1, <3>2, FS_CardinalityType DEF Executions
  <2>3. Debt(t)' \in Nat
    BY <2>2 DEF Debt, Coming, One
  <2>4. regressed'[t] \in Nat /\ retried'[t] \in Nat
    BY <1>0 DEF TypeOK
  <2> QED BY <2>1, <2>3, <2>4 DEF Solvent
<1>5. credit[t] + k >= back
  BY <1>2, <1>3, <1>4
<1>6. credit' = [credit EXCEPT ![t] = @ + k - back]
  <2>1. credit'[t] = credit[t] + k - back
    BY <1>2, <1>3
  <2>2. \A u \in Tasks : u # t => credit'[u] = credit[u]
    BY <1>2, <1>3
  <2> QED BY <2>1, <2>2
<1>7. replayed' = IF k > 0 THEN replayed \cup {t} ELSE replayed
  BY <1>2, <1>3
<1>8. s \in Lifecycle!Successors[row[t]] \cup {row[t]} \/ t \in replayed'
  BY <1>1, <1>3
<1> QED BY <1>1, <1>5, <1>6, <1>7, <1>8 DEF Lifecycle!Moves

(* The row of every task lives as TaskLifecycle says, for any tasks and    *)
(* nodes and however messages are repeated, lost and reordered, decisions  *)
(* break off and nodes fail.                                               *)
THEOREM FlowImplementsLifecycle == Spec => Implements
<1>1. Init => Lifecycle!Init
  BY DEF Init, Lifecycle!Init
<1>2. FlowInv /\ FlowInv' /\ [Next]_vars => [Lifecycle!Next]_Lifecycle!vars
  <2> SUFFICES ASSUME FlowInv, FlowInv', [Next]_vars PROVE [Lifecycle!Next]_Lifecycle!vars
    OBVIOUS
  <2>1. CASE Rests
    BY <2>1 DEF Rests, Lifecycle!vars
  <2>2. ASSUME NEW t \in Tasks, NEW s \in Lifecycle!Stages, NEW k \in 0 .. 2, Advances(t, s, k)
        PROVE  Lifecycle!Next
    BY <2>2, Moved DEF Lifecycle!Next
  <2> QED BY <2>1, <2>2, FlowStep
<1> QED BY <1>1, <1>2, FlowAlways, PTL DEF Spec, Implements, Lifecycle!Spec

(***************************************************************************)
(* Nobody is stranded.  A task not yet decided has a message or an attempt *)
(* that will bring its decision about, and a decided one its dispatch or   *)
(* its execution, until its row has ended.                                 *)
(***************************************************************************)
Held(c) == Count(c) > 0

Created(t) == <<"requests", Event("created", t, "none")>>
Classified(t) == <<"coordinator", Event("classified", t, "none")>>
Assessed(t, s) == <<"coordinator", Event("risk", t, s)>>
Place(t) == <<"resources", Event("place", t, "none")>>
Fit(t, n) == <<"coordinator", Event("fit", t, n)>>
Dispatch(t, n) == <<"executor", Event("dispatch", t, n)>>
Scale(t) == <<"scale", Event("scale", t, "requeue")>>
Scaled(t) == <<"requests", Event("scaled", t, "none")>>

Regarded == {"low", "high"}
Answers == Nodes \cup {NoNode}

Excused(t) == t \in blocked \cup lost \/ regressed[t] > 0

(* An attempt that reads the proposals is to come, or came too early.      *)
Heeded(t) ==
    \/ attempt[t].at = "window" \/ stored = t \/ t \in skipped
    \/ Held(Classified(t)) \/ \E s \in Regarded : Held(Assessed(t, s))

(* The decision is to come.                                                *)
Pending(t) ==
    \/ Held(Created(t)) \/ Held(Place(t)) \/ Held(Scale(t)) \/ Held(Scaled(t))
    \/ \E n \in Answers : Held(Fit(t, n))
    \/ attempt[t].at \in {"asking", "recording"}
    \/ proposals[t] # {} /\ Heeded(t)

Executing(t) == exec.task = t \/ attempt[t].at = "sending" \/ \E n \in Nodes : Held(Dispatch(t, n))

(* Nothing is executed before the decision is recorded.                    *)
Undecided(t) ==
    ~Decided(t) /\ t \notin lost => row[t] \in {"absent", "created", "classified"} /\ ~Executing(t)

(* The coordinator knows the task, or will.                                *)
Known(t) == \/ Excused(t) \/ row[t] = "absent" \/ t \in classified
            \/ Held(Created(t)) \/ Held(Classified(t))

(* The sla-agent's hash is overwritten before long.                        *)
Foreign(t) == risk[t] = "foreign" => t \in lost \/ \E s \in Regarded : Held(Assessed(t, s))

Advised(t) == attempt[t].at = "advising" => t \in made

Alive(t) ==
    \/ Excused(t)
    \/ ~Decided(t) /\ (row[t] = "absent" \/ Pending(t))
    \/ Decided(t) /\ (row[t] \in {"failed", "done"} \/ Executing(t))

Underway(t) == Undecided(t) /\ Known(t) /\ Foreign(t) /\ Advised(t) /\ Alive(t)

(* What of a task a step may leave as it is.                               *)
Tokens(t) ==
    {Created(t), Classified(t), Place(t), Scale(t), Scaled(t)}
    \cup {Assessed(t, s) : s \in Regarded}
    \cup {Fit(t, n) : n \in Answers} \cup {Dispatch(t, n) : n \in Nodes}

(* The copies, but one that is taken.                                      *)
Spares(t, c) ==
    /\ \A x \in Tokens(t) : Held(x) /\ x # c => Held(x)'
    /\ \A n \in Nodes : Held(Dispatch(t, n))' => Held(Dispatch(t, n))

CopiesKept(t) ==
    /\ \A c \in Tokens(t) : Held(c) => Held(c)'
    /\ \A n \in Nodes : Held(Dispatch(t, n))' => Held(Dispatch(t, n))

KeysKept(t) ==
    /\ t \in made' <=> t \in made
    /\ t \in classified' <=> t \in classified
    /\ proposals'[t] = proposals[t] /\ risk'[t] = risk[t]
    /\ attempt'[t] = attempt[t]
    /\ stored' = t <=> stored = t
    /\ t \in skipped' <=> t \in skipped

Kept(t) ==
    /\ CopiesKept(t) /\ KeysKept(t)
    /\ exec'.task = t <=> exec.task = t
    /\ row'[t] = row[t] \/ (row[t] = "running" /\ row'[t] \in {"failed", "done"})

Excuses(t) == (Excused(t) => Excused(t)') /\ (t \in lost => t \in lost')

LEMMA TokensOf ==
  ASSUME NEW t
  PROVE  /\ Created(t) \in Tokens(t) /\ Classified(t) \in Tokens(t) /\ Place(t) \in Tokens(t)
         /\ Scale(t) \in Tokens(t) /\ Scaled(t) \in Tokens(t)
         /\ \A s \in Regarded : Assessed(t, s) \in Tokens(t)
         /\ \A n \in Answers : Fit(t, n) \in Tokens(t)
         /\ \A n \in Nodes : Dispatch(t, n) \in Tokens(t)
BY DEF Tokens

LEMMA KeptUnderway ==
  ASSUME NEW t \in Tasks, Underway(t), Kept(t), Excuses(t)
  PROVE  Underway(t)'
<1>1. /\ (Held(Created(t)) => Held(Created(t))') /\ (Held(Classified(t)) => Held(Classified(t))')
      /\ (Held(Place(t)) => Held(Place(t))') /\ (Held(Scale(t)) => Held(Scale(t))')
      /\ (Held(Scaled(t)) => Held(Scaled(t))')
      /\ \A s \in Regarded : Held(Assessed(t, s)) => Held(Assessed(t, s))'
      /\ \A n \in Answers : Held(Fit(t, n)) => Held(Fit(t, n))'
      /\ \A n \in Nodes : Held(Dispatch(t, n)) <=> Held(Dispatch(t, n))'
  BY TokensOf DEF Kept, CopiesKept
<1>2. Executing(t)' <=> Executing(t)
  BY <1>1 DEF Executing, Kept, KeysKept
<1>3. Decided(t)' <=> Decided(t)
  BY DEF Decided, Kept, KeysKept
<1>4. Pending(t) => Pending(t)'
  BY <1>1 DEF Pending, Heeded, Kept, KeysKept
<1>5. Undecided(t)'
  BY <1>2, <1>3 DEF Undecided, Underway, Kept, Excuses
<1>6. Known(t)' /\ Foreign(t)' /\ Advised(t)'
  BY <1>1 DEF Known, Foreign, Advised, Underway, Kept, KeysKept, Excuses
<1>7. Alive(t)'
  BY <1>2, <1>3, <1>4 DEF Alive, Underway, Kept, Excuses
<1> QED BY <1>5, <1>6, <1>7 DEF Underway

LEMMA LostUnderway ==
  ASSUME NEW t \in Tasks, t \in lost', Advised(t)'
  PROVE  Underway(t)'
BY DEF Underway, Undecided, Known, Foreign, Alive, Excused

(* What a step does to the copies that are held.                           *)
LEMMA HandledCopies ==
  ASSUME TypeOK, NEW q, NEW e, NEW events, Handles(q, e, events)
  PROVE  /\ Held(<<q, e>>)
         /\ \A c : Held(c) /\ c # <<q, e>> => Held(c)'
         /\ \A x \in events : \A p \in BoundTo(x) : Held(<<p, x>>)'
         /\ \A c : Held(c)' => Held(c) \/ c[2] \in events
<1>0. IsABag(inbox)
  BY DEF TypeOK
<1>1. Count(<<q, e>>) > 0 /\ \A c : Count(c)' = Count(c) - One(c = <<q, e>>) + One(c \in Spread(events))
  BY <1>0, TakesAndSends DEF One
<1>2. \A c : Count(c) \in Nat
  BY <1>0, InBag
<1>3. \A x \in events : \A p \in BoundTo(x) : <<p, x>> \in Spread(events)
  BY DEF Spread
<1>4. \A c \in Spread(events) : c[2] \in events
  BY SpreadOf
<1>5. \A c : Held(c) /\ c # <<q, e>> => Held(c)'
  BY <1>1, <1>2 DEF One, Held
<1>6. \A c \in Spread(events) : Held(c)'
  BY <1>1, <1>2 DEF One, Held
<1>7. \A c : Held(c)' => Held(c) \/ c[2] \in events
  BY <1>1, <1>2, <1>4 DEF One, Held
<1> QED BY <1>1, <1>3, <1>5, <1>6, <1>7 DEF Held

LEMMA PublishedCopies ==
  ASSUME TypeOK, NEW events, Publish(events)
  PROVE  /\ \A c : Held(c) => Held(c)'
         /\ \A x \in events : \A p \in BoundTo(x) : Held(<<p, x>>)'
         /\ \A c : Held(c)' => Held(c) \/ c[2] \in events
<1>0. IsABag(inbox)
  BY DEF TypeOK
<1>1. \A c : Count(c)' = Count(c) + One(c \in Spread(events))
  BY <1>0, Sends DEF One
<1>2. \A c : Count(c) \in Nat
  BY <1>0, InBag
<1>3. \A x \in events : \A p \in BoundTo(x) : <<p, x>> \in Spread(events)
  BY DEF Spread
<1>4. \A c \in Spread(events) : c[2] \in events
  BY SpreadOf
<1>5. \A c : Held(c) => Held(c)'
  BY <1>1, <1>2 DEF One, Held
<1>6. \A c \in Spread(events) : Held(c)'
  BY <1>1, <1>2 DEF One, Held
<1>7. \A c : Held(c)' => Held(c) \/ c[2] \in events
  BY <1>1, <1>2, <1>4 DEF One, Held
<1> QED BY <1>3, <1>5, <1>6, <1>7

(* The queues they come from, and what they tell.                          *)
LEMMA TokenFields ==
  ASSUME NEW t
  PROVE  /\ Created(t)[2].task = t /\ Classified(t)[2].task = t /\ Place(t)[2].task = t
         /\ Scale(t)[2].task = t /\ Scaled(t)[2].task = t
         /\ \A s : Assessed(t, s)[2].task = t /\ Assessed(t, s)[2].kind = "risk"
         /\ \A n : Fit(t, n)[2].task = t /\ Dispatch(t, n)[2].task = t
         /\ \A n : Fit(t, n)[2].kind = "fit" /\ Dispatch(t, n)[2].kind = "dispatch"
         /\ Created(t)[2].kind = "created" /\ Classified(t)[2].kind = "classified"
         /\ Place(t)[2].kind = "place" /\ Scaled(t)[2].kind = "scaled"
         /\ Scale(t)[2].kind = "scale" /\ Scale(t)[2].about = "requeue"
         /\ Created(t)[1] = "requests" /\ Classified(t)[1] = "coordinator"
BY EventFields DEF Created, Classified, Assessed, Place, Fit, Dispatch, Scale, Scaled

LEMMA TokensAreOf ==
  ASSUME NEW t, NEW c \in Tokens(t)
  PROVE  c[2].task = t
BY TokenFields DEF Tokens

LEMMA OthersTokens ==
  ASSUME TypeOK, NEW t \in Tasks, NEW u \in Tasks, u # t, NEW events, \A x \in events : x.task = t,
         \/ Publish(events)
         \/ \E q, e : e.task = t /\ Handles(q, e, events)
  PROVE  CopiesKept(u)
<1>1. \A c \in Tokens(u) : c[2].task = u
  BY TokensAreOf
<1>2. \A n \in Nodes : Dispatch(u, n)[2] \notin events
  BY TokenFields
<1>3. CASE Publish(events)
  BY <1>1, <1>2, <1>3, PublishedCopies DEF CopiesKept
<1>4. ASSUME NEW q, NEW e, e.task = t, Handles(q, e, events)
      PROVE  CopiesKept(u)
  <2>1. \A c \in Tokens(u) : c # <<q, e>>
    BY <1>1, <1>4
  <2> QED BY <1>2, <1>4, <2>1, HandledCopies DEF CopiesKept
<1> QED BY <1>3, <1>4

LEMMA Routes ==
  ASSUME NEW t
  PROVE  /\ "requests" \in BoundTo(Event("created", t, "none"))
         /\ "coordinator" \in BoundTo(Event("classified", t, "none"))
         /\ "resources" \in BoundTo(Event("place", t, "none"))
         /\ \A n : "coordinator" \in BoundTo(Event("fit", t, n))
         /\ \A s \in Regarded : "coordinator" \in BoundTo(Event("risk", t, s))
         /\ \A n : BoundTo(Event("dispatch", t, n)) = {"executor"}
         /\ "scale" \in BoundTo(Event("scale", t, "requeue"))
         /\ "requests" \in BoundTo(Event("scaled", t, "none"))
BY DEF BoundTo, Event, Regarded

LEMMA ExcusesStay ==
  ASSUME FlowInv, [Next]_vars, NEW t \in Tasks
  PROVE  Excuses(t)
<1>0. TypeOK /\ regressed \in [Tasks -> Nat]
  BY DEF FlowInv, TypeOK
<1>1. regressed[t] > 0 => regressed'[t] > 0
  <2>1. CASE Rests
    BY <2>1 DEF Rests
  <2>2. ASSUME NEW u \in Tasks, NEW s \in Lifecycle!Stages, NEW k \in 0 .. 2, Advances(u, s, k)
        PROVE  regressed[t] > 0 => regressed'[t] > 0
    BY <1>0, <2>2 DEF Advances, SetRow
  <2> QED BY <2>1, <2>2, FlowStep
<1>2. blocked \subseteq blocked' /\ lost \subseteq lost'
  <2>1. CASE UNCHANGED vars
    BY <2>1 DEF vars, history
  <2>2. ASSUME NEW u \in Tasks, Consume(u)
        PROVE  blocked \subseteq blocked' /\ lost \subseteq lost'
    BY <2>2 DEF Consume, Enqueue, RequeueScaled, Propose, AssessRaises, SignalClassified, Schedule, Boost, Assess,
       SignalRisk, SignalFit, Signal, ScaleOut, ScaleBlocked, history
  <2>5. ASSUME NEW u \in Tasks, Decide(u)
        PROVE  blocked \subseteq blocked' /\ lost \subseteq lost'
    BY <2>5 DEF Decide, LookInVain, Look, Degrade, DegradeRaises, AskScale, RecordRow, SendDispatch, Mark,
       Advise, Leave, history
  <2>3. CASE Execute
    BY <2>3 DEF Execute, End, Start, history
  <2>4. CASE Surroundings
    BY <2>4 DEF Surroundings, Submit, SubmitFails, Redeliver, DeadLetter, AttemptDies,
       CooldownEnds, FailNode, FailRows, Lose, history
  <2> QED BY <2>1, <2>2, <2>3, <2>4, <2>5 DEF Next
<1> QED BY <1>1, <1>2 DEF Excuses, Excused

(* What an agent does about one task leaves the others'.                   *)
Still(u) ==
    /\ row'[u] = row[u] /\ KeysKept(u)
    /\ exec'.task = u <=> exec.task = u

LEMMA StillUnderway ==
  ASSUME FlowInv, [Next]_vars, NEW u \in Tasks, Underway(u), CopiesKept(u), Still(u)
  PROVE  Underway(u)'
BY KeptUnderway, ExcusesStay DEF Kept, Still

(* A handler that sends no dispatch.                                       *)
LEMMA NoDispatch ==
  ASSUME NEW t, NEW events, \A x \in events : x.kind # "dispatch"
  PROVE  \A n \in Nodes : Dispatch(t, n)[2] \notin events
BY TokenFields

LEMMA Spared ==
  ASSUME TypeOK, NEW t \in Tasks, NEW q, NEW e, NEW events, Handles(q, e, events),
         \A x \in events : x.kind # "dispatch"
  PROVE  Spares(t, <<q, e>>)
<1> QED BY NoDispatch, HandledCopies DEF Spares

LEMMA SparedEach ==
  ASSUME NEW t, NEW c, Spares(t, c)
  PROVE  /\ Held(Created(t)) => Held(Created(t))' \/ c = Created(t)
         /\ Held(Classified(t)) => Held(Classified(t))' \/ c = Classified(t)
         /\ Held(Place(t)) => Held(Place(t))' \/ c = Place(t)
         /\ Held(Scale(t)) => Held(Scale(t))' \/ c = Scale(t)
         /\ Held(Scaled(t)) => Held(Scaled(t))' \/ c = Scaled(t)
         /\ \A s \in Regarded : Held(Assessed(t, s)) => Held(Assessed(t, s))' \/ c = Assessed(t, s)
         /\ \A n \in Answers : Held(Fit(t, n)) => Held(Fit(t, n))' \/ c = Fit(t, n)
         /\ \A n \in Nodes : Held(Dispatch(t, n)) => Held(Dispatch(t, n))' \/ c = Dispatch(t, n)
         /\ \A n \in Nodes : Held(Dispatch(t, n))' => Held(Dispatch(t, n))
BY TokensOf DEF Spares

(* A handler of queue-, resource-, sla- or scale-agent that answers for    *)
(* what it takes.                                                          *)
LEMMA MessageUnderway ==
  ASSUME FlowInv, [Next]_vars, NEW t \in Tasks, Underway(t),
         NEW q, NEW e, NEW events, Handles(q, e, events),
         q \notin {"coordinator", "executor"}, \A x \in events : x.kind # "dispatch",
         UNCHANGED <<classified, proposals, made, deciding, lost>>, exec' = exec,
         Foreign(t)' \/ risk'[t] = risk[t],
         row'[t] = row[t] \/ (row[t] # "absent" /\ row'[t] = "classified"),
         row[t] \in {"failed", "done"} => row'[t] = row[t] \/ Excused(t)',
         <<q, e>> = Created(t) => Held(Classified(t))',
         ~Decided(t) /\ ~Excused(t) /\ <<q, e>> \in {Created(t), Place(t), Scale(t), Scaled(t)}
             => Pending(t)' \/ Excused(t)' \/ row'[t] = "absent"
  PROVE  Underway(t)'
<1>0. TypeOK /\ Excuses(t)
  BY ExcusesStay DEF FlowInv
<1>1. Spares(t, <<q, e>>)
  BY <1>0, Spared
<1>2. /\ <<q, e>> # Classified(t) /\ \A s \in Regarded : <<q, e>> # Assessed(t, s)
      /\ \A n \in Answers : <<q, e>> # Fit(t, n)
      /\ \A n \in Nodes : <<q, e>> # Dispatch(t, n)
  BY DEF Classified, Assessed, Fit, Dispatch
<1>3. /\ attempt' = attempt /\ stored' = stored /\ skipped' = skipped
      /\ (Decided(t)' <=> Decided(t))
  BY DEF deciding, Decided
<1>4. Executing(t)' <=> Executing(t)
  BY <1>1, <1>2, <1>3, SparedEach DEF Executing
<1>5. Undecided(t)'
  BY <1>3, <1>4 DEF Underway, Undecided
<1>6. Known(t)'
  BY <1>0, <1>1, <1>2, SparedEach DEF Underway, Known, Excuses
<1>7. Foreign(t)' /\ Advised(t)'
  BY <1>1, <1>2, <1>3, SparedEach DEF Underway, Foreign, Advised
<1>8. Heeded(t) => Heeded(t)'
  BY <1>1, <1>2, <1>3, SparedEach DEF Heeded
<1>9. ~Decided(t) /\ ~Excused(t) /\ Pending(t) => Pending(t)' \/ Excused(t)' \/ row'[t] = "absent"
  BY <1>1, <1>2, <1>3, <1>8, SparedEach DEF Pending
<1>10. Alive(t)'
  <2>1. CASE Excused(t)
    BY <1>0, <2>1 DEF Alive, Excuses
  <2>2. CASE ~Excused(t) /\ Decided(t)
    BY <1>3, <1>4, <2>2 DEF Underway, Alive
  <2>3. CASE ~Excused(t) /\ ~Decided(t)
    <3>1. row[t] = "absent" => row'[t] = "absent"
      OBVIOUS
    <3> QED BY <1>3, <1>9, <2>3, <3>1 DEF Underway, Alive
  <2> QED BY <2>1, <2>2, <2>3
<1> QED BY <1>5, <1>6, <1>7, <1>10 DEF Underway

LEMMA EnqueueUnderway ==
  ASSUME FlowInv, [Next]_vars, NEW t \in Tasks, Underway(t), Enqueue(t)
  PROVE  Underway(t)'
<1>0. TypeOK
  BY DEF FlowInv
<1>1. PICK events : events = Announced(t) /\ Handles("requests", Event("created", t, "none"), events)
  BY DEF Enqueue
<1>2. SetRow(t, "classified") /\ UNCHANGED <<classified, proposals, made, risk, deciding, lost>> /\ exec' = exec
  BY DEF Enqueue, keys, pool, history
<1>3. Held(Created(t)) /\ Held(Place(t))' /\ Held(Classified(t))'
  <2>1. Event("place", t, "none") \in events /\ Event("classified", t, "none") \in events
    BY <1>1 DEF Announced
  <2> QED BY <1>0, <1>1, <2>1, HandledCopies, Routes DEF Created, Place, Classified
<1>4. \A x \in events : x.kind # "dispatch"
  BY <1>1, EventFields DEF Announced
<1>5. row'[t] = "classified" /\ row[t] # "absent"
  <2>1. row'[t] = "classified"
    BY <1>0, <1>2, RowSet, StagesAre
  <2>2. Created(t) \in CopiesOf(t)
    BY <1>0, <1>3, InBag, TokenFields DEF Held, CopiesOf, TypeOK
  <2> QED BY <2>1, <2>2 DEF FlowInv, TaskInv, Heard
<1>6. row[t] \in {"failed", "done"} => Excused(t)'
  <2>1. row[t] \in {"failed", "done"} => Lifecycle!Rank["classified"] < Lifecycle!Rank[row[t]]
    BY Ranks
  <2>2. regressed[t] \in Nat /\ regressed \in [Tasks -> Nat]
    BY <1>0 DEF TypeOK
  <2> QED BY <1>2, <2>1, <2>2 DEF SetRow, Excused
<1>7. Pending(t)'
  BY <1>3 DEF Pending
<1> QED BY <1>1, <1>2, <1>3, <1>4, <1>5, <1>6, <1>7, MessageUnderway

LEMMA RequeueUnderway ==
  ASSUME FlowInv, [Next]_vars, NEW t \in Tasks, Underway(t), RequeueScaled(t)
  PROVE  Underway(t)'
<1>0. TypeOK
  BY DEF FlowInv
<1>1. PICK events \in SUBSET {Event("place", t, "none")} :
        /\ row[t] \in {"created", "classified"} /\ regressed[t] = 0 => events # {}
        /\ Handles("requests", Event("scaled", t, "none"), events)
  BY DEF RequeueScaled
<1>2. UNCHANGED <<row, classified, proposals, made, risk, deciding, lost>> /\ exec' = exec
  BY DEF RequeueScaled, stores, keys, pool, history
<1>3. \A x \in events : x.kind # "dispatch"
  BY <1>1, EventFields
<1>4. <<"requests", Event("scaled", t, "none")>> # Created(t)
  BY TokenFields, EventFields
<1>5. ~Decided(t) /\ ~Excused(t) => Pending(t)' \/ row'[t] = "absent"
  <2>1. SUFFICES ASSUME ~Decided(t), ~Excused(t), row[t] # "absent"
                 PROVE  Pending(t)'
    BY <1>2
  <2>2. row[t] \in {"created", "classified"}
    BY <2>1 DEF Underway, Undecided, Excused
  <2>3. regressed[t] = 0
    BY <1>0, <2>1 DEF Excused, TypeOK
  <2>4. Event("place", t, "none") \in events
    BY <1>1, <2>2, <2>3
  <2>5. Held(Place(t))'
    BY <1>0, <1>1, <2>4, HandledCopies, Routes DEF Place
  <2> QED BY <2>5 DEF Pending
<1> QED BY <1>1, <1>2, <1>3, <1>4, <1>5, MessageUnderway

LEMMA ProposeUnderway ==
  ASSUME FlowInv, [Next]_vars, NEW t \in Tasks, Underway(t), Propose(t)
  PROVE  Underway(t)'
<1>0. TypeOK /\ Fitting \subseteq Nodes
  BY DEF FlowInv, TypeOK, Fitting
<1>1. PICK events : /\ events = IF Fitting = {} THEN {Event("fit", t, NoNode)} ELSE {Event("fit", t, n) : n \in Fitting}
                    /\ Handles("resources", Event("place", t, "none"), events)
  BY DEF Propose
<1>2. UNCHANGED <<row, classified, proposals, made, risk, deciding, lost>> /\ exec' = exec
  BY DEF Propose, stores, keys, pool, history
<1>3. PICK n \in Answers : Event("fit", t, n) \in events
  BY <1>0, <1>1 DEF Answers
<1>4. \A x \in events : x.kind # "dispatch"
  BY <1>1, EventFields
<1>5. <<"resources", Event("place", t, "none")>> # Created(t)
  BY TokenFields, EventFields
<1>6. Held(Fit(t, n))'
  BY <1>0, <1>1, <1>3, HandledCopies, Routes DEF Fit
<1>7. Pending(t)'
  BY <1>3, <1>6 DEF Pending
<1> QED BY <1>1, <1>2, <1>4, <1>5, <1>7, MessageUnderway

LEMMA ScaleUnderway ==
  ASSUME FlowInv, [Next]_vars, NEW t \in Tasks, Underway(t),
         ScaleOut(t, "requeue") \/ ScaleBlocked(t, "requeue")
  PROVE  Underway(t)'
<1>0. TypeOK
  BY DEF FlowInv
<1>1. UNCHANGED <<row, classified, proposals, made, risk, deciding, lost>> /\ exec' = exec
  BY DEF ScaleOut, ScaleBlocked, stores, keys, pool, history
<1>2. PICK events \in SUBSET {Event("scaled", t, "none")} :
        /\ Handles("scale", Event("scale", t, "requeue"), events)
        /\ events = {} => t \in blocked'
  BY DEF ScaleOut, ScaleBlocked
<1>3. \A x \in events : x.kind # "dispatch"
  BY <1>2, EventFields
<1>4. <<"scale", Event("scale", t, "requeue")>> # Created(t)
  BY TokenFields, EventFields
<1>5. Pending(t)' \/ Excused(t)'
  <2>1. CASE events = {}
    BY <1>2, <2>1 DEF Excused
  <2>2. CASE Event("scaled", t, "none") \in events
    <3>1. Held(Scaled(t))'
      BY <1>0, <1>2, <2>2, HandledCopies, Routes DEF Scaled
    <3> QED BY <3>1 DEF Pending
  <2> QED BY <1>2, <2>1, <2>2
<1> QED BY <1>1, <1>2, <1>3, <1>4, <1>5, MessageUnderway

(* What is none of the task's tokens.                                      *)
LEMMA RestUnderway ==
  ASSUME FlowInv, [Next]_vars, NEW t \in Tasks, Underway(t),
         \/ \E s \in Severities : Boost(t, s) \/ Assess(t, s)
         \/ AssessRaises(t) \/ ScaleOut(t, "advisory") \/ ScaleBlocked(t, "advisory")
  PROVE  Underway(t)'
<1>0. TypeOK /\ Severities \subseteq Regarded
  BY TasksAssumption DEF FlowInv, Regarded
<1>1. UNCHANGED <<row, classified, proposals, made, deciding, lost>> /\ exec' = exec
  BY DEF Boost, Assess, AssessRaises, ScaleOut, ScaleBlocked, stores, keys, pool, history
<1>2. \A a : \A c \in {Created(t), Place(t), Scale(t), Scaled(t)} :
         /\ c # <<"requests", Event("risk", t, a)>> /\ c # <<"sla", Event("classified", t, a)>>
         /\ c # <<"scale", Event("scale", t, "advisory")>>
  BY EventFields DEF Created, Place, Scale, Scaled
<1>3. ASSUME NEW s \in Severities, Boost(t, s)
      PROVE  Underway(t)'
  <2>1. PICK events \in SUBSET {Event("place", t, "none")} : Handles("requests", Event("risk", t, s), events)
    BY <1>3 DEF Boost
  <2>2. risk' = risk /\ \A x \in events : x.kind # "dispatch"
    BY <1>3, <2>1, EventFields DEF Boost, keys
  <2> QED BY <1>1, <1>2, <2>1, <2>2, MessageUnderway
<1>4. ASSUME NEW s \in Severities, Assess(t, s)
      PROVE  Underway(t)'
  <2>1. PICK events : events = {Event("risk", t, s)} /\ Handles("sla", Event("classified", t, "none"), events)
    BY <1>4 DEF Assess
  <2>2. Held(Assessed(t, s))'
    BY <1>0, <2>1, HandledCopies, Routes DEF Assessed
  <2>3. Foreign(t)' /\ \A x \in events : x.kind # "dispatch"
    BY <1>0, <2>1, <2>2, EventFields DEF Foreign
  <2> QED BY <1>1, <1>2, <2>1, <2>3, MessageUnderway
<1>5. CASE AssessRaises(t)
  <2>1. PICK events : events = {} /\ Handles("sla", Event("classified", t, "none"), events)
    BY <1>5 DEF AssessRaises
  <2>2. risk' = risk /\ \A x \in events : x.kind # "dispatch"
    BY <1>5, <2>1 DEF AssessRaises, keys
  <2> QED BY <1>1, <1>2, <2>1, <2>2, MessageUnderway
<1>6. CASE ScaleOut(t, "advisory") \/ ScaleBlocked(t, "advisory")
  <2>1. PICK events : events = {} /\ Handles("scale", Event("scale", t, "advisory"), events)
    BY <1>6 DEF ScaleOut, ScaleBlocked
  <2>2. risk' = risk /\ \A x \in events : x.kind # "dispatch"
    BY <1>6, <2>1 DEF ScaleOut, ScaleBlocked, keys
  <2> QED BY <1>1, <1>2, <2>1, <2>2, MessageUnderway
<1> QED BY <1>3, <1>4, <1>5, <1>6

(* The worker has the signal in hand.                                      *)
LEMMA SignalUnderway ==
  ASSUME FlowInv, [Next]_vars, NEW t \in Tasks, Underway(t),
         \/ SignalClassified(t) \/ \E s \in Severities : SignalRisk(t, s)
         \/ \E n \in Answers : SignalFit(t, n)
  PROVE  Underway(t)'
<1>0. TypeOK /\ Excuses(t) /\ proposals \in [Tasks -> SUBSET Answers]
      /\ Severities \subseteq Regarded /\ risk \in [Tasks -> {"none", "foreign", "low", "high"}]
  BY ExcusesStay, TasksAssumption DEF FlowInv, TypeOK, Regarded, Answers
<1>1. PICK c, events : /\ c[1] = "coordinator" /\ events = {}
                       /\ Handles(c[1], c[2], events) /\ c = <<c[1], c[2]>>
                       /\ \/ SignalClassified(t) /\ c = Classified(t)
                          \/ \E s \in Severities : SignalRisk(t, s) /\ c = Assessed(t, s)
                          \/ \E n \in Answers : SignalFit(t, n) /\ c = Fit(t, n)
  <2>1. CASE SignalClassified(t)
    <3> WITNESS Classified(t), {}
    <3> QED BY <2>1 DEF SignalClassified, Signal, Classified
  <2>2. ASSUME NEW s \in Severities, SignalRisk(t, s)
        PROVE  \E c, events : /\ c[1] = "coordinator" /\ events = {}
                       /\ Handles(c[1], c[2], events) /\ c = <<c[1], c[2]>>
                       /\ \E x \in Severities : SignalRisk(t, x) /\ c = Assessed(t, x)
    <3> WITNESS Assessed(t, s), {}
    <3> QED BY <2>2 DEF SignalRisk, Signal, Assessed
  <2>3. ASSUME NEW n \in Answers, SignalFit(t, n)
        PROVE  \E c, events : /\ c[1] = "coordinator" /\ events = {}
                       /\ Handles(c[1], c[2], events) /\ c = <<c[1], c[2]>>
                       /\ \E x \in Answers : SignalFit(t, x) /\ c = Fit(t, x)
    <3> WITNESS Fit(t, n), {}
    <3> QED BY <2>3 DEF SignalFit, Signal, Fit
  <2> QED BY <2>1, <2>2, <2>3
<1>2. /\ stored' = t /\ made' = made /\ attempt' = attempt /\ row' = row /\ exec' = exec /\ lost' = lost
      /\ (Decided(t)' <=> Decided(t))
  BY DEF SignalClassified, SignalRisk, SignalFit, Signal, stores, pool, history, Decided
<1>3. Spares(t, c)
  <2>1. \A x \in events : x.kind # "dispatch"
    BY <1>1
  <2> QED BY <1>0, <1>1, <2>1, Spared
<1>4. /\ c # Created(t) /\ c # Place(t) /\ c # Scale(t) /\ c # Scaled(t)
      /\ \A n \in Nodes : c # Dispatch(t, n)
  BY <1>1 DEF Created, Place, Scale, Scaled, Dispatch
<1>5. Executing(t)' <=> Executing(t)
  BY <1>2, <1>3, <1>4, SparedEach DEF Executing
<1>6. /\ classified \subseteq classified' /\ (c = Classified(t) => t \in classified')
      /\ (proposals[t] # {} => proposals'[t] # {})
      /\ \A n \in Answers : c = Fit(t, n) => proposals'[t] # {}
      /\ risk'[t] = risk[t] \/ risk'[t] # "foreign"
      /\ \A s \in Regarded : c = Assessed(t, s) => risk'[t] # "foreign"
  <2>0. \A n, s : Fit(t, n) # Classified(t) /\ Fit(t, n) # Assessed(t, s) /\ Assessed(t, s) # Classified(t)
    BY EventFields DEF Fit, Classified, Assessed
  <2>1. CASE SignalClassified(t) /\ c = Classified(t)
    BY <2>0, <2>1 DEF SignalClassified
  <2>2. ASSUME NEW s \in Severities, SignalRisk(t, s), c = Assessed(t, s)
        PROVE  <1>6
    <3>1. classified' = classified /\ proposals' = proposals /\ risk'[t] = s /\ s # "foreign"
      BY <1>0, <2>2 DEF SignalRisk, Regarded
    <3> QED BY <2>0, <2>2, <3>1
  <2>3. ASSUME NEW n \in Answers, SignalFit(t, n), c = Fit(t, n)
        PROVE  <1>6
    <3>1. classified' = classified /\ proposals'[t] = proposals[t] \cup {n} /\ risk' = risk
      BY <1>0, <2>3 DEF SignalFit
    <3> QED BY <2>0, <2>3, <3>1
  <2> QED BY <1>1, <2>1, <2>2, <2>3
<1>7. Undecided(t)' /\ Advised(t)'
  BY <1>2, <1>5 DEF Underway, Undecided, Advised
<1>8. Known(t)'
  BY <1>0, <1>2, <1>3, <1>4, <1>6, SparedEach DEF Underway, Known, Excuses
<1>9. Foreign(t)'
  BY <1>2, <1>3, <1>6, SparedEach DEF Underway, Foreign
<1>10. Pending(t) => Pending(t)'
  BY <1>2, <1>3, <1>4, <1>6, SparedEach DEF Pending, Heeded
<1>11. Alive(t)'
  BY <1>0, <1>2, <1>5, <1>10 DEF Underway, Alive, Excuses
<1> QED BY <1>7, <1>8, <1>9, <1>11 DEF Underway

(***************************************************************************)
(* The attempt.                                                            *)
(***************************************************************************)
LEMMA NobodyTalks ==
  ASSUME inbox' = inbox
  PROVE  \A c : Held(c)' <=> Held(c)
BY DEF Held, Count

(* A phase before the choice of a node, or after its consequences: what it *)
(* was to bring about is brought about otherwise.                          *)
LEMMA PhaseUnderway ==
  ASSUME FlowInv, [Next]_vars, NEW t \in Tasks, Underway(t),
         UNCHANGED <<inbox, row, classified, proposals, made, risk, lost>>, exec' = exec,
         \/ attempt'[t] = attempt[t]
         \/ /\ attempt[t].at \notin {"sending", "marking", "asking", "recording"}
            /\ attempt'[t].at \notin {"sending", "marking", "advising"},
         ~Decided(t) /\ ~Excused(t) /\ row[t] # "absent" /\ proposals[t] # {} /\ Heeded(t) => Pending(t)'
  PROVE  Underway(t)'
<1>0. TypeOK /\ Excuses(t)
  BY ExcusesStay DEF FlowInv
<1>1. \A c : Held(c)' <=> Held(c)
  BY NobodyTalks
<1>2. (Decided(t)' <=> Decided(t)) /\ (Executing(t)' <=> Executing(t))
  BY <1>1 DEF Decided, Executing
<1>3. Undecided(t)' /\ Known(t)' /\ Foreign(t)'
  BY <1>0, <1>1, <1>2 DEF Underway, Undecided, Known, Foreign, Excuses
<1>4. Advised(t)'
  BY DEF Underway, Advised
<1>5. ~Decided(t) /\ ~Excused(t) /\ row[t] # "absent" /\ Pending(t) => Pending(t)'
  BY <1>1 DEF Pending
<1>6. Alive(t)'
  BY <1>0, <1>2, <1>5 DEF Underway, Alive, Excuses
<1> QED BY <1>3, <1>4, <1>6 DEF Underway

LEMMA ScheduleUnderway ==
  ASSUME FlowInv, [Next]_vars, NEW t \in Tasks, Underway(t), Schedule(t)
  PROVE  Underway(t)'
<1>0. TypeOK /\ t # NoTask
  BY TasksAssumption DEF FlowInv
<1>1. UNCHANGED <<inbox, row, classified, proposals, made, risk, lost>> /\ exec' = exec
  BY DEF Schedule, stores, keys, pool, history
<1>2. CASE attempt[t].at = "none"
  <2>1. PhaseSet(t, "window")
    BY <1>2 DEF Schedule, PhaseSet
  <2>2. attempt'[t].at = "window"
    BY <1>0, <2>1, PhaseIs
  <2>3. proposals[t] # {} => Pending(t)'
    BY <1>1, <2>2 DEF Pending, Heeded
  <2> QED BY <1>1, <1>2, <2>2, <2>3, PhaseUnderway
<1>3. CASE attempt[t].at # "none"
  <2>1. attempt' = attempt /\ (attempt[t].at \in {"degrading", "over"} => t \in skipped')
    BY <1>3 DEF Schedule
  <2>2. attempt[t].at \in Open \cup Chosen
    BY <1>0 DEF TypeOK, Attempts
  <2>3. ~Decided(t) => attempt[t].at \in {"window", "degrading", "asking", "over", "recording"}
    BY <1>3, <2>2 DEF Underway, Advised, Decided, Open, Chosen
  <2>4. ~Decided(t) /\ proposals[t] # {} => Pending(t)'
    BY <1>1, <2>1, <2>3 DEF Pending, Heeded
  <2> QED BY <1>1, <2>1, <2>4, PhaseUnderway
<1> QED BY <1>2, <1>3

(* A look in vain was not the last hope.                                   *)
LEMMA LookUnderway ==
  ASSUME FlowInv, [Next]_vars, NEW t \in Tasks, Underway(t), LookInVain(t) \/ Look(t)
  PROVE  Underway(t)'
<1>0. TypeOK
  BY DEF FlowInv
<1>1. /\ UNCHANGED <<inbox, row, classified, proposals, made, risk, lost>> /\ exec' = exec
      /\ stored' = stored /\ skipped' = skipped /\ attempt[t].at = "window"
  BY DEF LookInVain, Look, GoesOn, stores, keys, pool, history
<1>2. \A c : Held(c)' <=> Held(c)
  BY <1>1, NobodyTalks
<1>3. CASE LookInVain(t)
  <2>1. PhaseSet(t, "over") /\ Nothing(t)
    BY <1>3 DEF LookInVain, GoesOn, PhaseSet
  <2>2. attempt'[t].at = "over"
    BY <1>0, <2>1, PhaseIs
  <2>3. ~Decided(t) /\ ~Excused(t) /\ row[t] # "absent" =>
          \/ Held(Created(t)) \/ Held(Classified(t)) \/ \E s \in Regarded : Held(Assessed(t, s))
    BY <2>1 DEF Nothing, Decided, Underway, Known, Foreign, Excused
  <2>4. ~Decided(t) /\ ~Excused(t) /\ row[t] # "absent" /\ proposals[t] # {} => Pending(t)'
    BY <1>1, <1>2, <2>3 DEF Pending, Heeded
  <2> QED BY <1>1, <2>2, <2>4, PhaseUnderway
<1>4. CASE Look(t)
  <2>1. PICK advise :
           \/ /\ proposals[t] = {}
              /\ attempt' = [attempt EXCEPT ![t] = [at |-> "degrading", node |-> NoNode, advise |-> advise]]
           \/ proposals[t] # {} /\ Chooses(t, proposals[t], advise)
    BY <1>4 DEF Look
  <2>2. CASE proposals[t] = {}
    <3>1. attempt'[t].at = "degrading"
      BY <1>0, <2>1, <2>2 DEF TypeOK
    <3> QED BY <1>1, <2>2, <3>1, PhaseUnderway
  <2>3. CASE proposals[t] # {}
    <3>1. attempt'[t].at \in {"asking", "recording"}
      BY <1>0, <2>1, <2>3, ChosenIs
    <3>2. Pending(t)'
      BY <3>1 DEF Pending
    <3> QED BY <1>1, <3>1, <3>2, PhaseUnderway
  <2> QED BY <2>2, <2>3
<1> QED BY <1>3, <1>4

LEMMA DegradeUnderway ==
  ASSUME FlowInv, [Next]_vars, NEW t \in Tasks, Underway(t), Degrade(t) \/ DegradeRaises(t) \/ Leave(t)
  PROVE  Underway(t)'
<1>0. TypeOK
  BY DEF FlowInv
<1>1. /\ UNCHANGED <<inbox, row, classified, proposals, made, risk, lost>> /\ exec' = exec
      /\ stored' = stored /\ attempt[t].at \in {"degrading", "over"}
  BY DEF Degrade, DegradeRaises, Leave, GoesOn, stores, keys, pool, history
<1>2. \A c : Held(c)' <=> Held(c)
  BY <1>1, NobodyTalks
<1>3. CASE Degrade(t)
  <2>1. attempt'[t].at \in {"asking", "recording"}
    BY <1>0, <1>3, ChosenIs DEF Degrade
  <2>2. Pending(t)'
    BY <2>1 DEF Pending
  <2> QED BY <1>1, <2>1, <2>2, PhaseUnderway
<1>4. CASE DegradeRaises(t) \/ Leave(t)
  <2>1. skipped' = skipped /\ attempt'[t].at \in {"over", "none"}
    <3>1. CASE DegradeRaises(t)
      <4>1. PhaseSet(t, "over")
        BY <3>1 DEF DegradeRaises, GoesOn, PhaseSet
      <4> QED BY <1>0, <3>1, <4>1, PhaseIs DEF DegradeRaises
    <3>2. CASE Leave(t)
      <4>1. attempt'[t] = NoAttempt /\ skipped' = skipped
        BY <1>0, <3>2 DEF Leave, TypeOK
      <4> QED BY <4>1 DEF NoAttempt
    <3> QED BY <1>4, <3>1, <3>2
  <2>2. proposals[t] # {} /\ Heeded(t) => Pending(t)'
    BY <1>1, <1>2, <2>1 DEF Pending, Heeded
  <2> QED BY <1>1, <2>1, <2>2, PhaseUnderway
<1> QED BY <1>3, <1>4

LEMMA AskUnderway ==
  ASSUME FlowInv, [Next]_vars, NEW t \in Tasks, Underway(t), AskScale(t) \/ Advise(t)
  PROVE  Underway(t)'
<1>0. TypeOK /\ Excuses(t)
  BY ExcusesStay DEF FlowInv
<1>1. PICK purpose, events : /\ events = {Event("scale", t, purpose)} /\ Publish(events)
                             /\ attempt[t].at = "asking" => purpose = "requeue"
  BY DEF AskScale, Advise, GoesOn
<1>2. /\ UNCHANGED <<row, classified, made, risk, lost>> /\ exec' = exec
      /\ attempt[t].at \in {"asking", "advising"} /\ PhaseSet(t, "over")
  BY DEF AskScale, Advise, GoesOn, PhaseSet, stores, keys, pool, history
<1>3. attempt'[t].at = "over"
  BY <1>0, <1>2, PhaseIs
<1>4. (\A c : Held(c) => Held(c)') /\ (attempt[t].at = "asking" => Held(Scale(t))')
  BY <1>0, <1>1, PublishedCopies, Routes DEF Scale
<1>5. \A n \in Nodes : Held(Dispatch(t, n))' <=> Held(Dispatch(t, n))
  <2>0. \A x \in events : x.kind # "dispatch"
    BY <1>1, EventFields
  <2>1. \A n \in Nodes : Dispatch(t, n)[2] \notin events
    BY <2>0, NoDispatch
  <2> QED BY <1>0, <1>1, <1>4, <2>1, PublishedCopies
<1>6. (Decided(t)' <=> Decided(t)) /\ (Executing(t)' <=> Executing(t))
  BY <1>2, <1>3, <1>5 DEF Decided, Executing
<1>7. Undecided(t)' /\ Known(t)' /\ Foreign(t)' /\ Advised(t)'
  BY <1>0, <1>2, <1>3, <1>4, <1>6 DEF Underway, Undecided, Known, Foreign, Advised, Excuses
<1>8. ~Decided(t) => Pending(t)'
  BY <1>2, <1>4 DEF Underway, Advised, Decided, Pending
<1>9. Alive(t)'
  BY <1>0, <1>2, <1>6, <1>8 DEF Underway, Alive, Excuses
<1> QED BY <1>7, <1>9 DEF Underway

LEMMA DispatchUnderway ==
  ASSUME FlowInv, [Next]_vars, NEW t \in Tasks, Underway(t), RecordRow(t) \/ SendDispatch(t) \/ Mark(t)
  PROVE  Underway(t)'
<1>0. TypeOK /\ Excuses(t) /\ t \in classified
  BY ExcusesStay DEF FlowInv, TaskInv, Attempting, RecordRow, SendDispatch, Mark, GoesOn
<1>1. UNCHANGED <<classified, risk, lost>> /\ exec' = exec
  BY DEF RecordRow, SendDispatch, Mark, keys, pool, history
<1>2. \A c : Held(c) => Held(c)'
  <2>1. CASE RecordRow(t) \/ Mark(t)
    BY <2>1, NobodyTalks DEF RecordRow, Mark
  <2>2. CASE SendDispatch(t)
    BY <1>0, <2>2, PublishedCopies DEF SendDispatch
  <2> QED BY <2>1, <2>2
<1>3. Known(t)' /\ Foreign(t)'
  BY <1>0, <1>1, <1>2 DEF Underway, Known, Foreign
<1>4. CASE RecordRow(t)
  <2>1. PhaseSet(t, "sending")
    BY <1>4 DEF RecordRow, GoesOn, PhaseSet
  <2>2. attempt'[t].at = "sending"
    BY <1>0, <2>1, PhaseIs
  <2>3. Decided(t)' /\ Executing(t)' /\ Advised(t)'
    BY <2>2 DEF Decided, Executing, Advised
  <2> QED BY <1>3, <2>3 DEF Underway, Undecided, Alive
<1>5. CASE SendDispatch(t)
  <2>1. PhaseSet(t, "marking") /\ attempt[t].at = "sending"
    BY <1>5 DEF SendDispatch, GoesOn, PhaseSet
  <2>2. attempt'[t].at = "marking" /\ attempt[t].node \in Nodes
    BY <1>0, <2>1, PhaseIs DEF TypeOK, Attempts, Open
  <2>3. PICK n \in Nodes : Publish({Event("dispatch", t, n)})
    BY <1>5, <2>2 DEF SendDispatch
  <2>4. Held(Dispatch(t, n))'
    BY <1>0, <2>3, PublishedCopies, Routes DEF Dispatch
  <2>5. Decided(t)' /\ Executing(t)' /\ Advised(t)'
    BY <2>2, <2>4 DEF Decided, Executing, Advised
  <2> QED BY <1>3, <2>5 DEF Underway, Undecided, Alive
<1>6. CASE Mark(t)
  <2>1. PICK to \in {"advising", "over"} : attempt[t].at = "marking" /\ PhaseSet(t, to)
    BY <1>6 DEF Mark, GoesOn, PhaseSet
  <2>2. attempt'[t].at = to
    BY <1>0, <2>1, PhaseIs
  <2>3. made' = made \cup {t} /\ row' = row
    BY <1>6 DEF Mark, stores
  <2>4. Decided(t) /\ Decided(t)' /\ Advised(t)'
    BY <2>1, <2>3 DEF Decided, Advised
  <2>5. Executing(t) => Executing(t)'
    BY <1>1, <1>2, <2>1 DEF Executing
  <2>6. Alive(t)'
    BY <1>0, <2>3, <2>4, <2>5 DEF Underway, Alive, Excuses
  <2> QED BY <1>3, <2>4, <2>6 DEF Underway, Undecided
<1> QED BY <1>4, <1>5, <1>6

LEMMA StartUnderway ==
  ASSUME FlowInv, [Next]_vars, NEW t \in Tasks, NEW n \in Nodes, Underway(t), Start(t, n)
  PROVE  Underway(t)'
<1>0. TypeOK /\ Excuses(t)
  BY ExcusesStay DEF FlowInv
<1>1. PICK events : events = {} /\ Handles("executor", Event("dispatch", t, n), events)
  BY DEF Start
<1>2. UNCHANGED <<classified, made, risk, attempt, lost>>
  BY DEF Start, keys, deciding, history
<1>3. Held(Dispatch(t, n)) /\ \A c : Held(c) /\ c # Dispatch(t, n) => Held(c)'
  BY <1>0, <1>1, HandledCopies DEF Dispatch
<1>4. Decided(t) \/ t \in lost
  BY <1>3 DEF Underway, Undecided, Executing
<1>5. row'[t] = "failed" \/ exec'.task = t
  BY <1>0 DEF Start, SetRow, TypeOK
<1>6. /\ Dispatch(t, n) # Created(t) /\ Dispatch(t, n) # Classified(t)
      /\ \A s \in Regarded : Dispatch(t, n) # Assessed(t, s)
  BY DEF Created, Classified, Assessed, Dispatch
<1>7. row[t] # "absent"
  <2>1. IsABag(inbox) /\ Count(Dispatch(t, n)) > 0
    BY <1>0, <1>3 DEF Held, TypeOK
  <2>2. Dispatch(t, n) \in BagToSet(inbox)
    BY <2>1, InBag
  <2>3. Dispatch(t, n) \in CopiesOf(t)
    BY <2>2, TokenFields DEF CopiesOf
  <2> QED BY <2>3 DEF FlowInv, TaskInv, Heard
<1>8. Decided(t)' <=> Decided(t)
  BY <1>2 DEF Decided
<1>9. Undecided(t)' /\ Advised(t)'
  BY <1>2, <1>4, <1>8 DEF Underway, Undecided, Advised
<1>10. Known(t)' /\ Foreign(t)'
  BY <1>0, <1>2, <1>3, <1>6, <1>7 DEF Underway, Known, Foreign, Excuses
<1>11. Alive(t)'
  BY <1>2, <1>4, <1>5, <1>8 DEF Alive, Excused, Executing
<1> QED BY <1>9, <1>10, <1>11 DEF Underway

LEMMA EndUnderway ==
  ASSUME FlowInv, [Next]_vars, NEW t \in Tasks, Underway(t), End
  PROVE  Underway(t)'
<1>0. TypeOK /\ exec.task \in Tasks /\ Excuses(t)
  BY ExcusesStay DEF FlowInv, TypeOK, End, Idle
<1>1. exec' = Idle /\ UNCHANGED <<inbox, classified, made, proposals, risk, deciding, lost>>
  BY DEF End, keys, history
<1>2. \A c : Held(c)' <=> Held(c)
  BY <1>1, NobodyTalks
<1>3. exec'.task # t
  BY <1>1, TasksAssumption DEF Idle
<1>4. CASE exec.task # t
  <2>1. row'[t] = row[t]
    BY <1>0, <1>4 DEF End, SetRow, TypeOK
  <2>2. Still(t) /\ CopiesKept(t)
    BY <1>1, <1>2, <1>3, <1>4, <2>1 DEF Still, KeysKept, CopiesKept, deciding
  <2> QED BY <2>2, StillUnderway
<1>5. CASE exec.task = t
  <2>1. row'[t] \in {"failed", "done"} /\ (Decided(t) \/ t \in lost)
    BY <1>0, <1>5 DEF End, SetRow, TypeOK, Underway, Undecided, Executing
  <2>2. row[t] # "absent"
    BY <1>5 DEF FlowInv, TaskInv, Heard
  <2>3. Decided(t)' <=> Decided(t)
    BY <1>1 DEF Decided, deciding
  <2>4. Known(t)' /\ Foreign(t)' /\ Advised(t)'
    BY <1>0, <1>1, <1>2, <2>2 DEF Underway, Known, Foreign, Advised, Excuses, deciding
  <2> QED BY <1>1, <2>1, <2>3, <2>4 DEF Underway, Undecided, Alive, Excused
<1> QED BY <1>4, <1>5

LEMMA SubmitUnderway ==
  ASSUME FlowInv, [Next]_vars, NEW t \in Tasks, Underway(t), Submit(t)
  PROVE  Underway(t)'
<1>0. TypeOK /\ Excuses(t)
  BY ExcusesStay DEF FlowInv
<1>1. PICK events : events = {Event("created", t, "none")} /\ Publish(events)
  BY DEF Submit
<1>2. UNCHANGED <<classified, made, risk, attempt, lost>> /\ exec' = exec
  BY DEF Submit, keys, deciding, pool, history
<1>3. row'[t] = "created"
  BY <1>0 DEF Submit, SetRow, TypeOK
<1>4. Held(Created(t))' /\ \A c : Held(c) => Held(c)'
  BY <1>0, <1>1, PublishedCopies, Routes DEF Created
<1>5. \A n \in Nodes : Held(Dispatch(t, n))' <=> Held(Dispatch(t, n))
  <2>0. \A x \in events : x.kind # "dispatch"
    BY <1>1, EventFields
  <2>1. \A n \in Nodes : Dispatch(t, n)[2] \notin events
    BY <2>0, NoDispatch
  <2> QED BY <1>0, <1>1, <1>4, <2>1, PublishedCopies
<1>6. (Decided(t)' <=> Decided(t)) /\ (Executing(t)' <=> Executing(t))
  BY <1>2, <1>5 DEF Decided, Executing
<1>7. Undecided(t)' /\ Known(t)' /\ Foreign(t)' /\ Advised(t)'
  BY <1>2, <1>3, <1>4, <1>6 DEF Underway, Undecided, Known, Foreign, Advised
<1>8. row[t] = "absent" /\ Pending(t)'
  BY <1>4 DEF Submit, Pending
<1>9. Alive(t)'
  BY <1>0, <1>6, <1>8 DEF Underway, Alive, Excuses
<1> QED BY <1>7, <1>9 DEF Underway

(***************************************************************************)
(* The tasks a step is not about, and the step as a whole.                 *)
(***************************************************************************)
(* A retry copy adds no execution that was not under way.                  *)
LEMMA RedeliverUnderway ==
  ASSUME FlowInv, [Next]_vars, NEW t \in Tasks, Underway(t), NEW u \in Tasks, Redeliver(u)
  PROVE  Underway(t)'
<1>0. TypeOK /\ Routed /\ IsABag(inbox)
  BY DEF FlowInv, TypeOK
<1>1. PICK c \in CopiesOf(u) : Publish({c[2]})
  BY DEF Redeliver
<1>2. UNCHANGED <<row, made, classified, proposals, risk, stored, attempt, skipped>> /\ exec' = exec
  BY DEF Redeliver, stores, keys, deciding, pool
<1>3. Still(t)
  BY <1>2 DEF Still, KeysKept
<1>4. c = <<c[1], c[2]>> /\ c[1] \in BoundTo(c[2]) /\ Held(c)
  BY <1>0, InBag DEF CopiesOf, TypeOK, Routed, Held
<1>5. CopiesKept(t)
  <2>1. \A x : Held(x) => Held(x)'
    BY <1>0, <1>1, PublishedCopies
  <2>2. ASSUME NEW n \in Nodes, Held(Dispatch(t, n))'
        PROVE  Held(Dispatch(t, n))
    <3>1. Held(Dispatch(t, n)) \/ Dispatch(t, n)[2] \in {c[2]}
      BY <1>0, <1>1, <2>2, PublishedCopies
    <3>2. Dispatch(t, n)[2] = Event("dispatch", t, n)
      BY DEF Dispatch
    <3>3. CASE c[2] = Event("dispatch", t, n)
      <4>1. c[1] = "executor"
        BY <1>4, <3>3, Routes
      <4> QED BY <1>4, <3>3, <4>1 DEF Dispatch
    <3> QED BY <3>1, <3>2, <3>3
  <2> QED BY <2>1, <2>2 DEF CopiesKept
<1> QED BY <1>3, <1>5, StillUnderway

(* Nobody talks, and the keys and the executor stay.                       *)
LEMMA SilentUnderway ==
  ASSUME FlowInv, [Next]_vars, NEW t \in Tasks, Underway(t), UNCHANGED <<inbox, keys, deciding>>,
         exec' = exec,
         row'[t] = row[t] \/ (row[t] = "running" /\ row'[t] \in {"failed", "done"})
  PROVE  Underway(t)'
<1>1. CopiesKept(t)
  BY NobodyTalks DEF CopiesKept
<1>2. KeysKept(t)
  BY DEF KeysKept, keys, deciding
<1> QED BY <1>1, <1>2, KeptUnderway, ExcusesStay DEF Kept

Acts(t) == \/ Consume(t) \/ Decide(t) \/ Submit(t) \/ SubmitFails(t) \/ DeadLetter(t) \/ AttemptDies(t)
           \/ \E n \in Nodes : Start(t, n)

LEMMA OthersRows ==
  ASSUME TypeOK, NEW t \in Tasks, NEW u \in Tasks, u # t, Acts(t)
  PROVE  row'[u] = row[u]
<1>1. row' = row \/ \E s \in Lifecycle!Stages : SetRow(t, s)
  <2>1. CASE Consume(t)
    BY <2>1, StagesAre DEF Consume, Enqueue, RequeueScaled, Propose, AssessRaises, SignalClassified, Schedule,
       Boost, Assess, SignalRisk, SignalFit, Signal, ScaleOut, ScaleBlocked, stores
  <2>2. CASE Decide(t)
    BY <2>2, StagesAre DEF Decide, LookInVain, Look, Degrade, DegradeRaises, AskScale, RecordRow,
       SendDispatch, Mark, Advise, Leave, stores
  <2>3. CASE \E n \in Nodes : Start(t, n)
    BY <2>3, StagesAre DEF Start
  <2>4. CASE Submit(t) \/ SubmitFails(t) \/ DeadLetter(t) \/ AttemptDies(t)
    BY <2>4, StagesAre DEF Submit, SubmitFails, DeadLetter, AttemptDies, stores
  <2> QED BY <2>1, <2>2, <2>3, <2>4 DEF Acts
<1> QED BY <1>1, RowSet

LEMMA OthersAttempts ==
  ASSUME TypeOK, NEW t \in Tasks, NEW u \in Tasks, u # t, Acts(t)
  PROVE  attempt'[u] = attempt[u]
<1>0. attempt \in [Tasks -> Attempts]
  BY DEF TypeOK
<1>1. CASE Consume(t)
  BY <1>0, <1>1 DEF Consume, Enqueue, RequeueScaled, Propose, AssessRaises, SignalClassified, Schedule,
     Boost, Assess, SignalRisk, SignalFit, Signal, ScaleOut, ScaleBlocked, deciding
<1>2. CASE LookInVain(t) \/ DegradeRaises(t) \/ AskScale(t) \/ RecordRow(t) \/ SendDispatch(t) \/ Advise(t) \/ Leave(t)
  BY <1>0, <1>2 DEF LookInVain, DegradeRaises, AskScale, RecordRow, SendDispatch, Advise, Leave, GoesOn
<1>3. CASE Look(t) \/ Degrade(t) \/ Mark(t)
  BY <1>0, <1>3 DEF Look, Degrade, Chooses, Mark, GoesOn
<1>4. CASE \/ Submit(t) \/ SubmitFails(t) \/ DeadLetter(t) \/ AttemptDies(t)
           \/ \E n \in Nodes : Start(t, n)
  BY <1>0, <1>4 DEF Submit, SubmitFails, DeadLetter, AttemptDies, Start, deciding
<1> QED BY <1>1, <1>2, <1>3, <1>4 DEF Acts, Decide

(* The worker's keys.                                                      *)
LEMMA OthersKeys ==
  ASSUME TypeOK, NEW t \in Tasks, NEW u \in Tasks, u # t, Acts(t)
  PROVE  /\ u \in made' <=> u \in made
         /\ u \in classified' <=> u \in classified
         /\ proposals'[u] = proposals[u] /\ risk'[u] = risk[u]
<1>0. proposals \in [Tasks -> SUBSET Answers] /\ risk \in [Tasks -> {"none", "foreign", "low", "high"}]
  BY DEF TypeOK, Answers
<1>1. CASE Consume(t)
  BY <1>0, <1>1 DEF Consume, Enqueue, RequeueScaled, Propose, AssessRaises, SignalClassified, Schedule,
     Boost, Assess, SignalRisk, SignalFit, Signal, ScaleOut, ScaleBlocked, keys
<1>2. CASE Decide(t)
  BY <1>0, <1>2 DEF Decide, LookInVain, Look, Degrade, DegradeRaises, AskScale, RecordRow,
     SendDispatch, Mark, Advise, Leave, keys
<1>3. CASE \/ Submit(t) \/ SubmitFails(t) \/ DeadLetter(t) \/ AttemptDies(t)
           \/ \E n \in Nodes : Start(t, n)
  BY <1>3 DEF Submit, SubmitFails, DeadLetter, AttemptDies, Start, keys
<1> QED BY <1>1, <1>2, <1>3 DEF Acts

LEMMA OthersStill ==
  ASSUME TypeOK, NEW t \in Tasks, NEW u \in Tasks, u # t, Acts(t)
  PROVE  Still(u)
<1>0. NoTask # u
  BY TasksAssumption
<1>1. (stored' = u <=> stored = u) /\ (u \in skipped' <=> u \in skipped)
  <2>1. CASE Consume(t)
    <3>1. CASE Schedule(t)
      BY <1>0, <3>1 DEF Schedule
    <3>2. CASE \/ SignalClassified(t) \/ \E s \in Severities : SignalRisk(t, s)
               \/ \E n \in Answers : SignalFit(t, n)
      BY <1>0, <3>2 DEF SignalClassified, SignalRisk, SignalFit, Signal
    <3> QED BY <2>1, <3>1, <3>2 DEF Consume, Enqueue, RequeueScaled, Propose, AssessRaises, Boost, Assess,
               ScaleOut, ScaleBlocked, deciding, Answers
  <2>2. CASE Decide(t)
    BY <2>2 DEF Decide, LookInVain, Look, Degrade, DegradeRaises, AskScale, RecordRow,
       SendDispatch, Mark, Advise, Leave
  <2>3. CASE \/ Submit(t) \/ SubmitFails(t) \/ DeadLetter(t) \/ AttemptDies(t)
             \/ \E n \in Nodes : Start(t, n)
    BY <2>3 DEF Submit, SubmitFails, DeadLetter, AttemptDies, Start, deciding
  <2> QED BY <2>1, <2>2, <2>3 DEF Acts
<1>2. exec'.task = u <=> exec.task = u
  <2>1. exec' = exec \/ (exec = Idle /\ \E n \in Nodes : exec' = [task |-> t, node |-> n])
    <3>1. CASE Consume(t)
      BY <3>1 DEF Consume, Enqueue, RequeueScaled, Propose, AssessRaises, SignalClassified, Schedule,
         Boost, Assess, SignalRisk, SignalFit, Signal, ScaleOut, ScaleBlocked, pool
    <3>2. CASE Decide(t)
      BY <3>2 DEF Decide, LookInVain, Look, Degrade, DegradeRaises, AskScale, RecordRow,
         SendDispatch, Mark, Advise, Leave, pool
    <3>3. CASE \/ Submit(t) \/ SubmitFails(t) \/ DeadLetter(t) \/ AttemptDies(t)
               \/ \E n \in Nodes : Start(t, n)
      BY <3>3 DEF Start, Submit, SubmitFails, DeadLetter, AttemptDies, pool
    <3> QED BY <3>1, <3>2, <3>3 DEF Acts
  <2> QED BY <1>0, <2>1 DEF Idle
<1> QED BY <1>1, <1>2, OthersRows, OthersAttempts, OthersKeys DEF Still, KeysKept

(* Every message an agent takes or sends for a task is about that task.    *)
LEMMA AboutOne ==
  ASSUME FlowInv, NEW t \in Tasks,
         Consume(t) \/ Decide(t) \/ Submit(t) \/ \E n \in Nodes : Start(t, n)
  PROVE  \/ inbox' = inbox
         \/ \E events : /\ \A x \in events : x.task = t
                        /\ Publish(events) \/ \E q, e : e.task = t /\ Handles(q, e, events)
<1>1. CASE Consume(t)
  <2>1. CASE Enqueue(t)
    <3>1. PICK events : events = Announced(t) /\ Handles("requests", Event("created", t, "none"), events)
      BY <2>1 DEF Enqueue
    <3>2. \A x \in events : x.task = t
      BY <3>1, EventFields DEF Announced
    <3> QED BY <3>1, <3>2, EventFields
  <2>2. CASE Schedule(t)
    BY <2>2 DEF Schedule
  <2>3. CASE ~Enqueue(t) /\ ~Schedule(t)
    BY <1>1, <2>3, ConsumeTakes
  <2> QED BY <2>1, <2>2, <2>3
<1>2. CASE Decide(t)
  <2>1. CASE AskScale(t) \/ SendDispatch(t) \/ Advise(t)
    <3>1. PICK k, a : Publish({Event(k, t, a)})
      BY <2>1 DEF AskScale, SendDispatch, Advise
    <3>2. \A x \in {Event(k, t, a)} : x.task = t
      BY EventFields
    <3> QED BY <3>1, <3>2
  <2>2. CASE ~(AskScale(t) \/ SendDispatch(t) \/ Advise(t))
    BY <1>2, <2>2 DEF Decide, LookInVain, Look, Degrade, DegradeRaises, RecordRow, Mark, Leave
  <2> QED BY <2>1, <2>2
<1>3. CASE Submit(t)
  <2>1. PICK events : events = {Event("created", t, "none")} /\ Publish(events)
    BY <1>3 DEF Submit
  <2> QED BY <2>1, EventFields
<1>4. CASE \E n \in Nodes : Start(t, n)
  <2>1. PICK n \in Nodes : Handles("executor", Event("dispatch", t, n), {})
    BY <1>4 DEF Start
  <2>2. \E q, e : e.task = t /\ Handles(q, e, {})
    <3> WITNESS "executor", Event("dispatch", t, n)
    <3> QED BY <2>1, EventFields
  <2>3. \A x \in {} : x.task = t
    OBVIOUS
  <2> QED BY <2>2, <2>3
<1> QED BY <1>1, <1>2, <1>3, <1>4

(* A loss is of one task's copies.                                         *)
LEMMA LossOfOne ==
  ASSUME TypeOK, NEW t \in Tasks, SubmitFails(t) \/ DeadLetter(t) \/ AttemptDies(t), NEW u \in Tasks, u # t
  PROVE  CopiesKept(u)
<1>1. CASE inbox' = inbox
  BY <1>1, NobodyTalks DEF CopiesKept
<1>2. CASE DeadLetter(t)
  <2>1. PICK c \in CopiesOf(t) : inbox' = inbox (-) SetToBag({c})
    BY <1>2 DEF DeadLetter
  <2>2. IsABag(inbox) /\ BagIn(c, inbox) /\ c[2].task = t
    BY <2>1 DEF CopiesOf, TypeOK, BagIn
  <2>3. \A x : Count(x)' = Count(x) - One(x = c)
    BY <2>1, <2>2, BagTake DEF Count, One
  <2>4. \A x \in Tokens(u) : x # c
    BY <2>2, TokensAreOf
  <2>5. \A n \in Nodes : Dispatch(u, n) # c
    BY <2>4, TokensOf
  <2>6. \A x : Count(x) \in Nat
    BY <2>2, InBag
  <2>7. \A x : x # c => Count(x)' = Count(x)
    BY <2>3, <2>6 DEF One
  <2> QED BY <2>4, <2>5, <2>7 DEF CopiesKept, Held
<1> QED BY <1>1, <1>2 DEF SubmitFails, AttemptDies

LEMMA LossUnderway ==
  ASSUME FlowInv, [Next]_vars, NEW t \in Tasks, Underway(t), SubmitFails(t) \/ DeadLetter(t) \/ AttemptDies(t)
  PROVE  Underway(t)'
<1>0. TypeOK
  BY DEF FlowInv
<1>1. t \in lost' /\ made' = made
  BY DEF SubmitFails, DeadLetter, AttemptDies, Lose, keys
<1>2. Advised(t)'
  <2>1. CASE attempt' = attempt
    BY <1>1, <2>1 DEF Underway, Advised
  <2>2. CASE AttemptDies(t)
    <3>1. PhaseSet(t, "over")
      BY <2>2 DEF AttemptDies, PhaseSet
    <3> QED BY <1>0, <3>1, PhaseIs DEF Advised
  <2> QED BY <2>1, <2>2 DEF SubmitFails, DeadLetter, deciding
<1> QED BY <1>1, <1>2, LostUnderway

LEMMA ConsumeUnderway ==
  ASSUME FlowInv, [Next]_vars, NEW t \in Tasks, Underway(t), Consume(t)
  PROVE  Underway(t)'
BY EnqueueUnderway, RequeueUnderway, ProposeUnderway, SignalUnderway, ScheduleUnderway, ScaleUnderway,
   RestUnderway DEF Consume, Answers

LEMMA DecideUnderway ==
  ASSUME FlowInv, [Next]_vars, NEW t \in Tasks, Underway(t), Decide(t)
  PROVE  Underway(t)'
BY LookUnderway, DegradeUnderway, AskUnderway, DispatchUnderway DEF Decide

LEMMA UnderwayStep ==
  ASSUME FlowInv, [Next]_vars, \A t \in Tasks : Underway(t)
  PROVE  \A t \in Tasks : Underway(t)'
<1> DEFINE Goal == \A t \in Tasks : Underway(t)'
<1> SUFFICES Goal
  OBVIOUS
<1>0. TypeOK
  BY DEF FlowInv
<1> HIDE DEF Goal
<1>1. ASSUME NEW t \in Tasks, Underway(t)', Acts(t),
             \A u \in Tasks : u # t => CopiesKept(u)
      PROVE  Goal
  <2>1. \A u \in Tasks : u # t => Still(u)
    BY <1>0, <1>1, OthersStill
  <2>2. \A u \in Tasks : u # t => Underway(u)'
    BY <1>1, <2>1, StillUnderway
  <2> QED BY <1>1, <2>2 DEF Goal
<1>2. ASSUME NEW t \in Tasks, Underway(t)',
             Consume(t) \/ Decide(t) \/ Submit(t) \/ \E n \in Nodes : Start(t, n)
      PROVE  Goal
  <2>1. ASSUME NEW u \in Tasks, u # t
        PROVE  CopiesKept(u)
    <3>1. CASE inbox' = inbox
      BY <3>1, NobodyTalks DEF CopiesKept
    <3>2. CASE inbox' # inbox
      BY <1>0, <1>2, <2>1, <3>2, AboutOne, OthersTokens
    <3> QED BY <3>1, <3>2
  <2> QED BY <1>1, <1>2, <2>1 DEF Acts
<1>3. ASSUME NEW t \in Tasks, SubmitFails(t) \/ DeadLetter(t) \/ AttemptDies(t)
      PROVE  Goal
  BY <1>0, <1>1, <1>3, LossOfOne, LossUnderway DEF Acts
<1>4. ASSUME UNCHANGED <<inbox, keys, deciding>>, exec' = exec,
             \A t \in Tasks : row'[t] = row[t] \/ (row[t] = "running" /\ row'[t] = "failed")
      PROVE  Goal
  BY <1>4, SilentUnderway DEF Goal
<1>5. CASE Execute
  <2>1. ASSUME NEW t \in Tasks, NEW n \in Nodes, Start(t, n)
        PROVE  Goal
    BY <1>2, <2>1, StartUnderway
  <2>2. CASE End
    BY <2>2, EndUnderway DEF Goal
  <2> QED BY <1>5, <2>1, <2>2 DEF Execute
<1>6. CASE Surroundings
  <2>1. ASSUME NEW t \in Tasks, Submit(t)
        PROVE  Goal
    BY <1>2, <2>1, SubmitUnderway
  <2>2. ASSUME NEW t \in Tasks, Redeliver(t)
        PROVE  Goal
    BY <2>2, RedeliverUnderway DEF Goal
  <2>3. CASE CooldownEnds \/ \E n \in Nodes : FailNode(n)
    BY <1>4, <2>3 DEF CooldownEnds, FailNode, stores
  <2>4. ASSUME NEW n \in Nodes, FailRows(n)
        PROVE  Goal
    BY <1>4, <2>4 DEF FailRows
  <2> QED BY <1>3, <1>6, <2>1, <2>2, <2>3, <2>4 DEF Surroundings
<1>7. CASE UNCHANGED vars
  BY <1>4, <1>7 DEF vars, stores, pool
<1> QED BY <1>2, <1>5, <1>6, <1>7, ConsumeUnderway, DecideUnderway DEF Next

LEMMA UnderwayInit == Init => \A t \in Tasks : Underway(t)
<1> SUFFICES ASSUME Init, NEW t \in Tasks PROVE Underway(t)
  OBVIOUS
<1>1. \A c : ~Held(c)
  BY DEF Init, Held, Count, NumberIn, BagIn, BagToSet, EmptyBag, SetToBag
<1>2. attempt[t].at = "none" /\ risk[t] = "none" /\ row[t] = "absent" /\ made = {}
  BY DEF Init, NoAttempt
<1>3. ~Executing(t) /\ ~Decided(t)
  BY <1>1, <1>2, TasksAssumption DEF Init, Idle, Executing, Decided
<1> QED BY <1>2, <1>3 DEF Underway, Undecided, Known, Foreign, Advised, Alive

LEMMA QuietEnds ==
  ASSUME TypeOK, NEW t \in Tasks, Underway(t), Quiet(t)
  PROVE  \/ row[t] \in {"absent", "failed", "done"}
         \/ t \in blocked \cup lost \cup skipped \/ regressed[t] > 0
<1>1. \A c : c[2].task = t => ~Held(c)
  BY InBag DEF Held, Quiet, CopiesOf, TypeOK
<1>2. ~Executing(t)
  BY <1>1, TokenFields DEF Quiet, Executing
<1>3. Pending(t) => t \in skipped
  BY <1>1, TokenFields DEF Quiet, Pending, Heeded
<1> QED BY <1>2, <1>3 DEF Underway, Alive, Excused

(* Nobody is stranded: a task of which nothing is left to be handled,      *)
(* attempted or executed has ended, unless something of it was lost, the   *)
(* cooldown refused it a node, a retry set its row back, or its last       *)
(* signal came too late for an attempt that came to nothing.               *)
THEOREM NobodyStranded == Spec => []NoneStranded
<1> DEFINE AllUnderway == \A t \in Tasks : Underway(t)
<1>1. Init => AllUnderway
  BY UnderwayInit
<1>2. FlowInv /\ AllUnderway /\ [Next]_vars => AllUnderway'
  BY UnderwayStep
<1>3. FlowInv /\ AllUnderway => NoneStranded
  BY QuietEnds DEF FlowInv, NoneStranded
<1> HIDE DEF AllUnderway
<1> QED BY <1>1, <1>2, <1>3, FlowAlways, PTL DEF Spec

================================================================================
