------------------------------ MODULE ServiceProofs -----------------------------
(***************************************************************************)
(* Theorems about Service, for any agents, events and number of outages,   *)
(* exits and failures.                                                     *)
(***************************************************************************)
EXTENDS Service, TLAPS

Backends == {"rabbitmq", "kafka", "dual", "unknown"}

(***************************************************************************)
(* Publishing.  A publish() under way has done exactly the steps that are  *)
(* not left.                                                               *)
(***************************************************************************)
Remaining ==
    CASE backend = "kafka"    -> {<<"record", "produce">>, <<"produce">>}
      [] backend = "rabbitmq" -> {<<"record", "route">>, <<"route">>}
      [] backend = "dual"     -> {<<"record", "produce", "route">>, <<"produce", "route">>,
                                  <<"route">>}
      [] OTHER                -> {<<"record">>}

JobInv(s) ==
    job[s] # NoJob =>
        /\ job[s] \in [event : Events, todo : Remaining]
        /\ Head(job[s].todo) # "record" => job[s].event \in recorded
        /\ backend = "dual" /\ Head(job[s].todo) = "route" => job[s].event \in ToSet(produced)

PubInv ==
    /\ backend \in Backends
    /\ produced \in Seq(Events)
    /\ job \in [Services -> {NoJob} \cup [event : Events, todo : Remaining]]
    /\ \A s \in Services : JobInv(s)
    /\ PublishedInOrder

LEMMA StepsOfPublish == backend \in Backends => PublishSteps \in Remaining /\ Head(PublishSteps) = "record"
  BY DEF Backends, PublishSteps, Remaining

LEMMA ToSetOfAppend ==
    ASSUME NEW log \in Seq(Events), NEW e \in Events
    PROVE  ToSet(Append(log, e)) = ToSet(log) \cup {e}
<1> DEFINE longer == Append(log, e)
<1>1. /\ DOMAIN longer = 1 .. (Len(log) + 1) /\ DOMAIN log = 1 .. Len(log)
      /\ longer[Len(log) + 1] = e
      /\ \A i \in 1 .. Len(log) : longer[i] = log[i]
  OBVIOUS
<1>2. Len(log) \in Nat
  OBVIOUS
<1>3. ASSUME NEW x \in ToSet(longer) PROVE x \in ToSet(log) \cup {e}
  <2>1. PICK i \in 1 .. (Len(log) + 1) : x = longer[i]
    BY <1>1, <1>3 DEF ToSet
  <2> QED BY <1>1, <1>2, <2>1 DEF ToSet
<1>4. ASSUME NEW x \in ToSet(log) PROVE x \in ToSet(longer)
  <2>1. PICK i \in 1 .. Len(log) : x = log[i]
    BY <1>1, <1>4 DEF ToSet
  <2>2. i \in DOMAIN longer /\ longer[i] = x
    BY <1>1, <1>2, <2>1
  <2> QED BY <2>2 DEF ToSet
<1>5. e \in ToSet(longer)
  <2>1. Len(log) + 1 \in DOMAIN longer
    BY <1>1, <1>2
  <2> QED BY <1>1, <2>1 DEF ToSet
<1> QED BY <1>3, <1>4, <1>5

LEMMA PubInit == Init => PubInv
<1> SUFFICES ASSUME Init PROVE PubInv
  OBVIOUS
<1>1. ToSet(produced) = {}
  BY DEF Init, ToSet
<1>2. produced \in Seq(Events)
  BY DEF Init
<1>3. \A s \in Services : job[s] = NoJob
  BY DEF Init
<1>4. backend \in Backends /\ recorded = {} /\ routed = {} /\ returned = {}
  BY DEF Init, Backends
<1>5. job \in [Services -> {NoJob} \cup [event : Events, todo : Remaining]]
  BY DEF Init
<1> QED BY <1>1, <1>2, <1>3, <1>4, <1>5 DEF PubInv, JobInv, PublishedInOrder

LEMMA PubUnchanged == PubInv /\ UNCHANGED <<backend, publishing>> => PubInv'
  BY DEF PubInv, JobInv, PublishedInOrder, Remaining, publishing, Kafka, Rabbit

LEMMA PubPublishes ==
    ASSUME PubInv, NEW s \in Services, NEW e \in Events, Publishes(s, e)
    PROVE  PubInv'
<1>1. UNCHANGED <<backend, recorded, produced, routed, returned>>
  BY DEF Publishes
<1>2. PublishedInOrder' /\ backend' \in Backends /\ produced' \in Seq(Events) /\ Remaining' = Remaining
  BY <1>1 DEF PubInv, PublishedInOrder, Remaining, Kafka, Rabbit
<1>3. PublishSteps \in Remaining /\ Head(PublishSteps) = "record"
  BY StepsOfPublish DEF PubInv
<1>4. job' = [job EXCEPT ![s] = [event |-> e, todo |-> PublishSteps]]
  BY DEF Publishes
<1>5. job' \in [Services -> {NoJob} \cup [event : Events, todo : Remaining]]
  BY <1>3, <1>4 DEF PubInv
<1>6. ASSUME NEW x \in Services PROVE JobInv(x)'
  <2>1. CASE x = s
    BY <1>1, <1>2, <1>3, <1>4, <2>1 DEF PubInv, JobInv
  <2>2. CASE x # s
    BY <1>1, <1>2, <1>4, <2>2 DEF PubInv, JobInv
  <2> QED BY <2>1, <2>2
<1> QED BY <1>2, <1>5, <1>6 DEF PubInv

LEMMA PubForgets ==
    ASSUME PubInv, NEW s \in Services, job' = [job EXCEPT ![s] = NoJob],
           UNCHANGED <<backend, recorded, produced, routed, returned>>
    PROVE  PubInv'
<1>1. PublishedInOrder' /\ backend' \in Backends /\ produced' \in Seq(Events) /\ Remaining' = Remaining
  BY DEF PubInv, PublishedInOrder, Remaining, Kafka, Rabbit
<1>2. job' \in [Services -> {NoJob} \cup [event : Events, todo : Remaining]]
  BY DEF PubInv
<1>3. ASSUME NEW x \in Services PROVE JobInv(x)'
  BY <1>1 DEF PubInv, JobInv
<1> QED BY <1>1, <1>2, <1>3 DEF PubInv

(* One step of publish(): what is left after it, and what it has reached.  *)
LEMMA PubStep ==
    ASSUME PubInv, NEW s \in Services, PublishStep(s)
    PROVE  PubInv'
<1> DEFINE e == job[s].event
           left == job[s].todo
           step == Head(left)
<1>1. job[s] # NoJob /\ e \in Events /\ left \in Remaining /\ JobInv(s) /\ backend' = backend
  BY DEF PubInv, PublishStep, NoJob
<1>2. /\ recorded' = IF step = "record" THEN recorded \cup {e} ELSE recorded
      /\ produced' = IF step = "produce" THEN Append(produced, e) ELSE produced
      /\ routed' = IF step = "route" THEN routed \cup {e} ELSE routed
      /\ IF Len(left) = 1
         THEN returned' = returned \cup {e} /\ job' = [job EXCEPT ![s] = NoJob]
         ELSE job' = [job EXCEPT ![s].todo = Tail(left)] /\ UNCHANGED returned
  BY DEF PublishStep
<1>3. produced' \in Seq(Events) /\ Remaining' = Remaining /\ backend' \in Backends
  BY <1>1, <1>2 DEF PubInv, Remaining
<1>4. ToSet(produced') = IF step = "produce" THEN ToSet(produced) \cup {e} ELSE ToSet(produced)
  BY <1>1, <1>2, ToSetOfAppend DEF PubInv
<1>5. /\ step # "record" => e \in recorded
      /\ backend = "dual" /\ step = "route" => e \in ToSet(produced)
  BY <1>1 DEF JobInv
<1>6. /\ Len(left) = 1 /\ backend = "kafka" => step = "produce"
      /\ Len(left) = 1 /\ backend \in {"rabbitmq", "dual"} => step = "route"
  BY <1>1 DEF Remaining, PubInv, Backends
<1>7. /\ step \in {"record", "produce", "route"}
      /\ Len(left) # 1 => /\ Tail(left) \in Remaining
                          /\ Head(Tail(left)) # "record"
                          /\ backend = "dual" /\ Head(Tail(left)) = "route" => step = "produce"
  <2>1. CASE backend = "kafka"
    <3>1. CASE left = <<"record", "produce">>
      <4>1. Tail(left) = <<"produce">>
        BY <3>1
      <4> QED BY <3>1, <4>1, <2>1 DEF Remaining
    <3>2. CASE left = <<"produce">>
      BY <3>2
    <3> QED BY <1>1, <2>1, <3>1, <3>2 DEF Remaining
  <2>2. CASE backend = "rabbitmq"
    <3>1. CASE left = <<"record", "route">>
      <4>1. Tail(left) = <<"route">>
        BY <3>1
      <4> QED BY <3>1, <4>1, <2>2 DEF Remaining
    <3>2. CASE left = <<"route">>
      BY <3>2
    <3> QED BY <1>1, <2>2, <3>1, <3>2 DEF Remaining
  <2>3. CASE backend = "dual"
    <3>1. left \in {<<"record", "produce", "route">>, <<"produce", "route">>, <<"route">>}
      BY <1>1, <2>3 DEF Remaining
    <3>2. CASE left = <<"record", "produce", "route">>
      <4>1. Tail(left) = <<"produce", "route">>
        BY <3>2
      <4> QED BY <3>2, <4>1, <2>3 DEF Remaining
    <3>3. CASE left = <<"produce", "route">>
      <4>1. Tail(left) = <<"route">>
        BY <3>3
      <4> QED BY <3>3, <4>1, <2>3 DEF Remaining
    <3>4. CASE left = <<"route">>
      BY <3>4
    <3> QED BY <3>1, <3>2, <3>3, <3>4
  <2>4. CASE backend = "unknown"
    BY <1>1, <2>4 DEF Remaining
  <2> QED BY <2>1, <2>2, <2>3, <2>4 DEF PubInv, Backends
<1> HIDE DEF e, left, step
<1>8. PublishedInOrder'
  <2>1. ToSet(produced') \cup routed' \subseteq recorded'
    BY <1>2, <1>4, <1>5 DEF PubInv, PublishedInOrder
  <2>2. backend' = "dual" => routed' \subseteq ToSet(produced')
    BY <1>1, <1>2, <1>4, <1>5 DEF PubInv, PublishedInOrder
  <2>3. backend' # "unknown" => returned' \subseteq (IF Rabbit' THEN routed' ELSE ToSet(produced'))
    <3>1. CASE Len(left) = 1
      <4>1. returned' = returned \cup {e}
        BY <1>2, <3>1
      <4>2. CASE backend = "kafka"
        BY <1>1, <1>4, <1>6, <3>1, <4>1, <4>2 DEF PubInv, PublishedInOrder, Rabbit
      <4>3. CASE backend \in {"rabbitmq", "dual"}
        BY <1>1, <1>2, <1>6, <3>1, <4>1, <4>3 DEF PubInv, PublishedInOrder, Rabbit
      <4> QED BY <1>1, <4>2, <4>3 DEF PubInv, Backends
    <3>2. CASE Len(left) # 1
      BY <1>1, <1>2, <1>4, <3>2 DEF PubInv, PublishedInOrder, Rabbit
    <3> QED BY <3>1, <3>2
  <2> QED BY <2>1, <2>2, <2>3 DEF PublishedInOrder
<1>9. /\ job' \in [Services -> {NoJob} \cup [event : Events, todo : Remaining]]
      /\ \A x \in Services : x # s => job'[x] = job[x]
      /\ Len(left) = 1 => job'[s] = NoJob
      /\ Len(left) # 1 => job'[s] = [event |-> e, todo |-> Tail(left)]
  <2>1. job \in [Services -> {NoJob} \cup [event : Events, todo : Remaining]]
    BY DEF PubInv
  <2>2. CASE Len(left) = 1
    BY <1>2, <2>1, <2>2
  <2>3. CASE Len(left) # 1
    <3>1. job[s] \in [event : Events, todo : Remaining] /\ e = job[s].event
      BY <1>1, <2>1 DEF e
    <3>2. job' = [job EXCEPT ![s] = [event |-> e, todo |-> Tail(left)]]
      BY <1>2, <2>1, <2>3, <3>1
    <3> QED BY <1>1, <1>7, <2>1, <2>3, <3>2
  <2> QED BY <2>2, <2>3
<1>10. ASSUME NEW x \in Services PROVE JobInv(x)'
  <2>1. CASE x # s
    <3>1. job'[x] = job[x] /\ JobInv(x)
      BY <1>9, <2>1 DEF PubInv
    <3> QED BY <1>1, <1>2, <1>3, <1>4, <3>1 DEF JobInv
  <2>2. CASE x = s /\ Len(left) = 1
    BY <1>9, <2>2 DEF JobInv
  <2>3. CASE x = s /\ Len(left) # 1
    <3>1. job'[s] = [event |-> e, todo |-> Tail(left)]
      BY <1>9, <2>3
    <3>2. e \in recorded'
      BY <1>2, <1>5
    <3>3. e \in Events
      BY <1>1 DEF e
    <3>4. /\ job'[s].event = e /\ job'[s].todo = Tail(left)
          /\ job'[s] \in [event : Events, todo : Remaining]
      BY <1>7, <2>3, <3>1, <3>3
    <3>5. backend' = "dual" /\ Head(Tail(left)) = "route" => e \in ToSet(produced')
      BY <1>1, <1>4, <1>7, <2>3
    <3> QED BY <1>3, <1>7, <2>3, <3>2, <3>4, <3>5 DEF JobInv
  <2> QED BY <2>1, <2>2, <2>3
<1> QED BY <1>3, <1>8, <1>9, <1>10 DEF PubInv

LEMMA PubNext == PubInv /\ [Next]_vars => PubInv'
<1> SUFFICES ASSUME PubInv, [Next]_vars PROVE PubInv'
  OBVIOUS
<1>1. ASSUME NEW s \in Services, Starts(s) PROVE PubInv'
  <2>1. UNCHANGED <<backend, publishing>>
    BY <1>1 DEF Starts, Boots, MigrationBegins, MigrationEnds, Refused, Connects, Waits
  <2> QED BY <2>1, PubUnchanged
<1>2. ASSUME NEW s \in Services, Ends(s) PROVE PubInv'
  BY <1>2, PubForgets DEF Ends
<1>3. ASSUME NEW s \in Services, PublishStep(s) PROVE PubInv'
  BY <1>3, PubStep
<1>4. ASSUME NEW s \in Services, PublishFails(s) PROVE PubInv'
  BY <1>4, PubForgets DEF PublishFails
<1>5. ASSUME NEW s \in Services, NEW e \in Events, Publishes(s, e) PROVE PubInv'
  BY <1>5, PubPublishes
<1>6. ASSUME NEW a \in Agents, Works(a) \/ HandlerRaises(a) \/ WorkerDies(a) PROVE PubInv'
  <2>1. UNCHANGED <<backend, publishing>>
    BY <1>6 DEF Works, Polls, Handles, HandlerRaises, WorkerDies
  <2> QED BY <2>1, PubUnchanged
<1>7. ASSUME NEW d \in Dependencies, Fails(d) \/ Recovers(d) PROVE PubInv'
  <2>1. UNCHANGED <<backend, publishing>>
    BY <1>7 DEF Fails, Recovers
  <2> QED BY <2>1, PubUnchanged
<1>8. CASE UNCHANGED vars
  BY <1>8, PubUnchanged DEF vars
<1> QED BY <1>1, <1>2, <1>3, <1>4, <1>5, <1>6, <1>7, <1>8 DEF Next

(* What a consumer sees is recorded, RabbitMQ is never ahead of Kafka, and *)
(* a publish() that returned reached the brokers: for every history of     *)
(* outages and exits.                                                      *)
THEOREM RowBeforeBroker == Spec => []PublishedInOrder
<1>1. PubInv => PublishedInOrder
  BY DEF PubInv
<1> QED BY <1>1, PubInit, PubNext, PTL DEF Spec


(***************************************************************************)
(* Consuming.                                                              *)
(***************************************************************************)
Settled(a, i) == produced[i] \in done[a] \cup Expired \cup raised[a]

(* A worker that runs has met every event up to its position, and settled  *)
(* all but the one in hand; one that does not run starts again at the      *)
(* committed offset.                                                       *)
AgentInv(a) ==
    /\ committed[a] <= position[a] /\ position[a] <= Len(produced)
    /\ \A i \in 1 .. committed[a] : Settled(a, i)
    /\ worker[a] = "polls" => \A i \in 1 .. position[a] : Settled(a, i)
    /\ worker[a] = "handles" => /\ position[a] > 0
                               /\ \A i \in 1 .. position[a] - 1 : Settled(a, i)
    /\ worker[a] # "off" => phase[a] = "ready"

ConsTypes ==
    /\ produced \in Seq(Events)
    /\ phase \in [Services -> {"down", "starting", "ready"}]
    /\ position \in [Agents -> Nat] /\ committed \in [Agents -> Nat]
    /\ done \in [Agents -> SUBSET Events] /\ raised \in [Agents -> SUBSET Events]
    /\ worker \in [Agents -> {"off", "polls", "handles", "dead"}]

ConsInv == ConsTypes /\ \A a \in Agents : AgentInv(a)

(* What one agent's invariant depends on.                                  *)
SameAgent(a) ==
    /\ produced' = produced /\ phase'[a] = phase[a] /\ worker'[a] = worker[a]
    /\ position'[a] = position[a] /\ committed'[a] = committed[a]
    /\ done'[a] = done[a] /\ raised'[a] = raised[a]

LEMMA AgentUnchanged == \A a \in Agents : AgentInv(a) /\ SameAgent(a) => AgentInv(a)'
  BY DEF AgentInv, SameAgent, Settled

LEMMA ConsUnchanged ==
    ConsInv /\ UNCHANGED <<phase, produced, consuming>> => ConsInv'
  BY DEF ConsInv, ConsTypes, AgentInv, Settled, consuming

LEMMA AgentServices == Agents \subseteq Services
  BY DEF Services

LEMMA ConsInit == Init => ConsInv
  BY DEF Init, ConsInv, ConsTypes, AgentInv, Settled

(* A service that exits has no worker.                                     *)
LEMMA ConsExits ==
    ASSUME ConsInv, NEW s \in Services, phase[s] # "ready",
           NEW p \in {"down", "starting"}, phase' = [phase EXCEPT ![s] = p],
           UNCHANGED <<produced, consuming>>
    PROVE  ConsInv'
<1>1. ConsTypes'
  BY DEF ConsInv, ConsTypes, consuming
<1>2. ASSUME NEW a \in Agents PROVE AgentInv(a)'
  <2>1. CASE a = s
    <3>1. worker[a] = "off" /\ worker' = worker
      BY <2>1 DEF ConsInv, AgentInv, consuming
    <3> QED BY <3>1 DEF ConsInv, AgentInv, Settled, consuming
  <2>2. CASE a # s
    <3>1. SameAgent(a)
      BY <2>2, AgentServices DEF ConsInv, ConsTypes, SameAgent, consuming
    <3> QED BY <3>1, AgentUnchanged DEF ConsInv
  <2> QED BY <2>1, <2>2
<1> QED BY <1>1, <1>2 DEF ConsInv

(* A step of start() that succeeds.                                        *)
LEMMA ConsPasses ==
    ASSUME ConsInv, NEW s \in Services, phase[s] = "starting", Passes(s),
           position' = position \/ position' = [position EXCEPT ![s] = committed[s]],
           todo[s] = <<"consumer">> => position' = [position EXCEPT ![s] = committed[s]],
           UNCHANGED <<produced, committed, done, raised>>
    PROVE  ConsInv'
<1>1. ConsTypes'
  <2>1. phase' \in [Services -> {"down", "starting", "ready"}]
    BY DEF ConsInv, ConsTypes, Passes
  <2>2. worker' \in [Agents -> {"off", "polls", "handles", "dead"}]
    BY DEF ConsInv, ConsTypes, Passes
  <2>3. position' \in [Agents -> Nat]
    BY DEF ConsInv, ConsTypes
  <2> QED BY <2>1, <2>2, <2>3 DEF ConsInv, ConsTypes
<1>2. ASSUME NEW a \in Agents PROVE AgentInv(a)'
  <2>1. CASE a = s /\ todo[s] = <<"consumer">>
    <3>1. worker'[a] = "polls" /\ position'[a] = committed[a] /\ committed'[a] = committed[a]
      BY <2>1 DEF ConsInv, ConsTypes, Passes
    <3>2. phase'[a] = "ready"
      BY <2>1 DEF ConsInv, ConsTypes, Passes
    <3>3. \A i : Settled(a, i)' <=> Settled(a, i)
      BY DEF Settled
    <3> QED BY <3>1, <3>2, <3>3 DEF ConsInv, ConsTypes, AgentInv
  <2>2. CASE a = s /\ todo[s] # <<"consumer">>
    <3>1. worker[a] = "off" /\ worker' = worker
      BY <2>2 DEF ConsInv, AgentInv, Passes
    <3>2. position'[a] \in {position[a], committed[a]}
      BY <2>2 DEF ConsInv, ConsTypes
    <3>3. \A i : Settled(a, i)' <=> Settled(a, i)
      BY DEF Settled
    <3> QED BY <3>1, <3>2, <3>3 DEF ConsInv, ConsTypes, AgentInv
  <2>3. CASE a # s
    <3>1. SameAgent(a)
      BY <2>3, AgentServices DEF ConsInv, ConsTypes, SameAgent, Passes
    <3> QED BY <3>1, AgentUnchanged DEF ConsInv
  <2> QED BY <2>1, <2>2, <2>3
<1> QED BY <1>1, <1>2 DEF ConsInv

LEMMA ConsStarts == ASSUME ConsInv, NEW s \in Services, Starts(s) PROVE ConsInv'
<1>1. CASE Boots(s)
  BY <1>1, ConsExits DEF Boots, publishing
<1>2. CASE MigrationBegins(s)
  BY <1>2, ConsUnchanged DEF MigrationBegins, publishing
<1>3. CASE MigrationEnds(s)
  <2>1. /\ phase[s] = "starting" /\ todo[s] # <<"consumer">>
        /\ UNCHANGED <<position, committed, done, raised, produced>>
    BY <1>3 DEF MigrationEnds, At, publishing
  <2>2. CASE schema.made /\ s \in schema.by
    <3>1. Exits(s) /\ UNCHANGED worker
      BY <1>3, <2>2 DEF MigrationEnds
    <3> QED BY <2>1, <3>1, ConsExits DEF Exits, consuming
  <2>3. CASE ~(schema.made /\ s \in schema.by)
    <3>1. Passes(s)
      BY <1>3, <2>3 DEF MigrationEnds
    <3> QED BY <2>1, <3>1, ConsPasses
  <2> QED BY <2>2, <2>3
<1>4. ASSUME NEW step, Refused(s, step) PROVE ConsInv'
  BY <1>4, ConsExits DEF Refused, At, Exits, publishing
<1>5. ASSUME NEW step, Waits(s, step) PROVE ConsInv'
  <2>1. phase[s] = "starting" /\ UNCHANGED <<produced, consuming>>
    BY <1>5 DEF Waits, At, publishing
  <2>2. CASE tries[s] > 1
    BY <1>5, <2>1, <2>2, ConsUnchanged DEF Waits
  <2>3. CASE ~(tries[s] > 1)
    BY <1>5, <2>1, <2>3, ConsExits DEF Waits, Exits
  <2> QED BY <2>2, <2>3
<1>6. ASSUME NEW step, Connects(s, step) PROVE ConsInv'
  <2>1. /\ phase[s] = "starting" /\ Passes(s)
        /\ UNCHANGED <<produced, committed, done, raised>>
        /\ position' = IF step = "consumer" THEN [position EXCEPT ![s] = committed[s]] ELSE position
        /\ step = Head(todo[s])
    BY <1>6 DEF Connects, At, publishing
  <2>2. todo[s] = <<"consumer">> => step = "consumer"
    BY <2>1
  <2> QED BY <2>1, <2>2, ConsPasses
<1> QED BY <1>1, <1>2, <1>3, <1>4, <1>5, <1>6 DEF Starts

LEMMA ConsEnds == ASSUME ConsInv, NEW s \in Services, Ends(s) PROVE ConsInv'
<1>1. /\ phase' = [phase EXCEPT ![s] = "down"]
      /\ worker' = IF s \in Agents THEN [worker EXCEPT ![s] = "off"] ELSE worker
      /\ UNCHANGED <<produced, position, committed, done, raised>>
  BY DEF Ends, Exits
<1>2. ConsTypes'
  <2>1. phase' \in [Services -> {"down", "starting", "ready"}]
    BY <1>1 DEF ConsInv, ConsTypes
  <2>2. worker' \in [Agents -> {"off", "polls", "handles", "dead"}]
    BY <1>1 DEF ConsInv, ConsTypes
  <2> QED BY <1>1, <2>1, <2>2 DEF ConsInv, ConsTypes
<1>3. ASSUME NEW a \in Agents PROVE AgentInv(a)'
  <2>1. CASE a = s
    <3>1. worker'[a] = "off"
      BY <1>1, <2>1 DEF ConsInv, ConsTypes
    <3> QED BY <1>1, <3>1 DEF ConsInv, AgentInv, Settled
  <2>2. CASE a # s
    <3>1. SameAgent(a)
      BY <1>1, <2>2, AgentServices DEF ConsInv, ConsTypes, SameAgent
    <3> QED BY <3>1, AgentUnchanged DEF ConsInv
  <2> QED BY <2>1, <2>2
<1> QED BY <1>2, <1>3 DEF ConsInv

(* The log only grows.                                                     *)
LEMMA ConsPublishStep == ASSUME PubInv, ConsInv, NEW s \in Services, PublishStep(s) PROVE ConsInv'
<1> DEFINE e == job[s].event
<1>1. e \in Events
  BY DEF PubInv, PublishStep, NoJob
<1>2. /\ UNCHANGED <<phase, consuming>>
      /\ produced' \in {produced, Append(produced, e)}
  BY DEF PublishStep, starting
<1> HIDE DEF e
<1>3. /\ produced' \in Seq(Events) /\ Len(produced') >= Len(produced)
      /\ \A i \in 1 .. Len(produced) : produced'[i] = produced[i]
  <2>1. produced \in Seq(Events)
    BY DEF ConsInv, ConsTypes
  <2>2. CASE produced' = produced
    BY <2>1, <2>2
  <2>3. CASE produced' = Append(produced, e)
    BY <1>1, <2>1, <2>3
  <2> QED BY <1>2, <2>2, <2>3
<1>4. ASSUME NEW a \in Agents PROVE AgentInv(a)'
  <2>1. \A i \in 1 .. Len(produced) : Settled(a, i)' <=> Settled(a, i)
    BY <1>2, <1>3 DEF Settled, consuming
  <2>2. position[a] \in Nat /\ committed[a] \in Nat /\ Len(produced) \in Nat /\ Len(produced') \in Nat
    BY <1>3 DEF ConsInv, ConsTypes
  <2> QED BY <1>2, <1>3, <2>1, <2>2 DEF ConsInv, AgentInv, consuming
<1> QED BY <1>2, <1>3, <1>4 DEF ConsInv, ConsTypes, consuming

(* Only one agent's worker moves.                                          *)
LEMMA ConsWorks ==
    ASSUME ConsInv, NEW a \in Agents, Polls(a) \/ Handles(a) \/ HandlerRaises(a) \/ WorkerDies(a)
    PROVE  ConsInv'
<1>0. /\ position[a] \in Nat /\ committed[a] \in Nat /\ Len(produced) \in Nat /\ AgentInv(a)
      /\ \A i \in 1 .. Len(produced) : produced[i] \in Events
      /\ UNCHANGED <<phase, produced>>
  BY DEF ConsInv, ConsTypes, Polls, Handles, HandlerRaises, WorkerDies, starting, publishing
<1>1. CASE Polls(a)
  <2>1. ConsTypes'
    <3>1. UNCHANGED <<done, raised>> /\ position' \in [Agents -> Nat]
      BY <1>1 DEF Polls, ConsInv, ConsTypes
    <3>2. committed' \in [Agents -> Nat] /\ worker' \in [Agents -> {"off", "polls", "handles", "dead"}]
      <4>1. committed \in [Agents -> Nat] /\ worker \in [Agents -> {"off", "polls", "handles", "dead"}]
        BY DEF ConsInv, ConsTypes
      <4>2. CASE produced[position[a] + 1] \in Expired
        <5>1. committed' = [committed EXCEPT ![a] = position[a] + 1] /\ worker' = worker
          BY <1>1, <4>2 DEF Polls
        <5> QED BY <1>0, <4>1, <5>1
      <4>3. CASE produced[position[a] + 1] \notin Expired
        <5>1. committed' = committed /\ worker' = [worker EXCEPT ![a] = "handles"]
          BY <1>1, <4>3 DEF Polls
        <5> QED BY <4>1, <5>1
      <4> QED BY <4>2, <4>3
    <3> QED BY <1>0, <3>1, <3>2 DEF ConsInv, ConsTypes
  <2>2. /\ worker[a] = "polls" /\ position[a] < Len(produced)
        /\ position'[a] = position[a] + 1 /\ UNCHANGED <<done, raised>>
        /\ \A i : Settled(a, i)' <=> Settled(a, i)
    BY <1>0, <1>1 DEF Polls, ConsInv, ConsTypes, Settled
  <2>3. AgentInv(a)'
    <3>1. CASE produced[position[a] + 1] \in Expired
      <4>1. committed'[a] = position[a] + 1 /\ worker'[a] = "polls"
        BY <1>1, <2>2, <3>1 DEF Polls, ConsInv, ConsTypes
      <4>2. Settled(a, position[a] + 1)
        BY <3>1 DEF Settled
      <4>3. \A i \in 1 .. position[a] + 1 : Settled(a, i)
        BY <1>0, <2>2, <4>2 DEF AgentInv
      <4> QED BY <1>0, <2>2, <4>1, <4>3 DEF AgentInv
    <3>2. CASE produced[position[a] + 1] \notin Expired
      <4>1. committed'[a] = committed[a] /\ worker'[a] = "handles"
        BY <1>1, <3>2 DEF Polls, ConsInv, ConsTypes
      <4> QED BY <1>0, <2>2, <4>1 DEF AgentInv
    <3> QED BY <3>1, <3>2
  <2>4. ASSUME NEW b \in Agents, b # a PROVE AgentInv(b)'
    <3>1. SameAgent(b)
      BY <1>0, <1>1, <2>4 DEF Polls, ConsInv, ConsTypes, SameAgent
    <3> QED BY <3>1, AgentUnchanged DEF ConsInv
  <2> QED BY <2>1, <2>3, <2>4 DEF ConsInv
<1>2. CASE Handles(a)
  <2>1. ConsTypes'
    BY <1>0, <1>2 DEF Handles, Current, ConsInv, ConsTypes, AgentInv
  <2>2. /\ worker[a] = "handles" /\ worker'[a] = "polls" /\ committed'[a] = position[a]
        /\ UNCHANGED <<position, raised>> /\ done'[a] = done[a] \cup {produced[position[a]]}
    BY <1>2 DEF Handles, Current, ConsInv, ConsTypes
  <2>3. \A i \in 1 .. position[a] : Settled(a, i)'
    BY <1>0, <2>2 DEF AgentInv, Settled
  <2>4. AgentInv(a)'
    BY <1>0, <2>2, <2>3 DEF AgentInv
  <2>5. ASSUME NEW b \in Agents, b # a PROVE AgentInv(b)'
    <3>1. SameAgent(b)
      BY <1>0, <1>2, <2>5 DEF Handles, ConsInv, ConsTypes, SameAgent
    <3> QED BY <3>1, AgentUnchanged DEF ConsInv
  <2> QED BY <2>1, <2>4, <2>5 DEF ConsInv
<1>3. CASE HandlerRaises(a)
  <2>1. ConsTypes'
    BY <1>0, <1>3 DEF HandlerRaises, Current, ConsInv, ConsTypes, AgentInv
  <2>2. /\ worker[a] = "handles" /\ worker'[a] = "polls"
        /\ UNCHANGED <<position, committed, done>> /\ raised'[a] = raised[a] \cup {produced[position[a]]}
    BY <1>3 DEF HandlerRaises, Current, ConsInv, ConsTypes
  <2>3. \A i \in 1 .. position[a] : Settled(a, i)'
    BY <1>0, <2>2 DEF AgentInv, Settled
  <2>4. AgentInv(a)'
    BY <1>0, <2>2, <2>3 DEF AgentInv
  <2>5. ASSUME NEW b \in Agents, b # a PROVE AgentInv(b)'
    <3>1. SameAgent(b)
      BY <1>0, <1>3, <2>5 DEF HandlerRaises, ConsInv, ConsTypes, SameAgent
    <3> QED BY <3>1, AgentUnchanged DEF ConsInv
  <2> QED BY <2>1, <2>4, <2>5 DEF ConsInv
<1>4. CASE WorkerDies(a)
  <2>1. ConsTypes'
    BY <1>0, <1>4 DEF WorkerDies, ConsInv, ConsTypes
  <2>2. /\ worker[a] = "polls" /\ worker'[a] = "dead" /\ position'[a] = position[a] + 1
        /\ position[a] < Len(produced) /\ UNCHANGED <<committed, done, raised>>
        /\ \A i : Settled(a, i)' <=> Settled(a, i)
    BY <1>0, <1>4 DEF WorkerDies, ConsInv, ConsTypes, Settled
  <2>3. AgentInv(a)'
    BY <1>0, <2>2 DEF AgentInv
  <2>4. ASSUME NEW b \in Agents, b # a PROVE AgentInv(b)'
    <3>1. SameAgent(b)
      BY <1>0, <1>4, <2>4 DEF WorkerDies, ConsInv, ConsTypes, SameAgent
    <3> QED BY <3>1, AgentUnchanged DEF ConsInv
  <2> QED BY <2>1, <2>3, <2>4 DEF ConsInv
<1> QED BY <1>1, <1>2, <1>3, <1>4

LEMMA ConsNext == PubInv /\ ConsInv /\ [Next]_vars => ConsInv'
<1> SUFFICES ASSUME PubInv, ConsInv, [Next]_vars PROVE ConsInv'
  OBVIOUS
<1>1. ASSUME NEW s \in Services, Starts(s) PROVE ConsInv'
  BY <1>1, ConsStarts
<1>2. ASSUME NEW s \in Services, Ends(s) PROVE ConsInv'
  BY <1>2, ConsEnds
<1>3. ASSUME NEW s \in Services, PublishStep(s) PROVE ConsInv'
  BY <1>3, ConsPublishStep
<1>4. ASSUME NEW s \in Services, PublishFails(s) PROVE ConsInv'
  BY <1>4, ConsUnchanged DEF PublishFails, starting
<1>5. ASSUME NEW s \in Services, NEW e \in Events, Publishes(s, e) PROVE ConsInv'
  BY <1>5, ConsUnchanged DEF Publishes, starting
<1>6. ASSUME NEW a \in Agents, Works(a) \/ HandlerRaises(a) \/ WorkerDies(a) PROVE ConsInv'
  BY <1>6, ConsWorks DEF Works
<1>7. ASSUME NEW d \in Dependencies, Fails(d) \/ Recovers(d) PROVE ConsInv'
  BY <1>7, ConsUnchanged DEF Fails, Recovers, starting, publishing
<1>8. CASE UNCHANGED vars
  BY <1>8, ConsUnchanged DEF vars, starting, publishing
<1> QED BY <1>1, <1>2, <1>3, <1>4, <1>5, <1>6, <1>7, <1>8 DEF Next

(* Below the committed offset nothing is left that was neither handled nor *)
(* expired nor raised on, whatever exits and outages there are.            *)
THEOREM OffsetsSettled == Spec => []CommittedSettled
<1>1. Init => PubInv /\ ConsInv
  BY PubInit, ConsInit
<1>2. PubInv /\ ConsInv /\ [Next]_vars => PubInv' /\ ConsInv'
  BY PubNext, ConsNext
<1>3. ConsInv => CommittedSettled
  BY DEF ConsInv, AgentInv, Settled, CommittedSettled
<1> QED BY <1>1, <1>2, <1>3, PTL DEF Spec

(***************************************************************************)
(* Types: what publishing and consuming do not need.                       *)
(***************************************************************************)
Steps == AllSteps \cup {"schema"}

StartTypes ==
    /\ schema \in [made : BOOLEAN, by : SUBSET Services]
    /\ phase \in [Services -> {"down", "starting", "ready"}]
    /\ todo \in [Services -> Seq(Steps)] /\ \A s \in Services : Len(todo[s]) <= 8
    /\ tries \in [Services -> 1 .. Attempts]

EventTypes == recorded \cup routed \cup returned \cup begun \subseteq Events

BoundTypes ==
    /\ up \subseteq Dependencies
    /\ outages \in 0 .. MaxOutages /\ exits \in 0 .. MaxExits /\ failures \in 0 .. MaxFailures

LEMMA StepsAreFew ==
    ASSUME NEW s \in Services
    PROVE  StepsOf(s) \in Seq(Steps) /\ Len(StepsOf(s)) <= 8
<1> DEFINE K == When(Kafka, <<"kafka", "bus">>)
           C == When(s \in Agents /\ backend = "kafka", <<"consumer">>)
           R == When(Rabbit, <<"rabbitmq", "publisher">>)
           S == When(s \in Agents /\ Rabbit, <<"subscription">>)
<1>1. /\ K \in Seq(Steps) /\ C \in Seq(Steps) /\ R \in Seq(Steps) /\ S \in Seq(Steps)
      /\ Len(K) <= 2 /\ Len(C) <= 1 /\ Len(R) <= 2 /\ Len(S) <= 1
  <2>1. /\ <<"kafka", "bus">> \in Seq(Steps) /\ <<"consumer">> \in Seq(Steps)
        /\ <<"rabbitmq", "publisher">> \in Seq(Steps) /\ <<"subscription">> \in Seq(Steps)
        /\ <<>> \in Seq(Steps)
    BY DEF Steps, AllSteps
  <2> QED BY <2>1 DEF When
<1>2. C = <<>> \/ S = <<>>
  BY DEF When, Rabbit
<1>3. <<"postgres", "schema", "redis">> \in Seq(Steps) /\ Len(<<"postgres", "schema", "redis">>) = 3
  BY DEF Steps, AllSteps
<1>4. StepsOf(s) = <<"postgres", "schema", "redis">> \o K \o C \o R \o S
  BY DEF StepsOf
<1> HIDE DEF K, C, R, S
<1>5. Len(C) + Len(S) <= 1
  BY <1>1, <1>2
<1>6. <<"postgres", "schema", "redis">> \o K \o C \o R \o S \in Seq(Steps)
  BY <1>1, <1>3
<1>7. Len(<<"postgres", "schema", "redis">> \o K \o C \o R \o S) = 3 + Len(K) + Len(C) + Len(R) + Len(S)
  BY <1>1, <1>3
<1>8. Len(K) \in Nat /\ Len(C) \in Nat /\ Len(R) \in Nat /\ Len(S) \in Nat
  BY <1>1
<1> QED BY <1>1, <1>4, <1>5, <1>6, <1>7, <1>8

(* A service that exits, and one that is a step further.                   *)
LEMMA ExitsTyped ==
    ASSUME StartTypes, NEW s \in Services, Exits(s)
    PROVE  /\ phase' \in [Services -> {"down", "starting", "ready"}]
           /\ todo' \in [Services -> Seq(Steps)] /\ \A x \in Services : Len(todo'[x]) <= 8
           /\ tries' \in [Services -> 1 .. Attempts]
<1>1. Attempts \in 1 .. Attempts /\ <<>> \in Seq(Steps) /\ Len(<<>>) = 0
  BY BoundsAssumption
<1> QED BY <1>1 DEF StartTypes, Exits

LEMMA PassesTyped ==
    ASSUME StartTypes, NEW s \in Services, Passes(s), todo[s] # <<>>
    PROVE  /\ phase' \in [Services -> {"down", "starting", "ready"}]
           /\ todo' \in [Services -> Seq(Steps)] /\ \A x \in Services : Len(todo'[x]) <= 8
           /\ tries' \in [Services -> 1 .. Attempts]
<1>1. Attempts \in 1 .. Attempts
  BY BoundsAssumption
<1>2. todo[s] \in Seq(Steps) /\ Len(todo[s]) <= 8
  BY DEF StartTypes
<1>3. Len(todo[s]) \in Nat /\ Len(todo[s]) # 0
  BY <1>2
<1>4. Tail(todo[s]) \in Seq(Steps) /\ Len(Tail(todo[s])) = Len(todo[s]) - 1
  BY <1>2, <1>3
<1> QED BY <1>1, <1>2, <1>3, <1>4 DEF StartTypes, Passes

LEMMA StartsTyped ==
    ASSUME StartTypes, NEW s \in Services, Starts(s)
    PROVE  StartTypes'
<1>0. schema.made \in BOOLEAN /\ schema.by \subseteq Services
  BY DEF StartTypes
<1>1. CASE Boots(s)
  <2>1. Attempts \in 1 .. Attempts
    BY BoundsAssumption
  <2> QED BY <1>1, <2>1, StepsAreFew DEF Boots, StartTypes
<1>2. CASE MigrationBegins(s)
  BY <1>2 DEF MigrationBegins, StartTypes
<1>3. CASE MigrationEnds(s)
  <2>1. schema' \in [made : BOOLEAN, by : SUBSET Services]
    BY <1>0, <1>3 DEF MigrationEnds
  <2>2. todo[s] # <<>> /\ (Exits(s) \/ Passes(s))
    BY <1>3 DEF MigrationEnds, At
  <2> QED BY <2>1, <2>2, ExitsTyped, PassesTyped DEF StartTypes
<1>4. ASSUME NEW step, Refused(s, step)
      PROVE  StartTypes'
  <2>1. schema' = [schema EXCEPT !.by = @ \ {s}] /\ Exits(s)
    BY <1>4 DEF Refused
  <2>2. schema' \in [made : BOOLEAN, by : SUBSET Services]
    BY <2>1 DEF StartTypes
  <2> QED BY <2>1, <2>2, ExitsTyped DEF StartTypes
<1>5. ASSUME NEW step \in AllSteps, Connects(s, step)
      PROVE  StartTypes'
  <2>1. todo[s] # <<>> /\ Passes(s) /\ schema' = schema
    BY <1>5 DEF Connects, At
  <2> QED BY <2>1, PassesTyped DEF StartTypes
<1>6. ASSUME NEW step \in AllSteps, Waits(s, step)
      PROVE  StartTypes'
  <2>1. CASE Exits(s)
    BY <1>6, <2>1, ExitsTyped DEF Waits, StartTypes
  <2>2. CASE tries[s] > 1 /\ tries' = [tries EXCEPT ![s] = @ - 1] /\ UNCHANGED <<phase, todo>>
    <3>1. tries[s] - 1 \in 1 .. Attempts
      BY <2>2, BoundsAssumption DEF StartTypes
    <3> QED BY <1>6, <2>2, <3>1 DEF Waits, StartTypes
  <2> QED BY <1>6, <2>1, <2>2 DEF Waits
<1> QED BY <1>1, <1>2, <1>3, <1>4, <1>5, <1>6 DEF Starts

LEMMA StartTypesStep ==
    ASSUME StartTypes, [Next]_vars
    PROVE  StartTypes'
<1>1. ASSUME NEW s \in Services, Ends(s)
      PROVE  StartTypes'
  <2>1. schema' = [schema EXCEPT !.by = @ \ {s}] /\ Exits(s)
    BY <1>1 DEF Ends
  <2>2. schema' \in [made : BOOLEAN, by : SUBSET Services]
    BY <2>1 DEF StartTypes
  <2> QED BY <2>1, <2>2, ExitsTyped DEF StartTypes
<1>2. CASE UNCHANGED starting
  BY <1>2 DEF starting, StartTypes
<1>3. CASE \E s \in Services : PublishStep(s) \/ PublishFails(s) \/ \E e \in Events : Publishes(s, e)
  BY <1>2, <1>3 DEF PublishStep, PublishFails, Publishes
<1>4. CASE \E a \in Agents : Works(a) \/ HandlerRaises(a) \/ WorkerDies(a)
  BY <1>2, <1>4 DEF Works, Polls, Handles, HandlerRaises, WorkerDies
<1>5. CASE \E d \in Dependencies : Fails(d) \/ Recovers(d)
  BY <1>2, <1>5 DEF Fails, Recovers
<1>6. CASE UNCHANGED vars
  BY <1>2, <1>6 DEF vars
<1> QED BY <1>1, <1>3, <1>4, <1>5, <1>6, StartsTyped DEF Next

LEMMA EventTypesStep ==
    ASSUME EventTypes, PubInv, [Next]_vars
    PROVE  EventTypes'
<1>1. ASSUME NEW s \in Services, PublishStep(s)
      PROVE  EventTypes'
  <2>1. job[s].event \in Events
    BY <1>1 DEF PublishStep, PubInv
  <2>2. /\ recorded' \subseteq recorded \cup {job[s].event} /\ routed' \subseteq routed \cup {job[s].event}
        /\ returned' \subseteq returned \cup {job[s].event} /\ begun' = begun
    BY <1>1 DEF PublishStep
  <2> QED BY <2>1, <2>2 DEF EventTypes
<1>2. CASE UNCHANGED <<recorded, routed, returned, begun>>
  BY <1>2 DEF EventTypes
<1>3. ASSUME NEW s \in Services, NEW e \in Events, Publishes(s, e)
      PROVE  EventTypes'
  BY <1>3 DEF Publishes, EventTypes
<1>4. CASE \E s \in Services : Starts(s) \/ Ends(s) \/ PublishFails(s)
  BY <1>2, <1>4 DEF Starts, Boots, MigrationBegins, MigrationEnds, Refused, Connects, Waits, Ends,
     PublishFails, publishing
<1>5. CASE \E a \in Agents : Works(a) \/ HandlerRaises(a) \/ WorkerDies(a)
  BY <1>2, <1>5 DEF Works, Polls, Handles, HandlerRaises, WorkerDies, publishing
<1>6. CASE \E d \in Dependencies : Fails(d) \/ Recovers(d)
  BY <1>2, <1>6 DEF Fails, Recovers, publishing
<1>7. CASE UNCHANGED vars
  BY <1>2, <1>7 DEF vars, publishing
<1> QED BY <1>1, <1>3, <1>4, <1>5, <1>6, <1>7 DEF Next

LEMMA BoundTypesStep ==
    ASSUME BoundTypes, [Next]_vars
    PROVE  BoundTypes'
<1>0. MaxOutages \in Nat /\ MaxExits \in Nat /\ MaxFailures \in Nat
  BY BoundsAssumption
<1>1. CASE UNCHANGED <<up, bounds>>
  BY <1>1 DEF bounds, BoundTypes
<1>2. ASSUME NEW s \in Services, Ends(s)
      PROVE  BoundTypes'
  BY <1>0, <1>2 DEF Ends, BoundTypes
<1>3. CASE \E s \in Services : \/ Starts(s) \/ PublishFails(s) \/ PublishStep(s)
                              \/ \E e \in Events : Publishes(s, e)
  BY <1>1, <1>3 DEF Starts, Boots, MigrationBegins, MigrationEnds, Refused, Connects, Waits,
     PublishFails, PublishStep, Publishes
<1>4. ASSUME NEW a \in Agents, HandlerRaises(a)
      PROVE  BoundTypes'
  BY <1>0, <1>4 DEF HandlerRaises, BoundTypes
<1>5. CASE \E a \in Agents : Works(a) \/ WorkerDies(a)
  BY <1>1, <1>5 DEF Works, Polls, Handles, WorkerDies
<1>6. ASSUME NEW d \in Dependencies, Fails(d) \/ Recovers(d)
      PROVE  BoundTypes'
  BY <1>0, <1>6 DEF Fails, Recovers, bounds, BoundTypes
<1>7. CASE UNCHANGED vars
  BY <1>1, <1>7 DEF vars
<1> QED BY <1>2, <1>3, <1>4, <1>5, <1>6, <1>7 DEF Next

(* Every service's phase, steps and attempts, every event, offset and      *)
(* counter has its type; start() never has more than eight steps to do.    *)
THEOREM TypeCorrect == Spec => []TypeOK
<1> DEFINE TypeInv == PubInv /\ ConsInv /\ StartTypes /\ EventTypes /\ BoundTypes
<1>1. Init => TypeInv
  <2> SUFFICES ASSUME Init PROVE TypeInv
    OBVIOUS
  <2>1. StartTypes
    <3>1. Attempts \in 1 .. Attempts /\ <<>> \in Seq(Steps) /\ Len(<<>>) = 0
      BY BoundsAssumption
    <3> QED BY <3>1 DEF Init, StartTypes
  <2>2. EventTypes /\ BoundTypes
    BY BoundsAssumption DEF Init, EventTypes, BoundTypes
  <2> QED BY <2>1, <2>2, PubInit, ConsInit
<1>2. TypeInv /\ [Next]_vars => TypeInv'
  BY PubNext, ConsNext, StartTypesStep, EventTypesStep, BoundTypesStep
<1>3. TypeInv => TypeOK
  <2> SUFFICES ASSUME TypeInv PROVE TypeOK
    OBVIOUS
  <2>1. \A s \in Services : job[s].event \in Events \cup {"none"}
    BY DEF PubInv, NoJob
  <2>2. \A a \in Agents : /\ position[a] \in 0 .. Len(produced) /\ committed[a] <= position[a]
                          /\ done[a] \cup raised[a] \subseteq Events
    BY DEF ConsInv, ConsTypes, AgentInv
  <2>3. backend \in {"rabbitmq", "kafka", "dual", "unknown"} /\ produced \in Seq(Events)
    BY DEF PubInv, Backends
  <2>4. worker \in [Agents -> {"off", "polls", "handles", "dead"}]
    BY DEF ConsInv, ConsTypes
  <2> QED BY <2>1, <2>2, <2>3, <2>4 DEF StartTypes, EventTypes, BoundTypes, TypeOK
<1> QED BY <1>1, <1>2, <1>3, PTL DEF Spec

================================================================================
