--------------------------------- MODULE Service --------------------------------
(***************************************************************************)
(* What all services share: ServiceRuntime (and the API's own copy of it)  *)
(* starting, publishing and stopping, the migrations they all run at start,*)
(* and the Kafka consumer of an agent.  RabbitDelivery has the consumption *)
(* from RabbitMQ.  Docker restarts what exits (restart: unless-stopped).   *)
(***************************************************************************)
EXTENDS Naturals, Sequences, FiniteSets, SequencesExt

CONSTANTS
    Agents, Api,
    Events,        \* bound: what is ever published
    Expired,       \* events that outlive expires_at before they are consumed
    Attempts,      \* system.retry.attempts
    MaxOutages,    \* bound: dependencies that fail
    MaxExits,      \* bound: services that are stopped or killed
    MaxFailures    \* bound: handlers that raise

ASSUME ServicesAssumption == Api \notin Agents /\ Expired \subseteq Events
ASSUME BoundsAssumption == /\ Attempts \in Nat \ {0}
                           /\ {MaxOutages, MaxExits, MaxFailures} \subseteq Nat

Services == Agents \cup {Api}
Dependencies == {"postgres", "redis", "kafka", "rabbitmq"}

VARIABLES
    backend,    \* EVENT_BACKEND, the same for all services
    up,         \* dependencies that answer
    schema,     \* the tables: none, done, or the services in run_migrations
    phase,      \* of each service
    todo,       \* steps of start() it has left
    tries,      \* attempts of retry_async it has left
    job,        \* the publish() it is in: event and steps left
    recorded, produced, routed, \* events in the table, the Kafka log, RabbitMQ
    returned,   \* events whose publish() returned (history)
    begun,      \* events whose publish() was called (history)
    worker,     \* the Kafka worker of each agent
    position, committed, \* its consumer's next offset and its group's offset
    done,       \* events its handler finished (history)
    raised,     \* events its handler raised on (history)
    outages, exits, failures

starting == <<schema, phase, todo, tries>>
publishing == <<job, recorded, produced, routed, returned, begun>>
consuming == <<worker, position, committed, done, raised>>
bounds == <<outages, exits, failures>>
vars == <<backend, up, starting, publishing, consuming, bounds>>

Kafka == backend \in {"kafka", "dual"}
Rabbit == backend \in {"rabbitmq", "dual"}

When(condition, steps) == IF condition THEN steps ELSE <<>>

(* start(), from the first dependency to ready.  An agent refuses a backend*)
(* it does not know; the API takes it for none at all.                     *)
StepsOf(s) ==
    <<"postgres", "schema", "redis">>
    \o When(Kafka, <<"kafka", "bus">>)
    \o When(s \in Agents /\ backend = "kafka", <<"consumer">>)
    \o When(Rabbit, <<"rabbitmq", "publisher">>)
    \o When(s \in Agents /\ Rabbit, <<"subscription">>)

Needs(step) ==
    CASE step \in {"postgres", "schema", "record"} -> "postgres"
      [] step = "redis" -> "redis"
      [] step \in {"kafka", "bus", "consumer", "produce"} -> "kafka"
      [] OTHER -> "rabbitmq"

(* The steps that go through retry_async.                                  *)
Retried == {"postgres", "redis", "kafka", "rabbitmq", "publisher", "subscription"}

(* Mutant: the brokers come before the row.                                *)
PublishSteps_RowLast == Append(When(Rabbit, <<"route">>) \o When(Kafka, <<"produce">>), "record")

(* publish(): the row first, then Kafka, then RabbitMQ.                    *)
PublishSteps ==
    CASE backend = "kafka"    -> <<"record", "produce">>
      [] backend = "rabbitmq" -> <<"record", "route">>
      [] backend = "dual"     -> <<"record", "produce", "route">>
      [] OTHER                -> <<"record">>

NoJob == [event |-> "none", todo |-> <<>>]

TypeOK ==
    /\ backend \in {"rabbitmq", "kafka", "dual", "unknown"} /\ up \subseteq Dependencies
    /\ schema \in [made : BOOLEAN, by : SUBSET Services]
    /\ phase \in [Services -> {"down", "starting", "ready"}]
    /\ \A s \in Services : Len(todo[s]) <= 8 /\ job[s].event \in Events \cup {"none"}
    /\ tries \in [Services -> 1 .. Attempts]
    /\ recorded \cup routed \cup returned \cup begun \subseteq Events
    /\ produced \in Seq(Events)
    /\ worker \in [Agents -> {"off", "polls", "handles", "dead"}]
    /\ \A a \in Agents : /\ position[a] \in 0 .. Len(produced) /\ committed[a] <= position[a]
                         /\ done[a] \cup raised[a] \subseteq Events
    /\ outages \in 0 .. MaxOutages /\ exits \in 0 .. MaxExits /\ failures \in 0 .. MaxFailures

Init ==
    /\ backend \in {"rabbitmq", "kafka", "dual", "unknown"} /\ up = Dependencies
    /\ schema = [made |-> FALSE, by |-> {}]
    /\ phase = [s \in Services |-> "down"]
    /\ todo = [s \in Services |-> <<>>] /\ tries = [s \in Services |-> Attempts]
    /\ job = [s \in Services |-> NoJob]
    /\ recorded = {} /\ produced = <<>> /\ routed = {} /\ returned = {} /\ begun = {}
    /\ worker = [a \in Agents |-> "off"]
    /\ position = [a \in Agents |-> 0] /\ committed = [a \in Agents |-> 0]
    /\ done = [a \in Agents |-> {}] /\ raised = [a \in Agents |-> {}]
    /\ outages = 0 /\ exits = 0 /\ failures = 0

(***************************************************************************)
(* start().                                                                *)
(***************************************************************************)
Boots(s) ==
    /\ phase[s] = "down" /\ (s \in Agents => backend # "unknown")
    /\ phase' = [phase EXCEPT ![s] = "starting"]
    /\ todo' = [todo EXCEPT ![s] = StepsOf(s)]
    /\ tries' = [tries EXCEPT ![s] = Attempts]
    /\ UNCHANGED <<backend, up, schema, publishing, consuming, bounds>>

At(s, step) == phase[s] = "starting" /\ todo[s] # <<>> /\ Head(todo[s]) = step

(* The last step makes the service ready.  With a Kafka consumer, which is *)
(* the last one started, its lifespan starts the worker.                   *)
Passes(s) ==
    /\ todo' = [todo EXCEPT ![s] = Tail(@)]
    /\ tries' = [tries EXCEPT ![s] = Attempts]
    /\ phase' = [phase EXCEPT ![s] = IF Len(todo[s]) = 1 THEN "ready" ELSE "starting"]
    /\ worker' = IF todo[s] = <<"consumer">> THEN [worker EXCEPT ![s] = "polls"] ELSE worker

(* start() raises, or the process is told to stop or killed: in either case*)
(* nothing of the process is left.                                         *)
Exits(s) ==
    /\ phase' = [phase EXCEPT ![s] = "down"]
    /\ todo' = [todo EXCEPT ![s] = <<>>]
    /\ tries' = [tries EXCEPT ![s] = Attempts]

(* Mutant: a consumer starts behind what was produced before.              *)
Connects_Latest(s, step) ==
    /\ At(s, step) /\ step # "schema" /\ Needs(step) \in up
    /\ Passes(s)
    /\ position' = IF step = "consumer" THEN [position EXCEPT ![s] = Len(produced)] ELSE position
    /\ UNCHANGED <<backend, up, schema, publishing, committed, done, raised, bounds>>

(* A consumer starts at its group's offset, or at the log's beginning.     *)
Connects(s, step) ==
    /\ At(s, step) /\ step # "schema" /\ Needs(step) \in up
    /\ Passes(s)
    /\ position' = IF step = "consumer" THEN [position EXCEPT ![s] = committed[s]] ELSE position
    /\ UNCHANGED <<backend, up, schema, publishing, committed, done, raised, bounds>>

(* retry_async: an attempt, a pause, and after the last one an exception.  *)
Waits(s, step) ==
    /\ At(s, step) /\ step \in Retried /\ Needs(step) \notin up
    /\ IF tries[s] > 1
       THEN tries' = [tries EXCEPT ![s] = @ - 1] /\ UNCHANGED <<phase, todo>>
       ELSE Exits(s)
    /\ UNCHANGED <<backend, up, schema, publishing, consuming, bounds>>

Refused(s, step) ==
    /\ At(s, step) /\ step \in {"schema", "bus", "consumer"} /\ Needs(step) \notin up
    /\ Exits(s)
    /\ schema' = [schema EXCEPT !.by = @ \ {s}]
    /\ UNCHANGED <<backend, up, publishing, consuming, bounds>>

(* run_migrations: IF NOT EXISTS sees no table while another transaction   *)
(* creates it.                                                             *)
MigrationBegins(s) ==
    /\ At(s, "schema") /\ "postgres" \in up /\ ~schema.made /\ s \notin schema.by
    /\ schema' = [schema EXCEPT !.by = @ \cup {s}]
    /\ UNCHANGED <<backend, up, phase, todo, tries, publishing, consuming, bounds>>

(* Mutant: the tables are created whether or not they exist.               *)
MigrationEnds_Unconditional(s) ==
    /\ At(s, "schema") /\ "postgres" \in up
    /\ schema' = [made |-> TRUE, by |-> schema.by \ {s}]
    /\ IF schema.made THEN Exits(s) /\ UNCHANGED worker ELSE s \in schema.by /\ Passes(s)
    /\ UNCHANGED <<backend, up, publishing, position, committed, done, raised, bounds>>

(* It commits, or finds the tables; but one that began to create what      *)
(* another has committed since is told they exist, and raises.             *)
MigrationEnds(s) ==
    /\ At(s, "schema") /\ "postgres" \in up /\ (schema.made \/ s \in schema.by)
    /\ schema' = [made |-> TRUE, by |-> schema.by \ {s}]
    /\ IF schema.made /\ s \in schema.by THEN Exits(s) /\ UNCHANGED worker ELSE Passes(s)
    /\ UNCHANGED <<backend, up, publishing, position, committed, done, raised, bounds>>

(* stop(), or a crash.                                                     *)
Ends(s) ==
    /\ phase[s] # "down" /\ exits < MaxExits /\ exits' = exits + 1
    /\ Exits(s)
    /\ schema' = [schema EXCEPT !.by = @ \ {s}]
    /\ job' = [job EXCEPT ![s] = NoJob]
    /\ worker' = IF s \in Agents THEN [worker EXCEPT ![s] = "off"] ELSE worker
    /\ UNCHANGED <<backend, up, recorded, produced, routed, returned, begun,
                   position, committed, done, raised, outages, failures>>

(***************************************************************************)
(* publish().                                                              *)
(***************************************************************************)
Publishes(s, e) ==
    /\ phase[s] = "ready" /\ job[s] = NoJob /\ e \notin begun
    /\ begun' = begun \cup {e}
    /\ job' = [job EXCEPT ![s] = [event |-> e, todo |-> PublishSteps]]
    /\ UNCHANGED <<backend, up, starting, recorded, produced, routed, returned, consuming, bounds>>

PublishStep(s) ==
    LET e == job[s].event  step == Head(job[s].todo) IN
    /\ job[s] # NoJob /\ Needs(step) \in up
    /\ recorded' = IF step = "record" THEN recorded \cup {e} ELSE recorded
    /\ produced' = IF step = "produce" THEN Append(produced, e) ELSE produced
    /\ routed' = IF step = "route" THEN routed \cup {e} ELSE routed
    /\ IF Len(job[s].todo) = 1
       THEN returned' = returned \cup {e} /\ job' = [job EXCEPT ![s] = NoJob]
       ELSE job' = [job EXCEPT ![s].todo = Tail(@)] /\ UNCHANGED returned
    /\ UNCHANGED <<backend, up, starting, begun, consuming, bounds>>

PublishFails(s) ==
    /\ job[s] # NoJob /\ Needs(Head(job[s].todo)) \notin up
    /\ job' = [job EXCEPT ![s] = NoJob]
    /\ UNCHANGED <<backend, up, starting, recorded, produced, routed, returned, begun,
                   consuming, bounds>>

(***************************************************************************)
(* The worker of an agent over Kafka.                                      *)
(***************************************************************************)
Current(a) == produced[position[a]]

(* Mutant: the offset is committed before the event is handled.            *)
Polls_Commits(a) ==
    /\ worker[a] = "polls" /\ "kafka" \in up /\ position[a] < Len(produced)
    /\ position' = [position EXCEPT ![a] = @ + 1]
    /\ committed' = [committed EXCEPT ![a] = position[a] + 1]
    /\ worker' = IF produced[position[a] + 1] \in Expired THEN worker
                 ELSE [worker EXCEPT ![a] = "handles"]
    /\ UNCHANGED <<backend, up, starting, publishing, done, raised, bounds>>

(* events(): the consumer moves on; an expired event is committed at once. *)
Polls(a) ==
    /\ worker[a] = "polls" /\ "kafka" \in up /\ position[a] < Len(produced)
    /\ position' = [position EXCEPT ![a] = @ + 1]
    /\ IF produced[position[a] + 1] \in Expired
       THEN committed' = [committed EXCEPT ![a] = position[a] + 1] /\ UNCHANGED worker
       ELSE worker' = [worker EXCEPT ![a] = "handles"] /\ UNCHANGED committed
    /\ UNCHANGED <<backend, up, starting, publishing, done, raised, bounds>>

(* commit() takes no offset: all that was polled counts, what failed too.  *)
Handles(a) ==
    /\ worker[a] = "handles" /\ "kafka" \in up
    /\ done' = [done EXCEPT ![a] = @ \cup {Current(a)}]
    /\ committed' = [committed EXCEPT ![a] = position[a]]
    /\ worker' = [worker EXCEPT ![a] = "polls"]
    /\ UNCHANGED <<backend, up, starting, publishing, position, raised, bounds>>

(* The handler or its commit raises: the worker goes on to the next event. *)
HandlerRaises(a) ==
    /\ worker[a] = "handles" /\ failures < MaxFailures /\ failures' = failures + 1
    /\ raised' = [raised EXCEPT ![a] = @ \cup {Current(a)}]
    /\ worker' = [worker EXCEPT ![a] = "polls"]
    /\ UNCHANGED <<backend, up, starting, publishing, position, committed, done, outages, exits>>

(* The commit of an expired event raises inside events(), outside the try: *)
(* the worker is over, and the service stays ready.                        *)
WorkerDies(a) ==
    /\ worker[a] = "polls" /\ "kafka" \notin up
    /\ position[a] < Len(produced) /\ produced[position[a] + 1] \in Expired
    /\ position' = [position EXCEPT ![a] = @ + 1]
    /\ worker' = [worker EXCEPT ![a] = "dead"]
    /\ UNCHANGED <<backend, up, starting, publishing, committed, done, raised, bounds>>

(***************************************************************************)
(* The dependencies.                                                       *)
(***************************************************************************)
Fails(d) ==
    /\ d \in up /\ outages < MaxOutages /\ outages' = outages + 1
    /\ up' = up \ {d}
    /\ UNCHANGED <<backend, starting, publishing, consuming, exits, failures>>

Recovers(d) ==
    /\ d \notin up /\ up' = up \cup {d}
    /\ UNCHANGED <<backend, starting, publishing, consuming, bounds>>

--------------------------------------------------------------------------------
AllSteps == {"postgres", "redis", "kafka", "bus", "consumer", "rabbitmq", "publisher", "subscription"}

Starts(s) ==
    \/ Boots(s) \/ MigrationBegins(s) \/ MigrationEnds(s) \/ Refused(s, "schema")
    \/ \E step \in AllSteps : Connects(s, step) \/ Waits(s, step) \/ Refused(s, step)

Works(a) == Polls(a) \/ Handles(a)

Next ==
    \/ \E s \in Services :
        \/ Starts(s) \/ Ends(s)
        \/ PublishStep(s) \/ PublishFails(s)
        \/ \E e \in Events : Publishes(s, e)
    \/ \E a \in Agents : Works(a) \/ HandlerRaises(a) \/ WorkerDies(a)
    \/ \E d \in Dependencies : Fails(d) \/ Recovers(d)

Spec == Init /\ [][Next]_vars

(* A container that exits is restarted, one that runs proceeds, and what   *)
(* fails recovers.                                                         *)
FairSpec ==
    /\ Spec
    /\ \A s \in Services : WF_vars(Starts(s))
    /\ \A a \in Agents : WF_vars(Works(a))
    /\ \A d \in Dependencies : WF_vars(Recovers(d))

(***************************************************************************)
(* Properties.                                                             *)
(***************************************************************************)
(* What a consumer can see has its row in events, in dual mode RabbitMQ    *)
(* never gets what Kafka did not, and a publish() that returned reached    *)
(* the brokers, unless the API runs with a backend it does not know.       *)
PublishedInOrder ==
    /\ ToSet(produced) \cup routed \subseteq recorded
    /\ backend = "dual" => routed \subseteq ToSet(produced)
    /\ backend # "unknown" =>
         returned \subseteq (IF Rabbit THEN routed ELSE ToSet(produced))

(* Kafka mode: below the committed offset every event was handled, or had  *)
(* expired, or its handler raised and a later event was committed over it. *)
CommittedSettled ==
    \A a \in Agents : \A i \in 1 .. committed[a] :
        produced[i] \in done[a] \cup Expired \cup raised[a]

(* Every service becomes ready and stays so but for restarts, even when    *)
(* two of them run the first migration at once and one fails on it.        *)
EventuallyReady ==
    \A s \in Services : (s = Api \/ backend # "unknown") => []<>(phase[s] = "ready")

(* An event of the Kafka log is settled by every agent, but for an agent   *)
(* whose consumer raised, which is not started again.                      *)
EventuallyConsumed ==
    \A a \in Agents, e \in Events :
        e \in ToSet(produced) ~>
            (e \in done[a] \cup Expired \cup raised[a] \/ worker[a] = "dead" \/ backend # "kafka")
================================================================================
