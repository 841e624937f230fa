-------------------------------- MODULE NodePool --------------------------------
(***************************************************************************)
(* The node hashes node:<id> in Redis and those who write them without a   *)
(* lock: the resource-agent (initialize_nodes at each start, then its      *)
(* worker), the executor-agent (reserve and release), the scale-agent      *)
(* (nodes it adds and removes), the API (node failures) and the expiry of  *)
(* the keys.  A step is what one of them does between two awaits.          *)
(*                                                                         *)
(* A task takes one unit of a node; a node has Capacity of them.           *)
(***************************************************************************)
EXTENDS Integers, FiniteSets, Bags

CONSTANTS
    Configured,     \* agents.resource.nodes
    AutoNodes,      \* numbers node-auto-N may get
    NoNode,
    Capacity,
    Cooldown,       \* agents.scale.cooldown_seconds
    Baseline,       \* experiment:mode is baseline: no cooldown
    MaxRetries,     \* the broker's retry limit
    MaxTime,        \* bound: the clock
    MaxPlacements, MaxScaleIns, \* bounds: requests from outside
    MaxFaults       \* bound: failures of nodes, agents, calls and expired keys together

ASSUME NodesAssumption ==
    AutoNodes \subseteq Nat \ {0} /\ Configured \cap AutoNodes = {} /\ NoNode \notin Configured \cup AutoNodes
ASSUME ScaleAssumption == Capacity \in Nat \ {0} /\ Cooldown \in Nat \ {0} /\ Baseline \in BOOLEAN
ASSUME BoundsAssumption == /\ {MaxRetries, MaxTime, MaxFaults} \subseteq Nat
                           /\ {MaxPlacements, MaxScaleIns} \subseteq Nat

Nodes == Configured \cup AutoNodes

(* A partial hash lacks node_id, a named one has it but not the totals:    *)
(* what the agents' HSET and the API's make of a key that is gone.         *)
Hash == [kind : {"absent", "partial", "named", "whole"}, status : {"ready", "failed"}, used : Nat]
Absent == [kind |-> "absent", status |-> "ready", used |-> 0]

VARIABLES
    node,         \* the hashes
    running,      \* nodes with a set node:<id>:running
    resource,     \* resource-agent: phase, keys to read, the one in hand, what it read
    executor,     \* executor-agent: where it is, its node, the load it read
    scaler,       \* scale-agent: where it is, its message, keys to read, node, load, time
    placements,   \* need_placement not yet handled
    dispatches,   \* bag of nodes: decision.dispatch not yet handled
    decisions,    \* bag of decision.scale not yet handled
    unavailable,  \* node.unavailable not yet handled by the resource-agent
    last,         \* scaling:last_action_ts, or Never
    sequence,     \* scaling:auto_node_sequence
    clock,
    reported,     \* nodes whose failure the API announced (history)
    expired,      \* nodes whose hash expired or was deleted (history)
    overwritten,  \* nodes reserved or released while initialize_nodes had read them (history)
    late,         \* the scale-agent's node was reserved after it looked (history)
    requests,     \* from outside: how many, and the nodes the API is failing
    faults

agents == <<resource, executor, scaler>>
messages == <<placements, dispatches, decisions, unavailable>>
scaling == <<last, sequence, clock>>
history == <<reported, expired, overwritten, late>>
bounds == <<requests, faults>>
vars == <<node, running, agents, messages, scaling, history, bounds>>

Never == -1
Decision(action, attempt) == [action |-> action, attempt |-> attempt]
Decisions == [action : {"scale-out", "scale-in"}, attempt : 0 .. MaxRetries]
NoDecision == Decision("none", 0)
IdleScaler == [at |-> "idle", m |-> NoDecision, keys |-> {}, node |-> NoNode, used |-> 0, now |-> 0]

TypeOK ==
    /\ node \in [Nodes -> Hash] /\ running \subseteq Nodes
    /\ resource.at \in {"down", "init", "serve", "scan"}
    /\ resource.keys \cup resource.found \subseteq Nodes /\ resource.node \in Nodes \cup {NoNode}
    /\ executor \in [at : {"idle", "reserve", "mark", "hold", "release", "unmark"},
                     node : Nodes \cup {NoNode}, used : Nat]
    /\ scaler.at \in {"idle", "add", "stamp", "added", "scan", "count", "delete", "deleted", "dead"}
    /\ scaler.m \in Decisions \cup {NoDecision} /\ scaler.node \in Nodes \cup {NoNode}
    /\ placements \in Nat /\ unavailable \subseteq Nodes
    /\ IsABag(dispatches) /\ BagToSet(dispatches) \subseteq Nodes
    /\ IsABag(decisions) /\ BagToSet(decisions) \subseteq Decisions
    /\ last \in 0 .. MaxTime \cup {Never} /\ sequence \in Nat /\ clock \in 0 .. MaxTime
    /\ reported \cup expired \cup overwritten \subseteq Nodes /\ late \in BOOLEAN
    /\ requests.placements \in 0 .. MaxPlacements /\ requests.scaleIns \in 0 .. MaxScaleIns
    /\ requests.failing \subseteq Nodes
    /\ faults \in 0 .. MaxFaults

Init ==
    /\ node = [n \in Nodes |-> Absent] /\ running = {}
    /\ resource = [at |-> "down", keys |-> {}, node |-> NoNode, seen |-> Absent, found |-> {}]
    /\ executor = [at |-> "idle", node |-> NoNode, used |-> 0]
    /\ scaler = IdleScaler
    /\ placements = 0 /\ dispatches = EmptyBag /\ decisions = EmptyBag /\ unavailable = {}
    /\ last = Never /\ sequence = 0 /\ clock = 0
    /\ reported = {} /\ expired = {} /\ overwritten = {} /\ late = FALSE
    /\ requests = [placements |-> 0, scaleIns |-> 0, failing |-> {}] /\ faults = 0

(* HSET: h is the hash with the field set; a missing hash gets that field  *)
(* alone.                                                                  *)
HSet(n, h) ==
    node' = [node EXCEPT ![n] = [h EXCEPT !.kind = IF @ = "absent" THEN "partial" ELSE @]]

One(x) == SetToBag({x})
Fault == faults < MaxFaults /\ faults' = faults + 1

Fits(h) == h.status = "ready" /\ h.used < Capacity

(***************************************************************************)
(* resource-agent.                                                         *)
(***************************************************************************)
Others == <<running, executor, scaler, scaling>>

ResourceStarts ==
    /\ resource.at = "down"
    /\ resource' = [resource EXCEPT !.at = "init", !.keys = Configured]
    /\ UNCHANGED <<node, Others, messages, history, bounds>>

InitReads(n) ==
    /\ resource.at = "init" /\ resource.node = NoNode /\ n \in resource.keys
    /\ resource' = [resource EXCEPT !.node = n, !.seen = node[n], !.keys = @ \ {n}]
    /\ UNCHANGED <<node, Others, messages, history, bounds>>

InitWritten ==
    /\ resource.at = "init" /\ resource.node # NoNode
    /\ resource' = [resource EXCEPT !.at = IF resource.keys = {} THEN "serve" ELSE "init",
                                    !.node = NoNode, !.seen = Absent]
    /\ UNCHANGED <<Others, messages, history, bounds>>

(* Mutant: the node is taken for ready whatever its hash said.             *)
InitWrites_Ready ==
    /\ InitWritten
    /\ node' = [node EXCEPT ![resource.node] = [kind |-> "whole", status |-> "ready",
                                                used |-> resource.seen.used]]

(* Mutant: the node is taken for empty whatever its hash said.             *)
InitWrites_Empty ==
    /\ InitWritten
    /\ node' = [node EXCEPT ![resource.node] = [kind |-> "whole", status |-> resource.seen.status,
                                                used |-> 0]]

(* What it read, with defaults where nothing was, is written back.         *)
InitWrites ==
    /\ InitWritten
    /\ node' = [node EXCEPT ![resource.node] = [resource.seen EXCEPT !.kind = "whole"]]

ResourceDies ==
    /\ resource.at # "down" /\ Fault
    /\ resource' = [resource EXCEPT !.at = "down", !.keys = {}, !.node = NoNode,
                                    !.seen = Absent, !.found = {}]
    /\ placements' = IF resource.at = "scan" THEN placements + 1 ELSE placements
    /\ UNCHANGED <<node, Others, dispatches, decisions, unavailable, history, requests>>

(* worker, node.unavailable.                                               *)
MarksUnavailable(n) ==
    /\ resource.at = "serve" /\ n \in unavailable
    /\ HSet(n, [node[n] EXCEPT !.status = "failed"])
    /\ unavailable' = unavailable \ {n}
    /\ UNCHANGED <<resource, Others, placements, dispatches, decisions, history, bounds>>

(* handle_need_placement: scan_iter, then type and hash of each key.       *)
ScanStarts ==
    /\ resource.at = "serve" /\ placements > 0
    /\ placements' = placements - 1
    /\ resource' = [resource EXCEPT !.at = "scan",
                                    !.keys = {n \in Nodes : node[n].kind # "absent"}]
    /\ UNCHANGED <<node, Others, dispatches, decisions, unavailable, history, bounds>>

ScanReads(n) ==
    /\ resource.at = "scan" /\ n \in resource.keys
    /\ resource' = [resource EXCEPT !.keys = @ \ {n},
                                    !.found = IF node[n].kind = "whole" /\ Fits(node[n])
                                              THEN @ \cup {n} ELSE @]
    /\ UNCHANGED <<node, Others, messages, history, bounds>>

(* The coordinator dispatches to one that fits, or asks for another node.  *)
ScanEnds ==
    /\ resource.at = "scan" /\ resource.keys = {}
    /\ IF resource.found = {}
       THEN decisions' = decisions (+) One(Decision("scale-out", 0)) /\ UNCHANGED dispatches
       ELSE UNCHANGED decisions /\ \E n \in resource.found : dispatches' = dispatches (+) One(n)
    /\ resource' = [resource EXCEPT !.at = "serve", !.found = {}]
    /\ UNCHANGED <<node, Others, placements, unavailable, history, bounds>>

(***************************************************************************)
(* executor-agent: reserve, the running set, reserve back.                 *)
(***************************************************************************)
ReserveReads(n) ==
    /\ executor.at = "idle" /\ BagIn(n, dispatches)
    /\ dispatches' = dispatches (-) One(n)
    /\ executor' = IF node[n].status = "failed" THEN executor
                   ELSE [at |-> "reserve", node |-> n, used |-> node[n].used]
    /\ UNCHANGED <<node, running, resource, scaler, placements, decisions, unavailable,
                   scaling, history, bounds>>

(* An HSET of cpu_used and ram_used; who had read the hash does not know.  *)
ExecutorWrites(used, next) ==
    /\ HSet(executor.node, [node[executor.node] EXCEPT !.used = used])
    /\ executor' = [executor EXCEPT !.at = next]
    /\ overwritten' = IF resource.at = "init" /\ resource.node = executor.node
                      THEN overwritten \cup {executor.node} ELSE overwritten
    /\ UNCHANGED <<running, resource, scaler, messages, scaling, reported, expired, bounds>>

ReserveWrites ==
    /\ executor.at = "reserve"
    /\ ExecutorWrites(executor.used + 1, "mark")
    /\ late' = (late \/ scaler.node = executor.node)

MarksRunning ==
    /\ executor.at = "mark"
    /\ running' = running \cup {executor.node}
    /\ executor' = [executor EXCEPT !.at = "hold"]
    /\ UNCHANGED <<node, resource, scaler, messages, scaling, history, bounds>>

(* The task is done, or was found on a failed node: both give back.        *)
ReleaseReads ==
    /\ executor.at = "hold"
    /\ executor' = [executor EXCEPT !.at = "release", !.used = node[executor.node].used]
    /\ UNCHANGED <<node, running, resource, scaler, messages, scaling, history, bounds>>

(* Mutant: the load may fall below zero.                                   *)
ReleaseWrites_NoFloor ==
    /\ executor.at = "release"
    /\ ExecutorWrites(executor.used - 1, "unmark")
    /\ UNCHANGED late

ReleaseWrites ==
    /\ executor.at = "release"
    /\ ExecutorWrites(IF executor.used > 0 THEN executor.used - 1 ELSE 0, "unmark")
    /\ UNCHANGED late

UnmarksRunning ==
    /\ executor.at = "unmark"
    /\ running' = running \ {executor.node}
    /\ executor' = [at |-> "idle", node |-> NoNode, used |-> 0]
    /\ UNCHANGED <<node, resource, scaler, messages, scaling, history, bounds>>

(***************************************************************************)
(* scale-agent.                                                            *)
(***************************************************************************)
Rest == <<running, resource, executor, placements, dispatches, unavailable, reported,
          overwritten, bounds>>

Takes(m) == scaler.at = "idle" /\ BagIn(m, decisions) /\ decisions' = decisions (-) One(m)

(* Mutant: the last action is not asked for.                               *)
TakesScaleOut_NoCooldown(m) ==
    /\ m.action = "scale-out" /\ Takes(m)
    /\ scaler' = [IdleScaler EXCEPT !.at = "add", !.m = m, !.now = clock]
    /\ UNCHANGED <<node, Rest, scaling, expired, late>>

(* scale_out: blocked by the cooldown, or scaling.started.                 *)
TakesScaleOut(m) ==
    /\ m.action = "scale-out" /\ Takes(m)
    /\ scaler' = IF ~Baseline /\ last # Never /\ clock - last < Cooldown THEN scaler
                 ELSE [IdleScaler EXCEPT !.at = "add", !.m = m, !.now = clock]
    /\ UNCHANGED <<node, Rest, scaling, expired, late>>

AddsNode ==
    /\ scaler.at = "add" /\ sequence + 1 \in AutoNodes
    /\ sequence' = sequence + 1
    /\ node' = [node EXCEPT ![sequence + 1] = [Absent EXCEPT !.kind = "whole"]]
    /\ scaler' = [scaler EXCEPT !.at = "stamp"]
    /\ UNCHANGED <<Rest, decisions, last, clock, expired, late>>

(* The time is the one read before the node was added.                     *)
Stamps ==
    /\ scaler.at = "stamp"
    /\ last' = scaler.now
    /\ scaler' = [scaler EXCEPT !.at = "added"]
    /\ UNCHANGED <<node, Rest, decisions, sequence, clock, expired, late>>

(* scaling.done with requeue_after_scale: the queue-agent asks again.      *)
ScaleOutDone ==
    /\ scaler.at = "added"
    /\ placements' = placements + 1
    /\ scaler' = IdleScaler
    /\ UNCHANGED <<node, running, resource, executor, dispatches, decisions, unavailable,
                   scaling, history, bounds>>

(* scale_in: the keys node:node-auto-*, running sets among them.           *)
TakesScaleIn(m) ==
    /\ m.action = "scale-in" /\ Takes(m)
    /\ scaler' = [IdleScaler EXCEPT !.at = "scan", !.m = m,
                    !.keys = {n \in AutoNodes : node[n].kind # "absent"} \X {"hash"}
                             \cup (running \cap AutoNodes) \X {"set"}]
    /\ UNCHANGED <<node, Rest, scaling, expired, late>>

LooksAt(key) == scaler.at = "scan" /\ key \in scaler.keys

LooksAtNode(n) ==
    /\ LooksAt(<<n, "hash">>)
    /\ scaler' = IF node[n].kind \in {"named", "whole"}
                 THEN [scaler EXCEPT !.keys = @ \ {<<n, "hash">>}, !.at = "count",
                                     !.node = n, !.used = node[n].used]
                 ELSE [scaler EXCEPT !.keys = @ \ {<<n, "hash">>}]
    /\ late' = FALSE
    /\ UNCHANGED <<node, Rest, decisions, scaling, expired>>

(* Mutant: a node with tasks is not passed over.                           *)
Counts_Busy ==
    /\ scaler.at = "count"
    /\ scaler' = [scaler EXCEPT !.at = "delete"]
    /\ UNCHANGED <<node, Rest, decisions, scaling, expired, late>>

(* SCARD of the running set, and scaling.started.                          *)
Counts ==
    /\ scaler.at = "count"
    /\ scaler' = IF scaler.node \notin running /\ scaler.used = 0
                 THEN [scaler EXCEPT !.at = "delete"]
                 ELSE [scaler EXCEPT !.at = "scan", !.node = NoNode, !.used = 0]
    /\ UNCHANGED <<node, Rest, decisions, scaling, expired, late>>

Deletes ==
    /\ scaler.at = "delete"
    /\ node' = [node EXCEPT ![scaler.node] = Absent]
    /\ expired' = expired \cup {scaler.node}
    /\ scaler' = [scaler EXCEPT !.at = "deleted", !.node = NoNode]
    /\ UNCHANGED <<Rest, decisions, scaling, late>>

(* Mutant: a refusal is not committed, and delivered again.                *)
ScaleInEnds_NotCommitted ==
    /\ scaler.at = "deleted" \/ (scaler.at = "scan" /\ scaler.keys = {})
    /\ decisions' = IF scaler.at = "scan" THEN decisions (+) One(scaler.m) ELSE decisions
    /\ scaler' = IdleScaler
    /\ UNCHANGED <<node, Rest, scaling, expired, late>>

(* scaling.done, or scaling.blocked when no node is safe to remove.        *)
ScaleInEnds ==
    /\ scaler.at = "deleted" \/ (scaler.at = "scan" /\ scaler.keys = {})
    /\ scaler' = IdleScaler
    /\ UNCHANGED <<node, Rest, decisions, scaling, expired, late>>

(* scaling.failed: the message is retried, until the limit dead-letters it.*)
Retried ==
    /\ decisions' = IF scaler.m.attempt < MaxRetries
                    THEN decisions (+) One([scaler.m EXCEPT !.attempt = @ + 1]) ELSE decisions
    /\ scaler' = IdleScaler

(* HGETALL of a running set raises; of one emptied meanwhile, it is empty. *)
LooksAtSet(n) ==
    /\ LooksAt(<<n, "set">>)
    /\ IF n \in running THEN Retried
       ELSE scaler' = [scaler EXCEPT !.keys = @ \ {<<n, "set">>}] /\ UNCHANGED decisions
    /\ UNCHANGED <<node, Rest, scaling, expired, late>>

ScalerFails ==
    /\ scaler.at \notin {"idle", "dead"} /\ Fault
    /\ Retried
    /\ UNCHANGED <<node, running, resource, executor, placements, dispatches, unavailable,
                   scaling, history, requests>>

(* The broker is what fails: publishing scaling.failed raises as well, and *)
(* ends the worker for good.                                               *)
ScalerDies ==
    /\ scaler.at \notin {"idle", "dead"} /\ Fault
    /\ decisions' = decisions (+) One(scaler.m)
    /\ scaler' = [IdleScaler EXCEPT !.at = "dead"]
    /\ UNCHANGED <<node, running, resource, executor, placements, dispatches, unavailable,
                   scaling, history, requests>>

(***************************************************************************)
(* The API, the keys' expiry, requests from outside, the clock.            *)
(***************************************************************************)
(* simulate_node_failure: HSET of node_id and status, whatever the key     *)
(* holds by then.  The nodes are those that were configured or added.      *)
FailNode(n) ==
    /\ n \in Configured \/ n \in 1 .. sequence
    /\ Fault
    /\ node' = [node EXCEPT ![n].status = "failed",
                            ![n].kind = IF @ = "whole" THEN "whole" ELSE "named"]
    /\ requests' = [requests EXCEPT !.failing = @ \cup {n}]
    /\ UNCHANGED <<running, agents, messages, scaling, history>>

(* Its node.unavailable, several awaits later; a request that raised in    *)
(* between never gets here.                                                *)
Announces(n) ==
    /\ n \in requests.failing
    /\ requests' = [requests EXCEPT !.failing = @ \ {n}]
    /\ unavailable' = unavailable \cup {n}
    /\ reported' = reported \cup {n}
    /\ UNCHANGED <<node, running, agents, placements, dispatches, decisions, scaling, expired,
                   overwritten, late, faults>>

(* initialize_nodes gives configured nodes the runtime TTL.                *)
Expires(n) ==
    /\ n \in Configured /\ node[n].kind # "absent" /\ Fault
    /\ node' = [node EXCEPT ![n] = Absent]
    /\ expired' = expired \cup {n}
    /\ UNCHANGED <<running, agents, messages, scaling, reported, overwritten, late, requests>>

AsksPlacement ==
    /\ requests.placements < MaxPlacements
    /\ requests' = [requests EXCEPT !.placements = @ + 1]
    /\ placements' = placements + 1
    /\ UNCHANGED <<node, running, agents, dispatches, decisions, unavailable, scaling, history, faults>>

AsksScaleIn ==
    /\ requests.scaleIns < MaxScaleIns
    /\ requests' = [requests EXCEPT !.scaleIns = @ + 1]
    /\ decisions' = decisions (+) One(Decision("scale-in", 0))
    /\ UNCHANGED <<node, running, agents, placements, dispatches, unavailable, scaling, history, faults>>

Tick ==
    /\ clock < MaxTime /\ clock' = clock + 1
    /\ UNCHANGED <<node, running, agents, messages, last, sequence, history, bounds>>

--------------------------------------------------------------------------------
Resource ==
    \/ ResourceStarts \/ InitWrites \/ ScanStarts \/ ScanEnds
    \/ \E n \in Nodes : InitReads(n) \/ MarksUnavailable(n) \/ ScanReads(n)

Executor ==
    \/ \E n \in Nodes : ReserveReads(n)
    \/ ReserveWrites \/ MarksRunning \/ ReleaseReads \/ ReleaseWrites \/ UnmarksRunning

Scaler ==
    \/ \E m \in Decisions : TakesScaleOut(m) \/ TakesScaleIn(m)
    \/ AddsNode \/ Stamps \/ ScaleOutDone
    \/ \E n \in Nodes : LooksAtNode(n) \/ LooksAtSet(n)
    \/ Counts \/ Deletes \/ ScaleInEnds

Surroundings ==
    \/ ResourceDies \/ ScalerFails \/ ScalerDies \/ Tick
    \/ \E n \in Nodes : FailNode(n) \/ Announces(n) \/ Expires(n)
    \/ AsksPlacement \/ AsksScaleIn

Next == Resource \/ Executor \/ Scaler \/ Surroundings

Spec == Init /\ [][Next]_vars

(* The scale-agent's worker runs on until it dies.                         *)
FairSpec == Spec /\ WF_vars(Scaler)

(***************************************************************************)
(* Properties.                                                             *)
(***************************************************************************)
Holds(n) == executor.node = n /\ executor.at \in {"mark", "hold", "release"}

(* cpu_used is what the executor reserved, on every node whose hash was not*)
(* lost and which it did not reserve or release while initialize_nodes was *)
(* between its read and its write; a restart at any other time keeps it.   *)
ReservationsKept ==
    \A n \in Nodes \ (expired \cup overwritten) :
        node[n].used = IF Holds(n) THEN 1 ELSE 0

(* A node the API failed is marked failed once the resource-agent handled  *)
(* the event, even if initialize_nodes had read it ready before: only the  *)
(* loss of its hash brings it back.                                        *)
FailureSticks ==
    \A n \in reported \ (unavailable \cup expired) :
        node[n].status = "failed"

(* scale_in does not remove a node with a reservation, except one that was *)
(* reserved after it read the node's hash, or whose reservation went with  *)
(* the hash before (the API's HSET makes such a node a candidate again).   *)
ScaleInSafe == scaler.at = "delete" /\ Holds(scaler.node) => late \/ scaler.node \in expired

(* docs/FINAL_REPORT.md:15 has the scale-agent block an unsafe scale-in: no*)
(* node is removed while the executor-agent holds a reservation on it.     *)
UnsafeScaleInBlocked == scaler.at = "delete" => ~Holds(scaler.node)

(* Nodes are not added faster than the cooldown allows, but for one more   *)
(* with each call that failed behind a node added already.                 *)
ScaleOutsBounded ==
    ~Baseline => sequence <= 1 + (clock \div Cooldown) + faults

(* Every scale decision is worked off, by doing, refusing or dead-lettering*)
(* it, as long as the worker lives.                                        *)
ScaleAnswered == []<>(decisions = EmptyBag \/ scaler.at = "dead")
================================================================================
