----------------------------- MODULE NodePoolProofs -----------------------------
(***************************************************************************)
(* Theorems about NodePool, for any nodes, capacity, cooldown and number   *)
(* of requests and failures.                                               *)
(***************************************************************************)
EXTENDS NodePool, TLAPS

USE DEF Nodes

(***************************************************************************)
(* Shapes: the types of what the other invariants speak of.                *)
(***************************************************************************)
ResourceShape ==
    [at : {"down", "init", "serve", "scan"}, keys : SUBSET Nodes, node : Nodes \cup {NoNode},
     seen : Hash, found : SUBSET Nodes]

ExecutorShape ==
    [at : {"idle", "reserve", "mark", "hold", "release", "unmark"}, node : Nodes \cup {NoNode},
     used : Nat]

ScalerShape ==
    [at : {"idle", "add", "stamp", "added", "scan", "count", "delete", "deleted", "dead"},
     m : Decisions \cup {NoDecision}, keys : SUBSET (AutoNodes \X {"hash", "set"}),
     node : Nodes \cup {NoNode}, used : Nat, now : Int]

Shape ==
    /\ node \in [Nodes -> Hash]
    /\ resource \in ResourceShape /\ executor \in ExecutorShape /\ scaler \in ScalerShape
    /\ executor.at # "idle" => executor.node \in Nodes
    /\ scaler.at \in {"count", "delete"} => scaler.node \in AutoNodes
    /\ DOMAIN dispatches \subseteq Nodes /\ unavailable \subseteq Nodes
    /\ clock \in Int /\ sequence \in Nat

(* Nodes that are or were there: what a number to come may get is in       *)
(* nobody's hands.                                                         *)
Old == Configured \cup {n \in AutoNodes : n <= sequence}

Asked == requests \in [placements : Nat, scaleIns : Nat, failing : SUBSET Old]

LEMMA AbsentIsHash == Absent \in Hash
  BY DEF Absent, Hash

LEMMA IdleScalerShape == IdleScaler \in ScalerShape
  BY DEF IdleScaler, ScalerShape

(* An HSET changes one field of one node and never makes a hash whole.     *)
LEMMA HSetStatus ==
    ASSUME node \in [Nodes -> Hash], NEW n \in Nodes, HSet(n, [node[n] EXCEPT !.status = "failed"])
    PROVE  /\ node' \in [Nodes -> Hash]
           /\ \A k \in Nodes : k # n => node'[k] = node[k]
           /\ node'[n].status = "failed" /\ node'[n].used = node[n].used
           /\ node'[n].kind # "absent" /\ (node'[n].kind = "whole" => node[n].kind = "whole")
<1> DEFINE r == [kind |-> IF node[n].kind = "absent" THEN "partial" ELSE node[n].kind,
                 status |-> "failed", used |-> node[n].used]
<1>1. node[n] \in Hash
  OBVIOUS
<1> DEFINE h == [node[n] EXCEPT !.status = "failed"]
<1>2. h \in Hash /\ h.kind = node[n].kind /\ h.status = r.status /\ h.used = r.used
  BY <1>1 DEF Hash
<1>3. [h EXCEPT !.kind = IF @ = "absent" THEN "partial" ELSE @] = r
  <2> HIDE DEF h
  <2> QED BY <1>2 DEF Hash
<1>4. node' = [node EXCEPT ![n] = r]
  BY <1>3 DEF HSet
<1>5. r \in Hash
  BY <1>1 DEF Hash
<1> QED BY <1>1, <1>4, <1>5 DEF Hash

LEMMA ApiWrites ==
    ASSUME node \in [Nodes -> Hash], NEW n \in Nodes, FailNode(n)
    PROVE  /\ node' \in [Nodes -> Hash]
           /\ \A k \in Nodes : k # n => node'[k] = node[k]
           /\ node'[n].status = "failed" /\ node'[n].used = node[n].used
           /\ node'[n].kind # "absent" /\ (node'[n].kind = "whole" => node[n].kind = "whole")
<1> DEFINE r == [kind |-> IF node[n].kind = "whole" THEN "whole" ELSE "named",
                 status |-> "failed", used |-> node[n].used]
<1>1. node[n] \in Hash
  OBVIOUS
<1> DEFINE h == [node[n] EXCEPT !.status = "failed"]
<1>2. h \in Hash /\ h.kind = node[n].kind /\ h.status = r.status /\ h.used = r.used
  BY <1>1 DEF Hash
<1>3. [h EXCEPT !.kind = IF @ = "whole" THEN "whole" ELSE "named"] = r
  <2> HIDE DEF h
  <2> QED BY <1>2 DEF Hash
<1>4. node' = [node EXCEPT ![n] = r]
  BY <1>3 DEF FailNode
<1>5. r \in Hash
  BY <1>1 DEF Hash
<1> QED BY <1>1, <1>4, <1>5 DEF Hash

LEMMA HSetUsed ==
    ASSUME node \in [Nodes -> Hash], NEW n \in Nodes, NEW used \in Nat, HSet(n, [node[n] EXCEPT !.used = used])
    PROVE  /\ node' \in [Nodes -> Hash]
           /\ \A k \in Nodes : k # n => node'[k] = node[k]
           /\ node'[n].used = used /\ node'[n].status = node[n].status
           /\ node'[n].kind # "absent" /\ (node'[n].kind = "whole" => node[n].kind = "whole")
<1> DEFINE r == [kind |-> IF node[n].kind = "absent" THEN "partial" ELSE node[n].kind,
                 status |-> node[n].status, used |-> used]
<1>1. node[n] \in Hash
  OBVIOUS
<1> DEFINE h == [node[n] EXCEPT !.used = used]
<1>2. h \in Hash /\ h.kind = node[n].kind /\ h.status = r.status /\ h.used = r.used
  BY <1>1 DEF Hash
<1>3. [h EXCEPT !.kind = IF @ = "absent" THEN "partial" ELSE @] = r
  <2> HIDE DEF h
  <2> QED BY <1>2 DEF Hash
<1>4. node' = [node EXCEPT ![n] = r]
  BY <1>3 DEF HSet
<1>5. r \in Hash
  BY <1>1 DEF Hash
<1> QED BY <1>1, <1>4, <1>5 DEF Hash

LEMMA BagDomains ==
    ASSUME NEW B, NEW x
    PROVE  /\ DOMAIN (B (+) One(x)) = DOMAIN B \cup {x}
           /\ DOMAIN (B (-) One(x)) \subseteq DOMAIN B
           /\ BagIn(x, B) => x \in DOMAIN B
  BY DEF One, SetToBag, BagIn, BagToSet, \oplus, \ominus

LEMMA ShapeInit == Init => Shape
  BY AbsentIsHash, IdleScalerShape
     DEF Init, Shape, ResourceShape, ExecutorShape, IdleScaler, EmptyBag, SetToBag

(***************************************************************************)
(* Steps of the resource-agent.                                            *)
(***************************************************************************)
LEMMA ResourceKeepsShape ==
    ASSUME Shape, Resource
    PROVE  Shape'
<1>1. CASE ResourceStarts
  <2>1. resource' = [resource EXCEPT !.at = "init", !.keys = Configured]
        /\ UNCHANGED <<node, executor, scaler, dispatches, unavailable, clock, sequence>>
    BY <1>1 DEF ResourceStarts, Others, messages, scaling
  <2>2. resource' \in ResourceShape
    BY <2>1 DEF Shape, ResourceShape
  <2> QED BY <2>1, <2>2 DEF Shape
<1>2. CASE InitWrites
  <2>1. /\ resource.node # NoNode
        /\ resource' = [resource EXCEPT !.at = IF resource.keys = {} THEN "serve" ELSE "init",
                                        !.node = NoNode, !.seen = Absent]
        /\ node' = [node EXCEPT ![resource.node] = [resource.seen EXCEPT !.kind = "whole"]]
        /\ UNCHANGED <<executor, scaler, dispatches, unavailable, clock, sequence>>
    BY <1>2 DEF InitWrites, InitWritten, Others, messages, scaling
  <2>2. resource' \in ResourceShape
    BY <2>1, AbsentIsHash DEF Shape, ResourceShape
  <2>3. resource.seen \in Hash
    BY DEF Shape, ResourceShape
  <2>4. [resource.seen EXCEPT !.kind = "whole"] \in Hash
    BY <2>3 DEF Hash
  <2>5. node' \in [Nodes -> Hash]
    BY <2>1, <2>4 DEF Shape
  <2> QED BY <2>1, <2>2, <2>5 DEF Shape
<1>3. CASE ScanStarts
  <2>1. resource' = [resource EXCEPT !.at = "scan", !.keys = {n \in Nodes : node[n].kind # "absent"}]
        /\ UNCHANGED <<node, executor, scaler, dispatches, unavailable, clock, sequence>>
    BY <1>3 DEF ScanStarts, Others, scaling
  <2>2. resource' \in ResourceShape
    BY <2>1 DEF Shape, ResourceShape
  <2> QED BY <2>1, <2>2 DEF Shape
<1>4. CASE ScanEnds
  <2>1. /\ resource' = [resource EXCEPT !.at = "serve", !.found = {}]
        /\ dispatches' = dispatches \/ \E n \in resource.found : dispatches' = dispatches (+) One(n)
        /\ UNCHANGED <<node, executor, scaler, unavailable, clock, sequence>>
    BY <1>4 DEF ScanEnds, Others, scaling
  <2>2. resource' \in ResourceShape /\ resource.found \subseteq Nodes
    BY <2>1 DEF Shape, ResourceShape
  <2>3. ASSUME NEW n \in resource.found, dispatches' = dispatches (+) One(n)
        PROVE  DOMAIN dispatches' \subseteq Nodes
    <3>1. DOMAIN dispatches' = DOMAIN dispatches \cup {n}
      BY <2>3, BagDomains
    <3> QED BY <2>2, <3>1 DEF Shape
  <2>4. DOMAIN dispatches' \subseteq Nodes
    BY <2>1, <2>3 DEF Shape
  <2> QED BY <2>1, <2>2, <2>4 DEF Shape
<1>5. ASSUME NEW n \in Nodes, InitReads(n)
      PROVE  Shape'
  <2>1. resource' = [resource EXCEPT !.node = n, !.seen = node[n], !.keys = @ \ {n}]
        /\ UNCHANGED <<node, executor, scaler, dispatches, unavailable, clock, sequence>>
    BY <1>5 DEF InitReads, Others, messages, scaling
  <2>2. node[n] \in Hash
    BY DEF Shape
  <2>3. resource' \in ResourceShape
    BY <2>1, <2>2 DEF Shape, ResourceShape
  <2> QED BY <2>1, <2>3 DEF Shape
<1>6. ASSUME NEW n \in Nodes, MarksUnavailable(n)
      PROVE  Shape'
  <2>1. /\ HSet(n, [node[n] EXCEPT !.status = "failed"])
        /\ unavailable' \subseteq unavailable
        /\ UNCHANGED <<resource, executor, scaler, dispatches, clock, sequence>>
    BY <1>6 DEF MarksUnavailable, Others, scaling
  <2>2. node' \in [Nodes -> Hash]
    BY <2>1, HSetStatus DEF Shape
  <2> QED BY <2>1, <2>2 DEF Shape
<1>7. ASSUME NEW n \in Nodes, ScanReads(n)
      PROVE  Shape'
  <2>1. PICK found \in {resource.found, resource.found \cup {n}} :
          resource' = [resource EXCEPT !.keys = @ \ {n}, !.found = found]
    BY <1>7 DEF ScanReads
  <2>2. UNCHANGED <<node, executor, scaler, dispatches, unavailable, clock, sequence>>
    BY <1>7 DEF ScanReads, Others, messages, scaling
  <2>3. resource.found \subseteq Nodes /\ resource.keys \subseteq Nodes
    BY DEF Shape, ResourceShape
  <2>4. found \in SUBSET Nodes /\ resource.keys \ {n} \in SUBSET Nodes
    BY <2>3
  <2>5. resource' \in ResourceShape
    BY <2>1, <2>4 DEF Shape, ResourceShape
  <2> QED BY <2>2, <2>5 DEF Shape
<1> QED BY <1>1, <1>2, <1>3, <1>4, <1>5, <1>6, <1>7 DEF Resource

LEMMA ExecutorKeepsShape ==
    ASSUME Shape, Executor
    PROVE  Shape'
<1>1. ASSUME NEW n \in Nodes, ReserveReads(n)
      PROVE  Shape'
  <2>1. /\ dispatches' = dispatches (-) One(n)
        /\ \/ executor' = executor
           \/ executor' = [at |-> "reserve", node |-> n, used |-> node[n].used]
        /\ UNCHANGED <<node, resource, scaler, unavailable, clock, sequence>>
    BY <1>1 DEF ReserveReads, scaling
  <2>2. node[n].used \in Nat
    BY DEF Shape, Hash
  <2>3. executor' \in ExecutorShape /\ (executor'.at # "idle" => executor'.node \in Nodes)
    BY <2>1, <2>2 DEF Shape, ExecutorShape
  <2>4. DOMAIN dispatches' \subseteq Nodes
    BY <2>1, BagDomains DEF Shape
  <2> QED BY <2>1, <2>3, <2>4 DEF Shape
<1>2. ASSUME NEW used \in Nat, NEW next \in {"mark", "unmark"}, executor.at # "idle",
             ExecutorWrites(used, next)
      PROVE  Shape'
  <2>1. /\ HSet(executor.node, [node[executor.node] EXCEPT !.used = used])
        /\ executor' = [executor EXCEPT !.at = next]
        /\ UNCHANGED <<resource, scaler, dispatches, unavailable, clock, sequence>>
    BY <1>2 DEF ExecutorWrites, messages, scaling
  <2>2. executor.node \in Nodes /\ node \in [Nodes -> Hash]
    BY <1>2 DEF Shape
  <2>3. node' \in [Nodes -> Hash]
    BY <2>1, <2>2, HSetUsed
  <2>4. executor' \in ExecutorShape /\ executor'.node \in Nodes
    BY <2>1, <2>2 DEF Shape, ExecutorShape
  <2> QED BY <2>1, <2>3, <2>4 DEF Shape
<1>3. executor.used \in Nat
  BY DEF Shape, ExecutorShape
<1>4. CASE ReserveWrites
  BY <1>2, <1>3, <1>4 DEF ReserveWrites
<1>5. CASE ReleaseWrites
  <2>1. (IF executor.used > 0 THEN executor.used - 1 ELSE 0) \in Nat
    BY <1>3
  <2> QED BY <1>2, <1>5, <2>1 DEF ReleaseWrites
<1>6. CASE MarksRunning
  <2>1. executor' = [executor EXCEPT !.at = "hold"] /\ executor.at = "mark"
        /\ UNCHANGED <<node, resource, scaler, dispatches, unavailable, clock, sequence>>
    BY <1>6 DEF MarksRunning, messages, scaling
  <2>2. executor' \in ExecutorShape /\ executor'.node \in Nodes
    BY <2>1 DEF Shape, ExecutorShape
  <2> QED BY <2>1, <2>2 DEF Shape
<1>7. CASE ReleaseReads
  <2>1. executor' = [executor EXCEPT !.at = "release", !.used = node[executor.node].used]
        /\ executor.at = "hold"
        /\ UNCHANGED <<node, resource, scaler, dispatches, unavailable, clock, sequence>>
    BY <1>7 DEF ReleaseReads, messages, scaling
  <2>2. executor.node \in Nodes
    BY <2>1 DEF Shape
  <2>3. node[executor.node].used \in Nat
    BY <2>2 DEF Shape, Hash
  <2>4. executor' \in ExecutorShape /\ executor'.node \in Nodes
    BY <2>1, <2>2, <2>3 DEF Shape, ExecutorShape
  <2> QED BY <2>1, <2>4 DEF Shape
<1>8. CASE UnmarksRunning
  <2>1. executor' = [at |-> "idle", node |-> NoNode, used |-> 0]
        /\ UNCHANGED <<node, resource, scaler, dispatches, unavailable, clock, sequence>>
    BY <1>8 DEF UnmarksRunning, messages, scaling
  <2>2. executor' \in ExecutorShape
    BY <2>1 DEF ExecutorShape
  <2> QED BY <2>1, <2>2 DEF Shape
<1> QED BY <1>1, <1>4, <1>5, <1>6, <1>7, <1>8 DEF Executor

LEMMA ScalerKeepsShape ==
    ASSUME Shape, Scaler
    PROVE  Shape'
<1>1. ASSUME NEW m \in Decisions, TakesScaleOut(m)
      PROVE  Shape'
  <2>1. /\ scaler' \in {scaler, [IdleScaler EXCEPT !.at = "add", !.m = m, !.now = clock]}
        /\ scaler.at = "idle"
        /\ UNCHANGED <<node, resource, executor, dispatches, unavailable, clock, sequence>>
    BY <1>1 DEF TakesScaleOut, Takes, Rest, scaling
  <2>2. clock \in Int
    BY DEF Shape
  <2>3. CASE scaler' = scaler
    BY <2>1, <2>3 DEF Shape
  <2>4. CASE scaler' = [IdleScaler EXCEPT !.at = "add", !.m = m, !.now = clock]
    <3>1. scaler' = [at |-> "add", m |-> m, keys |-> {}, node |-> NoNode, used |-> 0, now |-> clock]
      BY <2>4 DEF IdleScaler
    <3>2. scaler' \in ScalerShape /\ scaler'.at = "add"
      BY <2>2, <3>1 DEF ScalerShape
    <3> QED BY <2>1, <3>2 DEF Shape
  <2> QED BY <2>1, <2>3, <2>4
<1>2. ASSUME NEW m \in Decisions, TakesScaleIn(m)
      PROVE  Shape'
  <2> DEFINE keys == {n \in AutoNodes : node[n].kind # "absent"} \X {"hash"}
                    \cup (running \cap AutoNodes) \X {"set"}
  <2>1. /\ scaler' = [IdleScaler EXCEPT !.at = "scan", !.m = m, !.keys = keys]
        /\ UNCHANGED <<node, resource, executor, dispatches, unavailable, clock, sequence>>
    BY <1>2 DEF TakesScaleIn, Rest, scaling
  <2>2. keys \in SUBSET (AutoNodes \X {"hash", "set"})
    OBVIOUS
  <2> HIDE DEF keys
  <2>3. scaler' = [at |-> "scan", m |-> m, keys |-> keys, node |-> NoNode, used |-> 0, now |-> 0]
    BY <2>1 DEF IdleScaler
  <2>4. scaler' \in ScalerShape /\ scaler'.at = "scan"
    BY <2>2, <2>3 DEF ScalerShape
  <2> QED BY <2>1, <2>4 DEF Shape
<1>3. CASE AddsNode
  <2>1. /\ sequence' = sequence + 1 /\ sequence + 1 \in AutoNodes
        /\ node' = [node EXCEPT ![sequence + 1] = [Absent EXCEPT !.kind = "whole"]]
        /\ scaler' = [scaler EXCEPT !.at = "stamp"]
        /\ UNCHANGED <<resource, executor, dispatches, unavailable, clock>>
    BY <1>3 DEF AddsNode, Rest
  <2>2. [Absent EXCEPT !.kind = "whole"] \in Hash
    BY DEF Absent, Hash
  <2>3. node' \in [Nodes -> Hash]
    BY <2>1, <2>2 DEF Shape
  <2>4. scaler' \in ScalerShape /\ scaler'.at = "stamp"
    BY <2>1 DEF Shape, ScalerShape
  <2> QED BY <2>1, <2>3, <2>4 DEF Shape
<1>4. CASE Stamps
  <2>1. scaler' = [scaler EXCEPT !.at = "added"]
        /\ UNCHANGED <<node, resource, executor, dispatches, unavailable, clock, sequence>>
    BY <1>4 DEF Stamps, Rest
  <2>2. scaler' \in ScalerShape /\ scaler'.at = "added"
    BY <2>1 DEF Shape, ScalerShape
  <2> QED BY <2>1, <2>2 DEF Shape
<1>5. CASE ScaleOutDone \/ ScaleInEnds
  <2>1. scaler' = IdleScaler
        /\ UNCHANGED <<node, resource, executor, dispatches, unavailable, clock, sequence>>
    BY <1>5 DEF ScaleOutDone, ScaleInEnds, Rest, scaling
  <2>2. scaler'.at = "idle"
    BY <2>1 DEF IdleScaler
  <2> QED BY <2>1, <2>2, IdleScalerShape DEF Shape
<1>6. ASSUME NEW n \in Nodes, LooksAtNode(n)
      PROVE  Shape'
  <2>1. /\ <<n, "hash">> \in scaler.keys /\ scaler.at = "scan"
        /\ \/ scaler' = [scaler EXCEPT !.keys = @ \ {<<n, "hash">>}, !.at = "count",
                                       !.node = n, !.used = node[n].used]
           \/ scaler' = [scaler EXCEPT !.keys = @ \ {<<n, "hash">>}]
        /\ UNCHANGED <<node, resource, executor, dispatches, unavailable, clock, sequence>>
    BY <1>6 DEF LooksAtNode, LooksAt, Rest, scaling
  <2>2. scaler.keys \subseteq AutoNodes \X {"hash", "set"} /\ node[n].used \in Nat
    BY DEF Shape, ScalerShape, Hash
  <2>3. n \in AutoNodes /\ scaler.keys \ {<<n, "hash">>} \in SUBSET (AutoNodes \X {"hash", "set"})
    BY <2>1, <2>2
  <2>4. scaler' \in ScalerShape /\ (scaler'.at \in {"count", "delete"} => scaler'.node \in AutoNodes)
    BY <2>1, <2>2, <2>3 DEF Shape, ScalerShape
  <2> QED BY <2>1, <2>4 DEF Shape
<1>7. ASSUME NEW n \in Nodes, LooksAtSet(n)
      PROVE  Shape'
  <2>1. /\ <<n, "set">> \in scaler.keys /\ scaler.at = "scan"
        /\ \/ scaler' = IdleScaler
           \/ scaler' = [scaler EXCEPT !.keys = @ \ {<<n, "set">>}]
        /\ UNCHANGED <<node, resource, executor, dispatches, unavailable, clock, sequence>>
    BY <1>7 DEF LooksAtSet, LooksAt, Retried, Rest, scaling
  <2>2. scaler.keys \ {<<n, "set">>} \in SUBSET (AutoNodes \X {"hash", "set"})
    BY DEF Shape, ScalerShape
  <2>3. CASE scaler' = IdleScaler
    <3>1. scaler'.at = "idle"
      BY <2>3 DEF IdleScaler
    <3> QED BY <2>1, <2>3, <3>1, IdleScalerShape DEF Shape
  <2>4. CASE scaler' = [scaler EXCEPT !.keys = @ \ {<<n, "set">>}]
    <3>1. scaler' \in ScalerShape /\ scaler'.at = "scan"
      BY <2>1, <2>2, <2>4 DEF Shape, ScalerShape
    <3> QED BY <2>1, <3>1 DEF Shape
  <2> QED BY <2>1, <2>3, <2>4
<1>8. CASE Counts
  <2>1. /\ scaler.at = "count"
        /\ \/ scaler' = [scaler EXCEPT !.at = "delete"]
           \/ scaler' = [scaler EXCEPT !.at = "scan", !.node = NoNode, !.used = 0]
        /\ UNCHANGED <<node, resource, executor, dispatches, unavailable, clock, sequence>>
    BY <1>8 DEF Counts, Rest, scaling
  <2>2. scaler.node \in AutoNodes
    BY <2>1 DEF Shape
  <2>3. CASE scaler' = [scaler EXCEPT !.at = "delete"]
    <3>1. scaler' \in ScalerShape /\ scaler'.node \in AutoNodes
      BY <2>2, <2>3 DEF Shape, ScalerShape
    <3> QED BY <2>1, <3>1 DEF Shape
  <2>4. CASE scaler' = [scaler EXCEPT !.at = "scan", !.node = NoNode, !.used = 0]
    <3>1. scaler' \in ScalerShape /\ scaler'.at = "scan"
      BY <2>4 DEF Shape, ScalerShape
    <3> QED BY <2>1, <3>1 DEF Shape
  <2> QED BY <2>1, <2>3, <2>4
<1>9. CASE Deletes
  <2>1. /\ node' = [node EXCEPT ![scaler.node] = Absent]
        /\ scaler' = [scaler EXCEPT !.at = "deleted", !.node = NoNode]
        /\ UNCHANGED <<resource, executor, dispatches, unavailable, clock, sequence>>
    BY <1>9 DEF Deletes, Rest, scaling
  <2>2. node' \in [Nodes -> Hash]
    BY <2>1, AbsentIsHash DEF Shape
  <2>3. scaler' \in ScalerShape /\ scaler'.at = "deleted"
    BY <2>1 DEF Shape, ScalerShape
  <2> QED BY <2>1, <2>2, <2>3 DEF Shape
<1> QED BY <1>1, <1>2, <1>3, <1>4, <1>5, <1>6, <1>7, <1>8, <1>9 DEF Scaler

LEMMA SurroundingsKeepShape ==
    ASSUME Shape, Asked, Surroundings
    PROVE  Shape'
<1>1. CASE ResourceDies
  <2>1. resource' = [resource EXCEPT !.at = "down", !.keys = {}, !.node = NoNode,
                                     !.seen = Absent, !.found = {}]
        /\ UNCHANGED <<node, executor, scaler, dispatches, unavailable, clock, sequence>>
    BY <1>1 DEF ResourceDies, Others, scaling
  <2>2. resource' \in ResourceShape
    BY <2>1, AbsentIsHash DEF Shape, ResourceShape
  <2> QED BY <2>1, <2>2 DEF Shape
<1>2. CASE ScalerFails \/ ScalerDies
  <2>1. scaler' \in {IdleScaler, [IdleScaler EXCEPT !.at = "dead"]}
        /\ UNCHANGED <<node, resource, executor, dispatches, unavailable, clock, sequence>>
    BY <1>2 DEF ScalerFails, ScalerDies, Retried, scaling
  <2>2. scaler' \in ScalerShape /\ scaler'.at \in {"idle", "dead"}
    BY <2>1, IdleScalerShape DEF IdleScaler, ScalerShape
  <2> QED BY <2>1, <2>2 DEF Shape
<1>3. CASE Tick
  <2>1. clock' = clock + 1
        /\ UNCHANGED <<node, resource, executor, scaler, dispatches, unavailable, sequence>>
    BY <1>3 DEF Tick, agents, messages
  <2> QED BY <2>1 DEF Shape
<1>4. ASSUME NEW n \in Nodes, FailNode(n)
      PROVE  Shape'
  <2>1. UNCHANGED <<resource, executor, scaler, dispatches, unavailable, clock, sequence>>
    BY <1>4 DEF FailNode, agents, messages, scaling
  <2>2. node' \in [Nodes -> Hash]
    BY <1>4, ApiWrites DEF Shape
  <2> QED BY <2>1, <2>2 DEF Shape
<1>7. ASSUME NEW n \in Nodes, Announces(n)
      PROVE  Shape'
  <2>1. /\ unavailable' = unavailable \cup {n}
        /\ UNCHANGED <<node, resource, executor, scaler, dispatches, clock, sequence>>
    BY <1>7 DEF Announces, agents, scaling
  <2> QED BY <2>1 DEF Shape
<1>5. ASSUME NEW n \in Nodes, Expires(n)
      PROVE  Shape'
  <2>1. node' = [node EXCEPT ![n] = Absent]
        /\ UNCHANGED <<resource, executor, scaler, dispatches, unavailable, clock, sequence>>
    BY <1>5 DEF Expires, agents, messages, scaling
  <2>2. node' \in [Nodes -> Hash]
    BY <2>1, AbsentIsHash DEF Shape
  <2> QED BY <2>1, <2>2 DEF Shape
<1>6. CASE AsksPlacement \/ AsksScaleIn
  <2>1. UNCHANGED <<node, resource, executor, scaler, dispatches, unavailable, clock, sequence>>
    BY <1>6 DEF AsksPlacement, AsksScaleIn, agents, scaling
  <2> QED BY <2>1 DEF Shape
<1> QED BY <1>1, <1>2, <1>3, <1>4, <1>5, <1>6, <1>7 DEF Surroundings

LEMMA AskedStep ==
    ASSUME Shape, Asked, [Next]_vars
    PROVE  Asked'
<1>1. /\ requests.placements \in Nat /\ requests.scaleIns \in Nat /\ requests.failing \subseteq Old
      /\ DOMAIN requests = {"placements", "scaleIns", "failing"}
  BY DEF Asked
<1>2. sequence' = sequence \/ sequence' = sequence + 1
  <2>1. CASE Resource \/ Executor
    BY <2>1 DEF Resource, Executor, ResourceStarts, InitWrites, InitWritten, ScanStarts, ScanEnds,
       InitReads, MarksUnavailable, ScanReads, ReserveReads, ReserveWrites, ReleaseWrites,
       ExecutorWrites, MarksRunning, ReleaseReads, UnmarksRunning, Others, scaling
  <2>2. CASE Scaler
    BY <2>2 DEF Scaler, TakesScaleOut, TakesScaleIn, AddsNode, Stamps, ScaleOutDone, LooksAtNode,
       LooksAtSet, Counts, Deletes, ScaleInEnds, scaling
  <2>3. CASE Surroundings \/ UNCHANGED vars
    BY <2>3 DEF Surroundings, ResourceDies, ScalerFails, ScalerDies, Tick, FailNode, Announces, Expires,
       AsksPlacement, AsksScaleIn, Others, scaling, vars
  <2> QED BY <2>1, <2>2, <2>3 DEF Next
<1>3. Old \subseteq Old'
  <2>1. sequence \in Int /\ \A n \in AutoNodes : n \in Int
    BY NodesAssumption DEF Shape
  <2> QED BY <1>2, <2>1 DEF Old
<1>4. CASE Resource \/ Executor
  <2>1. requests' = requests
    BY <1>4 DEF Resource, Executor, ResourceStarts, InitWrites, InitWritten, ScanStarts, ScanEnds,
       InitReads, MarksUnavailable, ScanReads, ReserveReads, ReserveWrites, ReleaseWrites,
       ExecutorWrites, MarksRunning, ReleaseReads, UnmarksRunning, bounds
  <2> QED BY <1>3, <2>1 DEF Asked
<1>5. CASE Scaler
  <2>1. requests' = requests
    BY <1>5 DEF Scaler, TakesScaleOut, TakesScaleIn, AddsNode, Stamps, ScaleOutDone, LooksAtNode,
       LooksAtSet, Counts, Deletes, ScaleInEnds, Rest, bounds
  <2> QED BY <1>3, <2>1 DEF Asked
<1>6. CASE ResourceDies \/ ScalerFails \/ ScalerDies \/ Tick \/ UNCHANGED vars
  <2>1. requests' = requests
    BY <1>6 DEF ResourceDies, ScalerFails, ScalerDies, Tick, vars, bounds
  <2> QED BY <1>3, <2>1 DEF Asked
<1>7. ASSUME NEW n \in Nodes, FailNode(n) \/ Announces(n) \/ Expires(n)
      PROVE  Asked'
  <2>1. CASE FailNode(n)
    <3>1. n \in Old
      BY <2>1 DEF FailNode, Old, Shape
    <3>2. requests' = [requests EXCEPT !.failing = @ \cup {n}]
      BY <2>1 DEF FailNode
    <3> QED BY <1>1, <1>3, <3>1, <3>2 DEF Asked
  <2>2. CASE Announces(n)
    <3>1. requests' = [requests EXCEPT !.failing = @ \ {n}]
      BY <2>2 DEF Announces
    <3> QED BY <1>1, <1>3, <3>1 DEF Asked
  <2>3. CASE Expires(n)
    BY <1>3, <2>3 DEF Expires, Asked
  <2> QED BY <1>7, <2>1, <2>2, <2>3
<1>8. CASE AsksPlacement
  <2>1. requests' = [requests EXCEPT !.placements = @ + 1]
    BY <1>8 DEF AsksPlacement
  <2> QED BY <1>1, <1>3, <2>1 DEF Asked
<1>9. CASE AsksScaleIn
  <2>1. requests' = [requests EXCEPT !.scaleIns = @ + 1]
    BY <1>9 DEF AsksScaleIn
  <2> QED BY <1>1, <1>3, <2>1 DEF Asked
<1> QED BY <1>4, <1>5, <1>6, <1>7, <1>8, <1>9 DEF Next, Surroundings

LEMMA ShapeStep ==
    ASSUME Shape, Asked, [Next]_vars
    PROVE  Shape'
<1>1. CASE UNCHANGED vars
  BY <1>1 DEF vars, agents, messages, scaling, Shape
<1> QED BY <1>1, ResourceKeepsShape, ExecutorKeepsShape, ScalerKeepsShape, SurroundingsKeepShape
        DEF Next

(***************************************************************************)
(* The invariant.                                                          *)
(***************************************************************************)
Places ==
    /\ executor.at # "idle" => executor.node \in Old
    /\ DOMAIN dispatches \subseteq Old /\ resource.found \subseteq Old
    /\ unavailable \subseteq Old /\ reported \subseteq Old /\ expired \subseteq Old
    /\ overwritten \subseteq Configured
    /\ \A n \in Nodes : node[n].kind # "absent" => n \in Old
    /\ scaler.at \in {"count", "delete"} => scaler.node \in Old
    /\ resource.at = "init" => /\ resource.keys \subseteq Configured
                              /\ resource.node \in Configured \cup {NoNode}
    /\ resource.at # "init" => resource.node = NoNode

(* Whoever will write a load back has read the one the node still has.     *)
Accounted(n) == n \notin expired /\ n \notin overwritten

Books ==
    /\ \A n \in Nodes : Accounted(n) => node[n].used = IF Holds(n) THEN 1 ELSE 0
    /\ executor.at \in {"reserve", "release"} /\ Accounted(executor.node)
         => executor.used = node[executor.node].used
    /\ resource.at = "init" /\ resource.node # NoNode /\ Accounted(resource.node)
         => resource.seen.used = node[resource.node].used

(* What initialize_nodes read before a failure is put right by the event   *)
(* that comes after it: the worker serves none before it is through.       *)
Marked ==
    /\ \A n \in reported : n \in unavailable \/ n \in expired \/ node[n].status = "failed"
    /\ resource.at = "init" /\ resource.node \in reported
         => \/ resource.node \in unavailable \/ resource.node \in expired
            \/ resource.seen.status = "failed"

(* A load the scale-agent read as zero can only be outdated by a           *)
(* reservation that came after it.                                         *)
Looked ==
    /\ scaler.at \in {"count", "delete"} /\ Holds(scaler.node) /\ ~late
         => scaler.used > 0 \/ scaler.node \in expired
    /\ scaler.at = "delete" => scaler.used = 0

Inv == Shape /\ Asked /\ Places /\ Books /\ Marked /\ Looked

LEMMA InvInit == Init => Inv
<1> SUFFICES ASSUME Init PROVE Inv
  OBVIOUS
<1>1. Shape /\ Asked
  BY ShapeInit DEF Init, Asked
<1>2. Places
  BY DEF Init, Places, Absent, EmptyBag, SetToBag, IdleScaler
<1>3. Books
  BY DEF Init, Books, Absent, Holds
<1>4. Marked
  BY DEF Init, Marked
<1>5. Looked
  BY DEF Init, Looked, Absent, IdleScaler
<1> QED BY <1>1, <1>2, <1>3, <1>4, <1>5 DEF Inv

(* Steps that neither write a hash nor move the executor or the            *)
(* scale-agent.                                                            *)
LEMMA ResourceOnly ==
    ASSUME Inv, Shape', Asked',
           UNCHANGED <<node, executor, scaler, sequence, reported, expired, overwritten, late>>,
           DOMAIN dispatches' \subseteq Old, unavailable' = unavailable, resource'.found \subseteq Old,
           resource'.at = "init" => /\ resource'.keys \subseteq Configured
                                    /\ resource'.node \in Configured \cup {NoNode},
           resource'.at # "init" => resource'.node = NoNode,
           resource'.at = "init" /\ resource'.node # NoNode => resource'.seen = node[resource'.node]
    PROVE  Inv'
<1>1. Places'
  BY DEF Inv, Places, Old
<1>2. NoNode \notin reported
  BY NodesAssumption DEF Inv, Places, Old
<1>3. Books'
  BY DEF Inv, Books, Accounted, Holds
<1>4. Marked'
  BY <1>2 DEF Inv, Marked
<1>5. Looked'
  BY DEF Inv, Looked, Holds
<1> QED BY <1>1, <1>3, <1>4, <1>5 DEF Inv

LEMMA ResourceKeeps ==
    ASSUME Inv, Resource, Shape', Asked'
    PROVE  Inv'
<1> USE DEF Others, scaling, history
<1>0. /\ resource \in ResourceShape /\ resource' \in ResourceShape
      /\ resource.found \subseteq Old /\ DOMAIN dispatches \subseteq Old
      /\ resource.at # "init" => resource.node = NoNode
  BY DEF Inv, Shape, Places
<1>1. CASE ResourceStarts
  <2>1. /\ resource.at = "down" /\ resource' = [resource EXCEPT !.at = "init", !.keys = Configured]
        /\ UNCHANGED <<node, executor, scaler, sequence, reported, expired, overwritten, late>>
        /\ UNCHANGED <<dispatches, unavailable>>
    BY <1>1 DEF ResourceStarts, messages
  <2>2. resource'.keys = Configured /\ resource'.node = NoNode /\ resource'.found = resource.found
    BY <1>0, <2>1 DEF ResourceShape
  <2> QED BY <1>0, <2>1, <2>2, ResourceOnly
<1>2. CASE ScanStarts
  <2>1. /\ resource.at = "serve"
        /\ resource' = [resource EXCEPT !.at = "scan", !.keys = {n \in Nodes : node[n].kind # "absent"}]
        /\ UNCHANGED <<node, executor, scaler, sequence, reported, expired, overwritten, late>>
        /\ UNCHANGED <<dispatches, unavailable>>
    BY <1>2 DEF ScanStarts
  <2>2. resource'.at = "scan" /\ resource'.node = NoNode /\ resource'.found = resource.found
    BY <1>0, <2>1 DEF ResourceShape
  <2> QED BY <1>0, <2>1, <2>2, ResourceOnly
<1>3. CASE ScanEnds
  <2>1. /\ resource.at = "scan" /\ resource' = [resource EXCEPT !.at = "serve", !.found = {}]
        /\ dispatches' = dispatches \/ \E n \in resource.found : dispatches' = dispatches (+) One(n)
        /\ UNCHANGED <<node, executor, scaler, sequence, reported, expired, overwritten, late>>
        /\ UNCHANGED unavailable
    BY <1>3 DEF ScanEnds
  <2>2. ASSUME NEW n \in resource.found, dispatches' = dispatches (+) One(n)
        PROVE  DOMAIN dispatches' \subseteq Old
    <3>1. DOMAIN dispatches' = DOMAIN dispatches \cup {n}
      BY <2>2, BagDomains
    <3> QED BY <1>0, <3>1
  <2>3. DOMAIN dispatches' \subseteq Old
    BY <1>0, <2>1, <2>2
  <2>4. resource'.at = "serve" /\ resource'.node = NoNode /\ resource'.found = {}
    BY <1>0, <2>1 DEF ResourceShape
  <2> QED BY <2>1, <2>3, <2>4, ResourceOnly
<1>4. ASSUME NEW n \in Nodes, InitReads(n)
      PROVE  Inv'
  <2>1. /\ resource.at = "init" /\ n \in resource.keys
        /\ resource' = [resource EXCEPT !.node = n, !.seen = node[n], !.keys = @ \ {n}]
        /\ UNCHANGED <<node, executor, scaler, sequence, reported, expired, overwritten, late>>
        /\ UNCHANGED <<dispatches, unavailable>>
    BY <1>4 DEF InitReads, messages
  <2>2. /\ resource'.at = "init" /\ resource'.keys = resource.keys \ {n}
        /\ resource'.node = n /\ resource'.seen = node[n] /\ resource'.found = resource.found
    BY <1>0, <2>1 DEF ResourceShape
  <2>3. resource.keys \subseteq Configured
    BY <2>1 DEF Inv, Places
  <2>4. resource'.keys \subseteq Configured /\ resource'.node \in Configured \cup {NoNode}
    BY <2>1, <2>2, <2>3
  <2> QED BY <1>0, <2>1, <2>2, <2>4, ResourceOnly
<1>5. ASSUME NEW n \in Nodes, ScanReads(n)
      PROVE  Inv'
  <2>1. PICK found \in SUBSET Old :
          resource' = [resource EXCEPT !.keys = @ \ {n}, !.found = found]
    <3>1. n \in Old \/ resource' = [resource EXCEPT !.keys = @ \ {n}, !.found = resource.found]
      BY <1>5 DEF ScanReads, Inv, Places
    <3>2. resource' = [resource EXCEPT !.keys = @ \ {n}, !.found = resource.found]
          \/ resource' = [resource EXCEPT !.keys = @ \ {n}, !.found = resource.found \cup {n}]
      BY <1>5 DEF ScanReads
    <3> QED BY <1>0, <3>1, <3>2
  <2>2. /\ resource.at = "scan"
        /\ UNCHANGED <<node, executor, scaler, sequence, reported, expired, overwritten, late>>
        /\ UNCHANGED <<dispatches, unavailable>>
    BY <1>5 DEF ScanReads, messages
  <2>3. resource'.at = "scan" /\ resource'.node = NoNode /\ resource'.found = found
    BY <1>0, <2>1, <2>2 DEF ResourceShape
  <2> QED BY <1>0, <2>2, <2>3, ResourceOnly
<1>6. CASE InitWrites
  <2>1. /\ resource.at = "init" /\ resource.node # NoNode
        /\ resource' = [resource EXCEPT !.at = IF resource.keys = {} THEN "serve" ELSE "init",
                                        !.node = NoNode, !.seen = Absent]
        /\ node' = [node EXCEPT ![resource.node] = [resource.seen EXCEPT !.kind = "whole"]]
        /\ UNCHANGED <<executor, scaler, sequence, reported, expired, overwritten, late>>
        /\ UNCHANGED <<dispatches, unavailable>>
    BY <1>6 DEF InitWrites, InitWritten, messages
  <2>2. /\ resource'.node = NoNode /\ resource'.found = resource.found
        /\ resource'.at \in {"serve", "init"} /\ resource'.keys = resource.keys
    BY <1>0, <2>1 DEF ResourceShape
  <2>3. resource.node \in Configured /\ resource.keys \subseteq Configured
    BY <2>1 DEF Inv, Places
  <2>4. resource.seen \in Hash /\ node \in [Nodes -> Hash]
    BY <1>0 DEF Inv, Shape, ResourceShape
  <2>5. /\ \A k \in Nodes : k # resource.node => node'[k] = node[k]
        /\ node'[resource.node].used = resource.seen.used
        /\ node'[resource.node].status = resource.seen.status
    BY <2>1, <2>3, <2>4 DEF Hash
  <2>6. Places'
    BY <2>1, <2>2, <2>3, <2>5 DEF Inv, Places, Old
  <2>7. Books'
    <3>1. Accounted(resource.node) => node'[resource.node].used = node[resource.node].used
      BY <2>1, <2>5 DEF Inv, Books
    <3>2. \A k \in Nodes : Accounted(k) => node'[k].used = node[k].used
      BY <2>5, <3>1
    <3>3. \A k \in Nodes : Holds(k)' <=> Holds(k)
      BY <2>1 DEF Holds
    <3>4. executor.at # "idle" => executor.node \in Nodes
      BY DEF Inv, Shape
    <3> QED BY <2>1, <2>2, <3>2, <3>3, <3>4 DEF Inv, Books, Accounted
  <2>8. Marked'
    BY <2>1, <2>2, <2>5, NodesAssumption DEF Inv, Marked, Places, Old
  <2>9. Looked'
    <3>1. \A k \in AutoNodes : node'[k] = node[k]
      BY <2>3, <2>5, NodesAssumption
    <3> QED BY <2>1, <3>1 DEF Inv, Looked, Holds
  <2> QED BY <2>6, <2>7, <2>8, <2>9 DEF Inv
<1>7. ASSUME NEW n \in Nodes, MarksUnavailable(n)
      PROVE  Inv'
  <2>1. /\ resource.at = "serve" /\ n \in unavailable
        /\ HSet(n, [node[n] EXCEPT !.status = "failed"])
        /\ unavailable' = unavailable \ {n}
        /\ UNCHANGED <<resource, executor, scaler, sequence, reported, expired, overwritten, late>>
        /\ UNCHANGED dispatches
    BY <1>7 DEF MarksUnavailable
  <2>2. /\ \A k \in Nodes : k # n => node'[k] = node[k]
        /\ node'[n].status = "failed" /\ node'[n].used = node[n].used
        /\ node'[n].kind = "whole" => node[n].kind = "whole"
    BY <2>1, HSetStatus DEF Inv, Shape
  <2>3. Places'
    BY <2>1, <2>2 DEF Inv, Places, Old
  <2>4. Books'
    <3>1. \A k \in Nodes : node'[k].used = node[k].used
      BY <2>2
    <3>2. executor.at # "idle" => executor.node \in Nodes
      BY DEF Inv, Shape
    <3> QED BY <2>1, <3>1, <3>2 DEF Inv, Books, Accounted, Holds
  <2>5. Marked'
    BY <2>1, <2>2 DEF Inv, Marked, Places, Old
  <2>6. Looked'
    BY <2>1, <2>2 DEF Inv, Looked, Holds
  <2> QED BY <2>3, <2>4, <2>5, <2>6 DEF Inv
<1> QED BY <1>1, <1>2, <1>3, <1>4, <1>5, <1>6, <1>7 DEF Resource

LEMMA ExecutorKeeps ==
    ASSUME Inv, Executor, Shape', Asked'
    PROVE  Inv'
<1> USE DEF scaling, history
<1>0. /\ executor \in ExecutorShape /\ executor' \in ExecutorShape /\ node \in [Nodes -> Hash]
      /\ executor.at # "idle" => executor.node \in Nodes
      /\ \A n \in Nodes : node[n].used \in Nat
  BY DEF Inv, Shape, Hash
<1>1. ASSUME NEW n \in Nodes, ReserveReads(n)
      PROVE  Inv'
  <2>1. /\ executor.at = "idle" /\ BagIn(n, dispatches)
        /\ dispatches' = dispatches (-) One(n)
        /\ \/ executor' = executor
           \/ executor' = [at |-> "reserve", node |-> n, used |-> node[n].used]
        /\ UNCHANGED <<node, resource, scaler, unavailable, sequence, reported, expired, overwritten, late>>
    BY <1>1 DEF ReserveReads
  <2>2. n \in DOMAIN dispatches /\ DOMAIN dispatches' \subseteq DOMAIN dispatches
    BY <2>1, BagDomains
  <2>3. Places'
    BY <2>1, <2>2 DEF Inv, Places, Old
  <2>4. \A k \in Nodes : ~Holds(k) /\ ~Holds(k)'
    BY <2>1 DEF Holds
  <2>5. Books'
    BY <2>1, <2>4 DEF Inv, Books, Accounted
  <2>6. Marked'
    BY <2>1 DEF Inv, Marked
  <2>7. Looked'
    BY <2>1, <2>4 DEF Inv, Shape, Looked
  <2> QED BY <2>3, <2>5, <2>6, <2>7 DEF Inv
<1>2. ASSUME NEW used \in Nat, NEW next \in {"mark", "unmark"},
             executor.at \in {"reserve", "release"}, ExecutorWrites(used, next)
      PROVE  /\ executor.node \in Nodes
             /\ \A k \in Nodes : k # executor.node => node'[k] = node[k]
             /\ node'[executor.node].used = used
             /\ executor'.at = next /\ executor'.node = executor.node
             /\ Places' /\ Marked'
             /\ \A k \in Nodes : node'[k].kind = "whole" => node[k].kind = "whole"
             /\ resource.at = "init" /\ resource.node = executor.node => executor.node \in overwritten'
             /\ overwritten \subseteq overwritten' /\ UNCHANGED <<resource, scaler, expired>>
  <2>1. /\ HSet(executor.node, [node[executor.node] EXCEPT !.used = used])
        /\ executor' = [executor EXCEPT !.at = next]
        /\ overwritten' = IF resource.at = "init" /\ resource.node = executor.node
                          THEN overwritten \cup {executor.node} ELSE overwritten
        /\ UNCHANGED <<resource, scaler, dispatches, unavailable, sequence, reported, expired>>
    BY <1>2 DEF ExecutorWrites, messages
  <2>2. executor.node \in Nodes
    BY <1>0, <1>2
  <2>3. /\ \A k \in Nodes : k # executor.node => node'[k] = node[k]
        /\ node'[executor.node].used = used
        /\ node'[executor.node].status = node[executor.node].status
        /\ node'[executor.node].kind = "whole" => node[executor.node].kind = "whole"
    BY <1>0, <2>1, <2>2, HSetUsed
  <2>4. executor'.at = next /\ executor'.node = executor.node
    BY <1>0, <2>1 DEF ExecutorShape
  <2>5. overwritten' \subseteq Configured
    BY <2>1, <2>2, NodesAssumption DEF Inv, Places
  <2>6. Places'
    BY <1>2, <2>1, <2>3, <2>4, <2>5 DEF Inv, Places, Old
  <2>7. Marked'
    <3>1. \A k \in Nodes : node'[k].status = node[k].status
      BY <2>3
    <3> QED BY <2>1, <3>1 DEF Inv, Marked, Places, Old
  <2> QED BY <2>1, <2>2, <2>3, <2>4, <2>6, <2>7
<1>3. CASE ReserveWrites
  <2>1. /\ executor.at = "reserve" /\ ExecutorWrites(executor.used + 1, "mark")
        /\ late' = (late \/ scaler.node = executor.node)
        /\ executor.used \in Nat /\ executor.used + 1 \in Nat
    BY <1>0, <1>3 DEF ReserveWrites, ExecutorShape
  <2>2. /\ executor.node \in Nodes
        /\ \A k \in Nodes : k # executor.node => node'[k] = node[k]
        /\ node'[executor.node].used = executor.used + 1
        /\ executor'.at = "mark" /\ executor'.node = executor.node
        /\ Places' /\ Marked'
        /\ \A k \in Nodes : node'[k].kind = "whole" => node[k].kind = "whole"
        /\ resource.at = "init" /\ resource.node = executor.node => executor.node \in overwritten'
        /\ overwritten \subseteq overwritten' /\ UNCHANGED <<resource, scaler, expired>>
    BY <1>2, <2>1
  <2>3. \A k \in Nodes : ~Holds(k) /\ (Holds(k)' <=> k = executor.node)
    BY <2>1, <2>2 DEF Holds
  <2>4. Accounted(executor.node) => executor.used = 0
    BY <2>1, <2>2, <2>3 DEF Inv, Books
  <2>5. Books'
    <3>1. \A k \in Nodes : Accounted(k)' => Accounted(k)
      BY <2>2 DEF Accounted
    <3>2. \A k \in Nodes : Accounted(k)' => node'[k].used = IF Holds(k)' THEN 1 ELSE 0
      BY <2>2, <2>3, <2>4, <3>1 DEF Inv, Books
    <3>3. resource.at = "init" /\ resource.node # NoNode => resource.node \in Nodes
      BY DEF Inv, Places
    <3>4. ASSUME resource.at = "init", resource.node # NoNode,
                 resource.node \notin expired', resource.node \notin overwritten'
          PROVE  resource.seen.used = node'[resource.node].used
      <4>1. resource.node \in Nodes /\ resource.node # executor.node
        BY <2>2, <3>3, <3>4
      <4>2. Accounted(resource.node)
        BY <2>2, <3>4 DEF Accounted
      <4>3. resource.seen.used = node[resource.node].used
        BY <3>4, <4>2 DEF Inv, Books
      <4> QED BY <2>2, <4>1, <4>3
    <3>5. resource' = resource /\ executor'.at \notin {"reserve", "release"}
      BY <2>2
    <3> QED BY <3>2, <3>4, <3>5 DEF Books, Accounted
  <2>6. Looked'
    BY <2>1, <2>2, <2>3 DEF Inv, Looked, Shape
  <2> QED BY <2>2, <2>5, <2>6 DEF Inv
<1>4. CASE ReleaseWrites
  <2> DEFINE used == IF executor.used > 0 THEN executor.used - 1 ELSE 0
  <2>1. /\ executor.at = "release" /\ ExecutorWrites(used, "unmark") /\ late' = late
        /\ executor.used \in Nat /\ used \in Nat
    BY <1>0, <1>4 DEF ReleaseWrites, ExecutorShape
  <2>2. /\ executor.node \in Nodes
        /\ \A k \in Nodes : k # executor.node => node'[k] = node[k]
        /\ node'[executor.node].used = used
        /\ executor'.at = "unmark" /\ executor'.node = executor.node
        /\ Places' /\ Marked'
        /\ \A k \in Nodes : node'[k].kind = "whole" => node[k].kind = "whole"
        /\ resource.at = "init" /\ resource.node = executor.node => executor.node \in overwritten'
        /\ overwritten \subseteq overwritten' /\ UNCHANGED <<resource, scaler, expired>>
    BY <1>2, <2>1
  <2>3. \A k \in Nodes : (Holds(k) <=> k = executor.node) /\ ~Holds(k)'
    BY <2>1, <2>2 DEF Holds
  <2>4. Accounted(executor.node) => executor.used = 1
    BY <2>1, <2>2, <2>3 DEF Inv, Books
  <2>5. Books'
    <3>1. \A k \in Nodes : Accounted(k)' => Accounted(k)
      BY <2>2 DEF Accounted
    <3>2. \A k \in Nodes : Accounted(k)' => node'[k].used = IF Holds(k)' THEN 1 ELSE 0
      BY <2>2, <2>3, <2>4, <3>1 DEF Inv, Books
    <3>3. resource.at = "init" /\ resource.node # NoNode => resource.node \in Nodes
      BY DEF Inv, Places
    <3>4. ASSUME resource.at = "init", resource.node # NoNode,
                 resource.node \notin expired', resource.node \notin overwritten'
          PROVE  resource.seen.used = node'[resource.node].used
      <4>1. resource.node \in Nodes /\ resource.node # executor.node
        BY <2>2, <3>3, <3>4
      <4>2. Accounted(resource.node)
        BY <2>2, <3>4 DEF Accounted
      <4>3. resource.seen.used = node[resource.node].used
        BY <3>4, <4>2 DEF Inv, Books
      <4> QED BY <2>2, <4>1, <4>3
    <3>5. resource' = resource /\ executor'.at \notin {"reserve", "release"}
      BY <2>2
    <3> QED BY <3>2, <3>4, <3>5 DEF Books, Accounted
  <2>6. Looked'
    BY <2>1, <2>2, <2>3 DEF Inv, Looked, Shape
  <2> QED BY <2>2, <2>5, <2>6 DEF Inv
<1>5. ASSUME executor.at # "idle" => executor'.node = executor.node,
             \A k \in Nodes : Holds(k)' <=> Holds(k),
             executor'.at # "idle" => executor.at # "idle",
             executor'.at = "release" => executor'.used = node[executor'.node].used,
             executor'.at # "reserve",
             UNCHANGED <<node, resource, scaler, dispatches, unavailable, sequence, reported, expired,
                         overwritten, late>>
      PROVE  Inv'
  <2>1. Places'
    BY <1>5 DEF Inv, Places, Old
  <2>2. Books'
    BY <1>5 DEF Inv, Books, Accounted
  <2>3. Marked'
    BY <1>5 DEF Inv, Marked
  <2>4. Looked'
    BY <1>5 DEF Inv, Shape, Looked
  <2> QED BY <2>1, <2>2, <2>3, <2>4 DEF Inv
<1>6. CASE MarksRunning
  <2>1. /\ executor.at = "mark" /\ executor' = [executor EXCEPT !.at = "hold"]
        /\ UNCHANGED <<node, resource, scaler, dispatches, unavailable, sequence, reported, expired,
                       overwritten, late>>
    BY <1>6 DEF MarksRunning, messages
  <2>2. executor'.at = "hold" /\ executor'.node = executor.node
    BY <1>0, <2>1 DEF ExecutorShape
  <2>3. \A k \in Nodes : Holds(k)' <=> Holds(k)
    BY <2>1, <2>2 DEF Holds
  <2> QED BY <1>5, <2>1, <2>2, <2>3
<1>7. CASE ReleaseReads
  <2>1. /\ executor.at = "hold"
        /\ executor' = [executor EXCEPT !.at = "release", !.used = node[executor.node].used]
        /\ UNCHANGED <<node, resource, scaler, dispatches, unavailable, sequence, reported, expired,
                       overwritten, late>>
    BY <1>7 DEF ReleaseReads, messages
  <2>2. /\ executor'.at = "release" /\ executor'.node = executor.node
        /\ executor'.used = node[executor.node].used
    BY <1>0, <2>1 DEF ExecutorShape
  <2>3. \A k \in Nodes : Holds(k)' <=> Holds(k)
    BY <2>1, <2>2 DEF Holds
  <2> QED BY <1>5, <2>1, <2>2, <2>3
<1>8. CASE UnmarksRunning
  <2>1. /\ executor.at = "unmark" /\ executor' = [at |-> "idle", node |-> NoNode, used |-> 0]
        /\ UNCHANGED <<node, resource, scaler, dispatches, unavailable, sequence, reported, expired,
                       overwritten, late>>
    BY <1>8 DEF UnmarksRunning, messages
  <2>2. \A k \in Nodes : ~Holds(k) /\ ~Holds(k)'
    BY <2>1 DEF Holds
  <2>3. Places'
    BY <2>1 DEF Inv, Places, Old
  <2>4. Books'
    BY <2>1, <2>2 DEF Inv, Books, Accounted
  <2>5. Marked'
    BY <2>1 DEF Inv, Marked
  <2>6. Looked'
    BY <2>1, <2>2 DEF Inv, Shape, Looked
  <2> QED BY <2>3, <2>4, <2>5, <2>6 DEF Inv
<1> QED BY <1>1, <1>3, <1>4, <1>6, <1>7, <1>8 DEF Executor

(* Steps of the scale-agent that write no hash and leave it looking at     *)
(* none.                                                                   *)
LEMMA ScalerOnly ==
    ASSUME Inv, Shape', Asked', scaler'.at \notin {"count", "delete"},
           UNCHANGED <<node, executor, resource, dispatches, unavailable, sequence, reported, expired,
                       overwritten>>
    PROVE  Inv'
<1>1. Places'
  BY DEF Inv, Places, Old
<1>2. Books'
  BY DEF Inv, Books, Accounted, Holds
<1>3. Marked'
  BY DEF Inv, Marked
<1>4. Looked'
  BY DEF Inv, Looked
<1> QED BY <1>1, <1>2, <1>3, <1>4 DEF Inv

LEMMA ScalerKeeps ==
    ASSUME Inv, Scaler, Shape', Asked'
    PROVE  Inv'
<1> USE DEF Rest, scaling, history
<1>0. /\ scaler \in ScalerShape /\ scaler' \in ScalerShape /\ node \in [Nodes -> Hash]
      /\ scaler.at \in {"count", "delete"} => scaler.node \in AutoNodes
  BY DEF Inv, Shape
<1>1. ASSUME NEW m \in Decisions, TakesScaleOut(m)
      PROVE  Inv'
  <2>1. /\ scaler.at = "idle"
        /\ \/ scaler' = scaler
           \/ scaler' = [IdleScaler EXCEPT !.at = "add", !.m = m, !.now = clock]
        /\ UNCHANGED <<node, executor, resource, dispatches, unavailable, sequence, reported, expired,
                       overwritten>>
    BY <1>1 DEF TakesScaleOut, Takes
  <2>2. scaler'.at \in {"idle", "add"}
    BY <2>1 DEF IdleScaler
  <2> QED BY <2>1, <2>2, ScalerOnly
<1>2. ASSUME NEW m \in Decisions, TakesScaleIn(m)
      PROVE  Inv'
  <2>1. /\ scaler'.at = "scan"
        /\ UNCHANGED <<node, executor, resource, dispatches, unavailable, sequence, reported, expired,
                       overwritten>>
    BY <1>2 DEF TakesScaleIn, IdleScaler
  <2> QED BY <2>1, ScalerOnly
<1>3. CASE Stamps \/ ScaleOutDone \/ ScaleInEnds
  <2>1. /\ scaler' = IdleScaler \/ scaler' = [scaler EXCEPT !.at = "added"]
        /\ UNCHANGED <<node, executor, resource, dispatches, unavailable, sequence, reported, expired,
                       overwritten>>
    BY <1>3 DEF Stamps, ScaleOutDone, ScaleInEnds
  <2>2. scaler'.at \in {"idle", "added"}
    BY <1>0, <2>1 DEF IdleScaler, ScalerShape
  <2> QED BY <2>1, <2>2, ScalerOnly
<1>4. ASSUME NEW n \in Nodes, LooksAtSet(n)
      PROVE  Inv'
  <2>1. /\ scaler.at = "scan"
        /\ scaler' = IdleScaler \/ scaler' = [scaler EXCEPT !.keys = @ \ {<<n, "set">>}]
        /\ UNCHANGED <<node, executor, resource, dispatches, unavailable, sequence, reported, expired,
                       overwritten>>
    BY <1>4 DEF LooksAtSet, LooksAt, Retried
  <2>2. scaler'.at \in {"idle", "scan"}
    BY <1>0, <2>1 DEF IdleScaler, ScalerShape
  <2> QED BY <2>1, <2>2, ScalerOnly
<1>5. CASE AddsNode
  <2> DEFINE n == sequence + 1
  <2>1. /\ sequence' = n /\ n \in AutoNodes /\ scaler' = [scaler EXCEPT !.at = "stamp"]
        /\ node' = [node EXCEPT ![n] = [Absent EXCEPT !.kind = "whole"]]
        /\ UNCHANGED <<executor, resource, dispatches, unavailable, reported, expired, overwritten, late>>
    BY <1>5 DEF AddsNode
  <2>2. /\ node'[n].used = 0
        /\ \A k \in Nodes : k # n => node'[k] = node[k]
    BY <1>0, <2>1 DEF Absent
  <2>3. /\ sequence \in Nat /\ AutoNodes \subseteq Nat
        /\ Old \subseteq Old' /\ n \in Old' /\ n \notin Old /\ n \notin Configured
    BY <2>1, NodesAssumption DEF Inv, Shape, Old
  <2>4. scaler'.at = "stamp"
    BY <1>0, <2>1 DEF ScalerShape
  <2> HIDE DEF n
  <2>5. Places'
    <3>1. \A k \in Nodes : node'[k].kind # "absent" => k \in Old'
      BY <2>2, <2>3 DEF Inv, Places
    <3> QED BY <2>1, <2>3, <2>4, <3>1 DEF Inv, Places
  <2>6. Books'
    <3>1. executor.at # "idle" => executor.node # n /\ executor.node \in Nodes
      BY <2>3 DEF Inv, Places, Shape
    <3>2. resource.at = "init" /\ resource.node # NoNode => resource.node # n /\ resource.node \in Nodes
      BY <2>3 DEF Inv, Places
    <3>3. \A k \in Nodes : Holds(k)' <=> Holds(k)
      BY <2>1 DEF Holds
    <3>4. ~Holds(n)
      BY <3>1 DEF Holds
    <3> QED BY <2>1, <2>2, <3>1, <3>2, <3>3, <3>4 DEF Inv, Books, Accounted
  <2>7. Marked'
    BY <2>1, <2>2, <2>3 DEF Inv, Marked, Places, Old
  <2>8. Looked'
    BY <2>1, <2>2, <2>3, <2>4 DEF Inv, Looked, Places
  <2> QED BY <2>5, <2>6, <2>7, <2>8 DEF Inv
<1>6. ASSUME NEW n \in Nodes, LooksAtNode(n)
      PROVE  Inv'
  <2>1. /\ scaler.at = "scan" /\ <<n, "hash">> \in scaler.keys
        /\ \/ /\ node[n].kind \in {"named", "whole"}
              /\ scaler' = [scaler EXCEPT !.keys = @ \ {<<n, "hash">>}, !.at = "count",
                                          !.node = n, !.used = node[n].used]
           \/ scaler' = [scaler EXCEPT !.keys = @ \ {<<n, "hash">>}]
        /\ UNCHANGED <<node, executor, resource, dispatches, unavailable, sequence, reported, expired,
                       overwritten>>
    BY <1>6 DEF LooksAtNode, LooksAt
  <2>2. CASE scaler' = [scaler EXCEPT !.keys = @ \ {<<n, "hash">>}]
    <3>1. scaler'.at = "scan"
      BY <1>0, <2>1, <2>2 DEF ScalerShape
    <3> QED BY <2>1, <3>1, ScalerOnly
  <2>3. CASE /\ node[n].kind \in {"named", "whole"}
             /\ scaler' = [scaler EXCEPT !.keys = @ \ {<<n, "hash">>}, !.at = "count",
                                         !.node = n, !.used = node[n].used]
    <3>1. scaler'.at = "count" /\ scaler'.node = n /\ scaler'.used = node[n].used
      BY <1>0, <2>3 DEF ScalerShape
    <3>2. n \in AutoNodes
      BY <1>0, <2>1 DEF ScalerShape
    <3>3. Holds(n) => node[n].used > 0 \/ n \in expired
      <4>1. n \notin overwritten
        BY <2>3, <3>2, NodesAssumption DEF Inv, Places
      <4>2. Accounted(n) \/ n \in expired
        BY <4>1 DEF Accounted
      <4> QED BY <4>2 DEF Inv, Books
    <3>4. Places'
      BY <2>1, <2>3, <3>1 DEF Inv, Places, Old
    <3>5. Books'
      BY <2>1 DEF Inv, Books, Accounted, Holds
    <3>6. Marked'
      BY <2>1 DEF Inv, Marked
    <3>7. Looked'
      BY <2>1, <3>1, <3>3 DEF Inv, Looked, Holds
    <3> QED BY <3>4, <3>5, <3>6, <3>7 DEF Inv
  <2> QED BY <2>1, <2>2, <2>3
<1>7. CASE Counts
  <2>1. /\ scaler.at = "count"
        /\ \/ scaler.used = 0 /\ scaler' = [scaler EXCEPT !.at = "delete"]
           \/ scaler' = [scaler EXCEPT !.at = "scan", !.node = NoNode, !.used = 0]
        /\ UNCHANGED <<node, executor, resource, dispatches, unavailable, sequence, reported, expired,
                       overwritten, late>>
    BY <1>7 DEF Counts
  <2>2. CASE scaler' = [scaler EXCEPT !.at = "scan", !.node = NoNode, !.used = 0]
    <3>1. scaler'.at = "scan"
      BY <1>0, <2>2 DEF ScalerShape
    <3> QED BY <2>1, <3>1, ScalerOnly
  <2>3. CASE scaler.used = 0 /\ scaler' = [scaler EXCEPT !.at = "delete"]
    <3>1. scaler'.at = "delete" /\ scaler'.node = scaler.node /\ scaler'.used = scaler.used
      BY <1>0, <2>3 DEF ScalerShape
    <3>2. Places'
      BY <2>1, <3>1 DEF Inv, Places, Old
    <3>3. Books'
      BY <2>1 DEF Inv, Books, Accounted, Holds
    <3>4. Marked'
      BY <2>1 DEF Inv, Marked
    <3>5. Looked'
      BY <2>1, <2>3, <3>1 DEF Inv, Looked, Holds
    <3> QED BY <3>2, <3>3, <3>4, <3>5 DEF Inv
  <2> QED BY <2>1, <2>2, <2>3
<1>8. CASE Deletes
  <2> DEFINE n == scaler.node
  <2>1. /\ scaler.at = "delete" /\ node' = [node EXCEPT ![n] = Absent]
        /\ expired' = expired \cup {n} /\ scaler' = [scaler EXCEPT !.at = "deleted", !.node = NoNode]
        /\ UNCHANGED <<executor, resource, dispatches, unavailable, sequence, reported, overwritten, late>>
    BY <1>8 DEF Deletes
  <2>2. n \in AutoNodes /\ n \in Old
    BY <1>0, <2>1 DEF Inv, Places
  <2>3. /\ node'[n] = Absent
        /\ \A k \in Nodes : k # n => node'[k] = node[k]
    BY <1>0, <2>1, <2>2
  <2>4. scaler'.at = "deleted"
    BY <1>0, <2>1 DEF ScalerShape
  <2> HIDE DEF n
  <2>5. Places'
    BY <2>1, <2>2, <2>3, <2>4 DEF Inv, Places, Old
  <2>6. Books'
    <3>1. executor.at # "idle" => executor.node \in Nodes
      BY DEF Inv, Shape
    <3>2. resource.at = "init" /\ resource.node # NoNode => resource.node \in Nodes
      BY DEF Inv, Places
    <3>3. \A k \in Nodes : Holds(k)' <=> Holds(k)
      BY <2>1 DEF Holds
    <3> QED BY <2>1, <2>3, <3>1, <3>2, <3>3 DEF Inv, Books, Accounted
  <2>7. Marked'
    BY <2>1, <2>2, <2>3 DEF Inv, Marked, Places, Old
  <2>8. Looked'
    BY <2>1, <2>3, <2>4 DEF Inv, Looked, Absent
  <2> QED BY <2>5, <2>6, <2>7, <2>8 DEF Inv
<1> QED BY <1>1, <1>2, <1>3, <1>4, <1>5, <1>6, <1>7, <1>8 DEF Scaler

LEMMA SurroundingsKeep ==
    ASSUME Inv, Surroundings, Shape', Asked'
    PROVE  Inv'
<1> USE DEF scaling, history, agents
<1>0. /\ resource \in ResourceShape /\ node \in [Nodes -> Hash]
      /\ resource.at # "init" => resource.node = NoNode
      /\ executor.at # "idle" => executor.node \in Nodes
      /\ resource.at = "init" /\ resource.node # NoNode => resource.node \in Nodes
  BY DEF Inv, Shape, Places
<1>1. CASE ResourceDies
  <2>1. /\ resource' = [resource EXCEPT !.at = "down", !.keys = {}, !.node = NoNode,
                                        !.seen = Absent, !.found = {}]
        /\ UNCHANGED <<node, executor, scaler, sequence, reported, expired, overwritten, late>>
        /\ UNCHANGED <<dispatches, unavailable>>
    BY <1>1 DEF ResourceDies, Others
  <2>2. resource'.at = "down" /\ resource'.node = NoNode /\ resource'.found = {}
    BY <1>0, <2>1 DEF ResourceShape
  <2>3. DOMAIN dispatches' \subseteq Old
    BY <2>1 DEF Inv, Places
  <2> QED BY <2>1, <2>2, <2>3, ResourceOnly
<1>2. CASE ScalerFails \/ ScalerDies
  <2>1. /\ scaler' = IdleScaler \/ scaler' = [IdleScaler EXCEPT !.at = "dead"]
        /\ UNCHANGED <<node, executor, resource, dispatches, unavailable, sequence, reported, expired,
                       overwritten>>
    BY <1>2 DEF ScalerFails, ScalerDies, Retried
  <2>2. scaler'.at \in {"idle", "dead"}
    BY <2>1 DEF IdleScaler
  <2> QED BY <2>1, <2>2, ScalerOnly
<1>3. CASE Tick \/ AsksPlacement \/ AsksScaleIn
  <2>1. UNCHANGED <<node, executor, resource, scaler, dispatches, unavailable, sequence, reported,
                    expired, overwritten, late>>
    BY <1>3 DEF Tick, AsksPlacement, AsksScaleIn, messages
  <2> QED BY <2>1 DEF Inv, Places, Old, Books, Accounted, Holds, Marked, Looked
<1>4. ASSUME NEW n \in Nodes, FailNode(n)
      PROVE  Inv'
  <2>1. /\ n \in Configured \/ n \in 1 .. sequence
        /\ UNCHANGED <<executor, resource, scaler, dispatches, unavailable, sequence, reported, expired,
                       overwritten, late>>
    BY <1>4 DEF FailNode, messages
  <2>2. /\ \A k \in Nodes : k # n => node'[k] = node[k]
        /\ node'[n].used = node[n].used /\ node'[n].status = "failed"
    BY <1>0, <1>4, ApiWrites
  <2>3. n \in Old
    BY <2>1 DEF Inv, Shape, Old
  <2>4. Places'
    BY <2>1, <2>2, <2>3 DEF Inv, Places, Old
  <2>5. Books'
    <3>1. \A k \in Nodes : node'[k].used = node[k].used
      BY <2>2
    <3> QED BY <1>0, <2>1, <3>1 DEF Inv, Books, Accounted, Holds
  <2>6. Marked'
    BY <2>1, <2>2 DEF Inv, Marked, Places, Old
  <2>7. Looked'
    BY <2>1, <2>2 DEF Inv, Looked, Holds
  <2> QED BY <2>4, <2>5, <2>6, <2>7 DEF Inv
<1>6. ASSUME NEW n \in Nodes, Announces(n)
      PROVE  Inv'
  <2>1. /\ n \in requests.failing
        /\ unavailable' = unavailable \cup {n} /\ reported' = reported \cup {n}
        /\ UNCHANGED <<node, executor, resource, scaler, dispatches, sequence, expired, overwritten, late>>
    BY <1>6 DEF Announces
  <2>2. n \in Old
    BY <2>1 DEF Inv, Asked
  <2>3. Places'
    BY <2>1, <2>2 DEF Inv, Places, Old
  <2>4. Books' /\ Looked'
    BY <2>1 DEF Inv, Books, Accounted, Looked, Holds
  <2>5. Marked'
    BY <2>1 DEF Inv, Marked
  <2> QED BY <2>3, <2>4, <2>5 DEF Inv
<1>5. ASSUME NEW n \in Nodes, Expires(n)
      PROVE  Inv'
  <2>1. /\ n \in Configured /\ node' = [node EXCEPT ![n] = Absent] /\ expired' = expired \cup {n}
        /\ UNCHANGED <<executor, resource, scaler, dispatches, unavailable, sequence, reported,
                       overwritten, late>>
    BY <1>5 DEF Expires, messages
  <2>2. /\ node'[n] = Absent
        /\ \A k \in Nodes : k # n => node'[k] = node[k]
    BY <1>0, <2>1
  <2>3. Places'
    BY <2>1, <2>2 DEF Inv, Places, Old, Absent
  <2>4. Books'
    BY <1>0, <2>1, <2>2 DEF Inv, Books, Accounted, Holds
  <2>5. Marked'
    BY <2>1, <2>2 DEF Inv, Marked, Places, Old
  <2>6. Looked'
    <3>1. \A k \in AutoNodes : node'[k] = node[k] /\ k # n
      BY <2>1, <2>2, NodesAssumption
    <3> QED BY <2>1, <3>1 DEF Inv, Looked, Holds
  <2> QED BY <2>3, <2>4, <2>5, <2>6 DEF Inv
<1> QED BY <1>1, <1>2, <1>3, <1>4, <1>5, <1>6 DEF Surroundings

LEMMA InvStep ==
    ASSUME Inv, [Next]_vars
    PROVE  Inv'
<1>1. Shape' /\ Asked'
  BY ShapeStep, AskedStep DEF Inv
<1>2. CASE UNCHANGED vars
  <2>1. UNCHANGED <<node, executor, resource, scaler, dispatches, unavailable, sequence, reported,
                    expired, overwritten, late>>
    BY <1>2 DEF vars, agents, messages, scaling, history
  <2> QED BY <1>1, <2>1 DEF Inv, Places, Old, Books, Accounted, Holds, Marked, Looked
<1> QED BY <1>1, <1>2, ResourceKeeps, ExecutorKeeps, ScalerKeeps, SurroundingsKeep DEF Next

LEMMA Invariant == Spec => []Inv
  BY InvInit, InvStep, PTL DEF Spec

(***************************************************************************)
(* The cooldown.                                                           *)
(***************************************************************************)
(* How many nodes may have been added by the last stamp; a node is added   *)
(* before its stamp, and the time of the stamp is read before both.        *)
Allowed == IF last = Never THEN 0 ELSE 1 + (last \div Cooldown)

Clocks ==
    /\ clock \in Nat /\ sequence \in Nat /\ faults \in Nat
    /\ last = Never \/ (last \in Nat /\ last <= clock)
    /\ scaler \in ScalerShape
    /\ scaler.at \in {"add", "stamp"} => scaler.now \in Nat /\ scaler.now <= clock

Spaced ==
    ~Baseline =>
        /\ scaler.at # "stamp" => sequence <= Allowed + faults
        /\ scaler.at = "add" => sequence <= (scaler.now \div Cooldown) + faults
        /\ scaler.at = "stamp" => /\ sequence <= 1 + (scaler.now \div Cooldown) + faults
                                  /\ sequence <= 1 + Allowed + faults

LEMMA CooldownsApart ==
    ASSUME NEW x \in Nat, NEW y \in Nat, x <= y
    PROVE  /\ x \div Cooldown \in Nat /\ x \div Cooldown <= y \div Cooldown
           /\ y - x >= Cooldown => (x \div Cooldown) + 1 <= y \div Cooldown
<1>1. Cooldown \in Nat \ {0}
  BY ScaleAssumption
<1>2. x \div Cooldown \in Nat
  BY <1>1
<1>3. x \div Cooldown <= y \div Cooldown
  BY <1>1
<1>4. y - x >= Cooldown => (x \div Cooldown) + 1 <= y \div Cooldown
  BY <1>1
<1> QED BY <1>2, <1>3, <1>4

LEMMA AllowedIsNat == Clocks => Allowed \in Nat
<1> SUFFICES ASSUME Clocks PROVE Allowed \in Nat
  OBVIOUS
<1>1. CASE last = Never
  BY <1>1 DEF Allowed
<1>2. CASE last \in Nat /\ last # Never
  <2>1. last \div Cooldown \in Nat
    BY <1>2, CooldownsApart
  <2> QED BY <1>2, <2>1 DEF Allowed
<1> QED BY <1>1, <1>2 DEF Clocks, Never

(* Sums of this section: more faults only make room.                       *)
LEMMA MoreFaults ==
    ASSUME NEW s \in Nat, NEW a \in Nat, NEW f \in Nat, NEW g \in Nat, f <= g
    PROVE  /\ s <= a + f => s <= a + g
           /\ s <= 1 + a + f => s <= 1 + a + g
           /\ s <= 1 + a + f /\ f < g => s <= a + g
OBVIOUS

(* Steps that leave the scale-agent's numbers alone and do not bring it to *)
(* the point of adding a node.                                             *)
LEMMA NothingAdded ==
    ASSUME Clocks, Spaced, Shape', last' = last, sequence' = sequence,
           clock' \in Nat, clock <= clock', faults' \in Nat, faults <= faults',
           scaler' = scaler \/ (scaler'.at \notin {"add", "stamp"} /\ (scaler.at = "stamp" => faults' > faults))
    PROVE  Clocks' /\ Spaced'
<1>1. Clocks'
  BY DEF Clocks, Shape
<1>2. /\ Allowed' = Allowed /\ Allowed \in Nat
      /\ sequence \in Nat /\ faults \in Nat /\ faults' \in Nat /\ faults <= faults'
  BY AllowedIsNat DEF Allowed, Clocks
<1>3. CASE scaler' = scaler
  <2> DEFINE q == scaler.now \div Cooldown
  <2>1. scaler.at \in {"add", "stamp"} => q \in Nat
    BY CooldownsApart DEF Clocks
  <2>2. ASSUME ~Baseline
        PROVE  /\ scaler.at # "stamp" => sequence <= Allowed + faults
               /\ scaler.at = "add" => sequence <= q + faults
               /\ scaler.at = "stamp" => sequence <= 1 + q + faults /\ sequence <= 1 + Allowed + faults
    BY <2>2 DEF Spaced
  <2> HIDE DEF q
  <2>3. ASSUME ~Baseline
        PROVE  /\ scaler.at # "stamp" => sequence <= Allowed + faults'
               /\ scaler.at = "add" => sequence <= q + faults'
               /\ scaler.at = "stamp" => sequence <= 1 + q + faults' /\ sequence <= 1 + Allowed + faults'
    <3>1. CASE scaler.at = "stamp"
      BY <1>2, <2>1, <2>2, <2>3, <3>1, MoreFaults
    <3>2. CASE scaler.at = "add"
      BY <1>2, <2>1, <2>2, <2>3, <3>2, MoreFaults
    <3>3. CASE scaler.at \notin {"add", "stamp"}
      BY <1>2, <2>2, <2>3, <3>3, MoreFaults
    <3> QED BY <3>1, <3>2, <3>3
  <2>4. Spaced'
    BY <1>2, <1>3, <2>3 DEF Spaced, q
  <2> QED BY <1>1, <2>4
<1>4. CASE scaler'.at \notin {"add", "stamp"} /\ (scaler.at = "stamp" => faults' > faults)
  <2>1. ASSUME ~Baseline
        PROVE  sequence <= Allowed + faults'
    <3>1. scaler.at # "stamp" => sequence <= Allowed + faults
      BY <2>1 DEF Spaced
    <3>2. scaler.at = "stamp" => sequence <= 1 + Allowed + faults
      BY <2>1 DEF Spaced
    <3>3. CASE scaler.at = "stamp"
      <4>1. faults < faults'
        BY <1>2, <1>4, <3>3
      <4> QED BY <1>2, <3>2, <3>3, <4>1, MoreFaults
    <3>4. CASE scaler.at # "stamp"
      BY <1>2, <3>1, <3>4, MoreFaults
    <3> QED BY <3>3, <3>4
  <2>2. Spaced'
    BY <1>2, <1>4, <2>1 DEF Spaced
  <2> QED BY <1>1, <2>2
<1> QED BY <1>3, <1>4

LEMMA SpacedStep ==
    ASSUME Clocks, Spaced, Shape, Shape', [Next]_vars
    PROVE  Clocks' /\ Spaced'
<1>0. /\ clock \in Nat /\ sequence \in Nat /\ faults \in Nat /\ scaler \in ScalerShape
      /\ clock + 1 \in Nat /\ faults + 1 \in Nat
  BY DEF Clocks
<1>1. CASE UNCHANGED vars \/ Resource \/ Executor
  <2>1. UNCHANGED <<scaler, last, sequence, clock>> /\ faults' = faults
    BY <1>1 DEF vars, Resource, Executor, ResourceStarts, InitWrites, InitWritten, ScanStarts, ScanEnds,
                InitReads, MarksUnavailable, ScanReads, ReserveReads, ReserveWrites, ReleaseWrites,
                ExecutorWrites, MarksRunning, ReleaseReads, UnmarksRunning, Others, agents, scaling, bounds
  <2> QED BY <1>0, <2>1, NothingAdded
<1>2. CASE Surroundings
  <2>1. /\ last' = last /\ sequence' = sequence /\ clock' \in {clock, clock + 1}
        /\ faults' \in {faults, faults + 1}
    BY <1>2 DEF Surroundings, ResourceDies, ScalerFails, ScalerDies, Tick, FailNode, Announces, Expires, AsksPlacement,
                AsksScaleIn, Fault, Others, agents, scaling, bounds
  <2>2. scaler' = scaler \/ (scaler'.at \in {"idle", "dead"} /\ faults' = faults + 1)
    <3>1. CASE ScalerFails \/ ScalerDies
      <4>1. /\ scaler' = IdleScaler \/ scaler' = [IdleScaler EXCEPT !.at = "dead"]
            /\ faults' = faults + 1
        BY <3>1 DEF ScalerFails, ScalerDies, Retried, Fault
      <4> QED BY <4>1 DEF IdleScaler
    <3>2. CASE ~(ScalerFails \/ ScalerDies)
      BY <1>2, <3>2 DEF Surroundings, ResourceDies, Tick, FailNode, Announces, Expires, AsksPlacement, AsksScaleIn,
                        Others, agents
    <3> QED BY <3>1, <3>2
  <2> QED BY <1>0, <2>1, <2>2, NothingAdded
<1>3. ASSUME NEW m \in Decisions, TakesScaleOut(m)
      PROVE  Clocks' /\ Spaced'
  <2>1. /\ scaler.at = "idle" /\ UNCHANGED <<last, sequence, clock, faults>>
        /\ \/ scaler' = scaler
           \/ /\ Baseline \/ last = Never \/ ~(clock - last < Cooldown)
              /\ scaler' = [IdleScaler EXCEPT !.at = "add", !.m = m, !.now = clock]
    BY <1>3 DEF TakesScaleOut, Takes, Rest, scaling, bounds
  <2>2. CASE scaler' = scaler
    BY <1>0, <2>1, <2>2, NothingAdded
  <2>3. CASE /\ Baseline \/ last = Never \/ ~(clock - last < Cooldown)
             /\ scaler' = [IdleScaler EXCEPT !.at = "add", !.m = m, !.now = clock]
    <3>1. scaler'.at = "add" /\ scaler'.now = clock
      BY <2>3 DEF IdleScaler
    <3>2. Clocks'
      BY <1>0, <2>1, <3>1 DEF Clocks, Shape
    <3>3. Allowed' = Allowed /\ Allowed \in Nat
      BY <2>1, AllowedIsNat DEF Allowed
    <3>4. clock \div Cooldown \in Nat
      BY <1>0, CooldownsApart
    <3>5. Baseline \/ Allowed <= clock \div Cooldown
      <4>1. CASE last = Never
        BY <3>4, <4>1 DEF Allowed
      <4>2. CASE last # Never /\ ~Baseline
        <5>1. last \in Nat /\ last <= clock /\ clock - last >= Cooldown
          BY <1>0, <2>3, <4>2, ScaleAssumption DEF Clocks
        <5>2. (last \div Cooldown) + 1 <= clock \div Cooldown
          BY <1>0, <5>1, CooldownsApart
        <5>3. last \div Cooldown \in Nat
          BY <5>1, CooldownsApart
        <5> QED BY <3>4, <4>2, <5>2, <5>3 DEF Allowed
      <4> QED BY <4>1, <4>2
    <3>6. ~Baseline => sequence <= Allowed + faults
      BY <2>1 DEF Spaced
    <3>7. Spaced'
      BY <1>0, <2>1, <3>1, <3>3, <3>4, <3>5, <3>6 DEF Spaced
    <3> QED BY <3>2, <3>7
  <2> QED BY <2>1, <2>2, <2>3
<1>4. CASE AddsNode
  <2>1. /\ scaler.at = "add" /\ scaler' = [scaler EXCEPT !.at = "stamp"]
        /\ sequence' = sequence + 1 /\ UNCHANGED <<last, clock, faults>>
    BY <1>4 DEF AddsNode, Rest, bounds
  <2>2. scaler'.at = "stamp" /\ scaler'.now = scaler.now
    BY <1>0, <2>1 DEF ScalerShape
  <2>3. scaler.now \div Cooldown \in Nat
    BY <2>1, CooldownsApart DEF Clocks
  <2>4. Allowed' = Allowed /\ Allowed \in Nat
    BY <2>1, AllowedIsNat DEF Allowed
  <2>5. Clocks'
    BY <1>0, <2>1, <2>2 DEF Clocks, Shape
  <2>6. Spaced'
    BY <1>0, <2>1, <2>2, <2>3, <2>4 DEF Spaced
  <2> QED BY <2>5, <2>6
<1>5. CASE Stamps
  <2>1. /\ scaler.at = "stamp" /\ scaler' = [scaler EXCEPT !.at = "added"]
        /\ last' = scaler.now /\ UNCHANGED <<sequence, clock, faults>>
    BY <1>5 DEF Stamps, Rest, bounds
  <2>2. scaler'.at = "added"
    BY <1>0, <2>1 DEF ScalerShape
  <2>3. scaler.now \in Nat /\ scaler.now <= clock
    BY <2>1 DEF Clocks
  <2>4. Allowed' = 1 + (scaler.now \div Cooldown)
    BY <2>1, <2>3 DEF Allowed, Never
  <2>5. Clocks'
    BY <1>0, <2>1, <2>2, <2>3 DEF Clocks, Shape
  <2>6. Spaced'
    BY <2>1, <2>2, <2>4 DEF Spaced
  <2> QED BY <2>5, <2>6
<1>6. CASE \/ ScaleOutDone \/ Counts \/ Deletes \/ ScaleInEnds
           \/ \E m \in Decisions : TakesScaleIn(m)
           \/ \E n \in Nodes : LooksAtNode(n) \/ LooksAtSet(n)
  <2>1. UNCHANGED <<last, sequence, clock, faults>> /\ scaler.at # "stamp"
    BY <1>6 DEF ScaleOutDone, Counts, Deletes, ScaleInEnds, TakesScaleIn, LooksAtNode, LooksAtSet, LooksAt,
                Takes, Rest, scaling, bounds
  <2>2. scaler'.at \in {"idle", "scan", "count", "delete", "deleted"}
    <3>1. CASE ScaleOutDone \/ ScaleInEnds \/ \E m \in Decisions : TakesScaleIn(m)
      <4>1. CASE ScaleOutDone \/ ScaleInEnds
        BY <4>1 DEF ScaleOutDone, ScaleInEnds, IdleScaler
      <4>2. ASSUME NEW m \in Decisions, TakesScaleIn(m)
            PROVE  scaler'.at = "scan"
        BY <4>2 DEF TakesScaleIn, IdleScaler
      <4> QED BY <3>1, <4>1, <4>2
    <3>2. CASE Counts \/ Deletes
      <4>1. \/ scaler' = [scaler EXCEPT !.at = "delete"]
            \/ scaler' = [scaler EXCEPT !.at = "scan", !.node = NoNode, !.used = 0]
            \/ scaler' = [scaler EXCEPT !.at = "deleted", !.node = NoNode]
        BY <3>2 DEF Counts, Deletes
      <4> QED BY <1>0, <4>1 DEF ScalerShape
    <3>3. ASSUME NEW n \in Nodes, LooksAtNode(n)
          PROVE  scaler'.at \in {"scan", "count"}
      <4>1. /\ scaler.at = "scan"
            /\ \/ scaler' = [scaler EXCEPT !.keys = @ \ {<<n, "hash">>}, !.at = "count",
                                           !.node = n, !.used = node[n].used]
               \/ scaler' = [scaler EXCEPT !.keys = @ \ {<<n, "hash">>}]
        BY <3>3 DEF LooksAtNode, LooksAt
      <4> QED BY <1>0, <4>1 DEF ScalerShape
    <3>4. ASSUME NEW n \in Nodes, LooksAtSet(n)
          PROVE  scaler'.at \in {"scan", "idle"}
      <4>1. /\ scaler.at = "scan"
            /\ scaler' = IdleScaler \/ scaler' = [scaler EXCEPT !.keys = @ \ {<<n, "set">>}]
        BY <3>4 DEF LooksAtSet, LooksAt, Retried
      <4> QED BY <1>0, <4>1 DEF IdleScaler, ScalerShape
    <3> QED BY <1>6, <3>1, <3>2, <3>3, <3>4
  <2> QED BY <1>0, <2>1, <2>2, NothingAdded
<1> QED BY <1>1, <1>2, <1>3, <1>4, <1>5, <1>6 DEF Next, Scaler

LEMMA SpacedEnough == Clocks /\ Spaced => ScaleOutsBounded
<1> SUFFICES ASSUME Clocks, Spaced, ~Baseline
             PROVE  sequence <= 1 + (clock \div Cooldown) + faults
  BY DEF ScaleOutsBounded
<1>0. clock \in Nat /\ sequence \in Nat /\ faults \in Nat /\ clock \div Cooldown \in Nat
  BY CooldownsApart DEF Clocks
<1>1. CASE scaler.at = "stamp"
  <2>1. scaler.now \div Cooldown \in Nat /\ scaler.now \div Cooldown <= clock \div Cooldown
    BY <1>0, <1>1, CooldownsApart DEF Clocks
  <2> QED BY <1>0, <1>1, <2>1 DEF Spaced
<1>2. CASE scaler.at # "stamp"
  <2>1. sequence <= Allowed + faults
    BY <1>2 DEF Spaced
  <2>2. Allowed \in Nat /\ Allowed <= 1 + (clock \div Cooldown)
    <3>1. CASE last = Never
      BY <1>0, <3>1 DEF Allowed
    <3>2. CASE last # Never
      <4>1. last \in Nat /\ last \div Cooldown \in Nat /\ last \div Cooldown <= clock \div Cooldown
        BY <1>0, <3>2, CooldownsApart DEF Clocks
      <4> QED BY <1>0, <3>2, <4>1 DEF Allowed
    <3> QED BY <3>1, <3>2
  <2> QED BY <1>0, <2>1, <2>2
<1> QED BY <1>1, <1>2

(***************************************************************************)
(* Types.  Shape has those the other invariants need; what is left are the *)
(* messages, the counters and the histories.                               *)
(***************************************************************************)
LEMMA OneMore ==
    ASSUME NEW S, NEW B, IsABag(B), BagToSet(B) \subseteq S, NEW x \in S
    PROVE  IsABag(B (+) One(x)) /\ BagToSet(B (+) One(x)) \subseteq S
  BY DEF IsABag, One, SetToBag, BagIn, BagToSet, \oplus

LEMMA OneLess ==
    ASSUME NEW S, NEW B, IsABag(B), BagToSet(B) \subseteq S, NEW x
    PROVE  IsABag(B (-) One(x)) /\ BagToSet(B (-) One(x)) \subseteq S
  BY DEF IsABag, One, SetToBag, BagIn, BagToSet, \ominus

Messages ==
    /\ IsABag(dispatches) /\ BagToSet(dispatches) \subseteq Nodes
    /\ IsABag(decisions) /\ BagToSet(decisions) \subseteq Decisions
    /\ scaler.at \notin {"idle", "dead"} => scaler.m \in Decisions

Tallies ==
    /\ running \subseteq Nodes /\ placements \in Nat
    /\ reported \cup expired \cup overwritten \subseteq Nodes
    /\ requests \in [placements : 0 .. MaxPlacements, scaleIns : 0 .. MaxScaleIns,
                    failing : SUBSET Nodes]
    /\ faults \in 0 .. MaxFaults

Times == clock \in 0 .. MaxTime /\ last \in 0 .. MaxTime \cup {Never} /\ scaler.now \in 0 .. MaxTime

Flag == late \in BOOLEAN

LEMMA NextAttempts == \A m \in Decisions : m.attempt < MaxRetries => [m EXCEPT !.attempt = @ + 1] \in Decisions
  BY BoundsAssumption DEF Decisions

LEMMA FirstAttempts == Decision("scale-out", 0) \in Decisions /\ Decision("scale-in", 0) \in Decisions
  BY BoundsAssumption DEF Decision, Decisions

(* What each part of the system does to the messages.                      *)
LEMMA DispatchesStep ==
    ASSUME Shape, Messages, [Next]_vars
    PROVE  IsABag(dispatches') /\ BagToSet(dispatches') \subseteq Nodes
<1>1. \/ dispatches' = dispatches
      \/ \E n \in Nodes : dispatches' = dispatches (+) One(n) \/ dispatches' = dispatches (-) One(n)
  <2>1. CASE ScanEnds
    <3>1. resource.found \subseteq Nodes
      BY DEF Shape, ResourceShape
    <3> QED BY <2>1, <3>1 DEF ScanEnds
  <2>2. CASE Resource /\ ~ScanEnds
    BY <2>2 DEF Resource, ResourceStarts, InitWrites, InitWritten, ScanStarts, InitReads,
       MarksUnavailable, ScanReads, messages
  <2>3. CASE Executor
    BY <2>3 DEF Executor, ReserveReads, ReserveWrites, MarksRunning, ReleaseReads, ReleaseWrites,
       UnmarksRunning, ExecutorWrites, messages
  <2>4. CASE Scaler
    BY <2>4 DEF Scaler, TakesScaleOut, TakesScaleIn, AddsNode, Stamps, ScaleOutDone, LooksAtNode,
       LooksAtSet, Counts, Deletes, ScaleInEnds, Rest
  <2>5. CASE Surroundings
    BY <2>5 DEF Surroundings, ResourceDies, ScalerFails, ScalerDies, Tick, FailNode, Announces, Expires,
       AsksPlacement, AsksScaleIn, messages
  <2>6. CASE UNCHANGED vars
    BY <2>6 DEF vars, messages
  <2> QED BY <2>1, <2>2, <2>3, <2>4, <2>5, <2>6 DEF Next
<1>2. IsABag(dispatches) /\ BagToSet(dispatches) \subseteq Nodes
  BY DEF Messages
<1>3. ASSUME NEW n \in Nodes, dispatches' = dispatches (+) One(n) \/ dispatches' = dispatches (-) One(n)
      PROVE  IsABag(dispatches') /\ BagToSet(dispatches') \subseteq Nodes
  <2> HIDE DEF Nodes
  <2>1. IsABag(dispatches (+) One(n)) /\ BagToSet(dispatches (+) One(n)) \subseteq Nodes
    BY <1>2, OneMore
  <2>2. IsABag(dispatches (-) One(n)) /\ BagToSet(dispatches (-) One(n)) \subseteq Nodes
    BY <1>2, OneLess
  <2> QED BY <1>3, <2>1, <2>2
<1> QED BY <1>1, <1>2, <1>3

(* A decision in the scale-agent's hands, or back in its queue, is one.    *)
LEMMA RetriedStep ==
    ASSUME Messages, Retried, scaler.m \in Decisions
    PROVE  \/ decisions' = decisions
           \/ \E m \in Decisions : decisions' = decisions (+) One(m)
  BY NextAttempts DEF Retried

LEMMA DecisionsChange ==
    ASSUME Shape, Messages, [Next]_vars
    PROVE  \/ decisions' = decisions
           \/ \E m \in Decisions : decisions' = decisions (+) One(m) \/ decisions' = decisions (-) One(m)
<1>1. CASE Resource
  BY <1>1, FirstAttempts DEF Resource, ResourceStarts, InitWrites, InitWritten, ScanStarts, ScanEnds,
     InitReads, MarksUnavailable, ScanReads, messages
<1>2. CASE Executor
  BY <1>2 DEF Executor, ReserveReads, ReserveWrites, MarksRunning, ReleaseReads, ReleaseWrites,
     UnmarksRunning, ExecutorWrites, messages
<1>3. ASSUME NEW n \in Nodes, LooksAtSet(n)
      PROVE  decisions' = decisions \/ \E m \in Decisions : decisions' = decisions (+) One(m)
  <2>1. scaler.m \in Decisions
    BY <1>3 DEF LooksAtSet, LooksAt, Messages
  <2> QED BY <1>3, <2>1, RetriedStep DEF LooksAtSet
<1>4. CASE Scaler /\ ~\E n \in Nodes : LooksAtSet(n)
  BY <1>4 DEF Scaler, TakesScaleOut, TakesScaleIn, Takes, AddsNode, Stamps, ScaleOutDone, LooksAtNode,
     Counts, Deletes, ScaleInEnds
<1>5. CASE ScalerFails \/ ScalerDies
  <2>1. scaler.m \in Decisions
    BY <1>5 DEF ScalerFails, ScalerDies, Messages
  <2> QED BY <1>5, <2>1, RetriedStep DEF ScalerFails, ScalerDies
<1>6. CASE Surroundings /\ ~ScalerFails /\ ~ScalerDies
  BY <1>6, FirstAttempts DEF Surroundings, ResourceDies, Tick, FailNode, Announces, Expires,
     AsksPlacement, AsksScaleIn, messages
<1>7. CASE UNCHANGED vars
  BY <1>7 DEF vars, messages
<1> QED BY <1>1, <1>2, <1>3, <1>4, <1>5, <1>6, <1>7 DEF Next

LEMMA DecisionsStep ==
    ASSUME Shape, Messages, [Next]_vars
    PROVE  IsABag(decisions') /\ BagToSet(decisions') \subseteq Decisions
<1>1. IsABag(decisions) /\ BagToSet(decisions) \subseteq Decisions
  BY DEF Messages
<1>2. ASSUME NEW m \in Decisions, decisions' = decisions (+) One(m) \/ decisions' = decisions (-) One(m)
      PROVE  IsABag(decisions') /\ BagToSet(decisions') \subseteq Decisions
  <2>1. IsABag(decisions (+) One(m)) /\ BagToSet(decisions (+) One(m)) \subseteq Decisions
    BY <1>1, OneMore
  <2>2. IsABag(decisions (-) One(m)) /\ BagToSet(decisions (-) One(m)) \subseteq Decisions
    BY <1>1, OneLess
  <2> QED BY <1>2, <2>1, <2>2
<1> QED BY <1>1, <1>2, DecisionsChange

(* The message in hand and the time read for it.                           *)
LEMMA InHand ==
    ASSUME Shape, Messages, Times, [Next]_vars
    PROVE  /\ scaler'.at \notin {"idle", "dead"} => scaler'.m \in Decisions
           /\ scaler'.now \in 0 .. MaxTime
<1>0. scaler \in ScalerShape /\ scaler.now \in 0 .. MaxTime /\ clock \in 0 .. MaxTime /\ 0 \in 0 .. MaxTime
      /\ (scaler.at \notin {"idle", "dead"} => scaler.m \in Decisions)
  BY BoundsAssumption DEF Shape, Times, Messages
<1>1. CASE scaler' = scaler
  BY <1>0, <1>1
<1>2. CASE scaler' \in {IdleScaler, [IdleScaler EXCEPT !.at = "dead"]}
  BY <1>0, <1>2 DEF IdleScaler
<1>3. ASSUME NEW m \in Decisions, TakesScaleOut(m) \/ TakesScaleIn(m), scaler' # scaler
      PROVE  scaler'.m = m /\ scaler'.now \in 0 .. MaxTime
  BY <1>0, <1>3 DEF TakesScaleOut, TakesScaleIn, IdleScaler
<1>4. CASE scaler'.m = scaler.m /\ scaler'.now = scaler.now /\ scaler.at \notin {"idle", "dead"}
  BY <1>0, <1>4
<1>5. CASE AddsNode \/ Stamps \/ Counts \/ Deletes \/ \E n \in Nodes : LooksAtNode(n)
  <2>1. scaler'.m = scaler.m /\ scaler'.now = scaler.now /\ scaler.at \notin {"idle", "dead"}
    BY <1>0, <1>5 DEF AddsNode, Stamps, Counts, Deletes, LooksAtNode, LooksAt, ScalerShape
  <2> QED BY <1>4, <2>1
<1>6. ASSUME NEW n \in Nodes, LooksAtSet(n)
      PROVE  \/ scaler' = IdleScaler
             \/ scaler'.m = scaler.m /\ scaler'.now = scaler.now /\ scaler.at \notin {"idle", "dead"}
  BY <1>0, <1>6 DEF LooksAtSet, LooksAt, Retried, ScalerShape
<1>7. CASE ScaleOutDone \/ ScaleInEnds \/ ScalerFails \/ ScalerDies
  BY <1>2, <1>7 DEF ScaleOutDone, ScaleInEnds, ScalerFails, ScalerDies, Retried
<1>8. CASE Resource
  BY <1>1, <1>8 DEF Resource, ResourceStarts, InitWrites, InitWritten, ScanStarts, ScanEnds,
     InitReads, MarksUnavailable, ScanReads, Others
<1>9. CASE Executor
  BY <1>1, <1>9 DEF Executor, ReserveReads, ReserveWrites, MarksRunning, ReleaseReads, ReleaseWrites,
     UnmarksRunning, ExecutorWrites
<1>10. CASE Surroundings /\ ~ScalerFails /\ ~ScalerDies
  BY <1>1, <1>10 DEF Surroundings, ResourceDies, Tick, FailNode, Announces, Expires, AsksPlacement, AsksScaleIn,
     agents, Others
<1>11. CASE UNCHANGED vars
  BY <1>1, <1>11 DEF vars, agents
<1> QED BY <1>1, <1>2, <1>3, <1>4, <1>5, <1>6, <1>7, <1>8, <1>9, <1>10, <1>11 DEF Next, Scaler

LEMMA TimesStep ==
    ASSUME Shape, Messages, Times, [Next]_vars
    PROVE  Times'
<1>1. clock' \in 0 .. MaxTime /\ last' \in 0 .. MaxTime \cup {Never}
  <2>1. CASE Resource
    BY <2>1 DEF Resource, ResourceStarts, InitWrites, InitWritten, ScanStarts, ScanEnds,
       InitReads, MarksUnavailable, ScanReads, Others, scaling, Times
  <2>2. CASE Executor
    BY <2>2 DEF Executor, ReserveReads, ReserveWrites, MarksRunning, ReleaseReads, ReleaseWrites,
       UnmarksRunning, ExecutorWrites, scaling, Times
  <2>3. CASE Scaler
    BY <2>3 DEF Scaler, TakesScaleOut, TakesScaleIn, AddsNode, Stamps, ScaleOutDone, LooksAtNode,
       LooksAtSet, Counts, Deletes, ScaleInEnds, scaling, Times
  <2>4. CASE Tick
    BY <2>4, BoundsAssumption DEF Tick, Times
  <2>5. CASE Surroundings /\ ~Tick
    BY <2>5 DEF Surroundings, ResourceDies, ScalerFails, ScalerDies, FailNode, Announces, Expires,
       AsksPlacement, AsksScaleIn, Others, scaling, Times
  <2>6. CASE UNCHANGED vars
    BY <2>6 DEF vars, scaling, Times
  <2> QED BY <2>1, <2>2, <2>3, <2>4, <2>5, <2>6 DEF Next
<1> QED BY <1>1, InHand DEF Times

LEMMA TalliesStep ==
    ASSUME Shape, Tallies, [Next]_vars
    PROVE  Tallies'
<1>0. /\ executor.at # "idle" => executor.node \in Nodes
      /\ scaler.at \in {"count", "delete"} => scaler.node \in Nodes
      /\ executor.node \in Nodes \cup {NoNode}
      /\ MaxFaults \in Nat /\ MaxPlacements \in Nat /\ MaxScaleIns \in Nat
  BY BoundsAssumption DEF Shape, ExecutorShape
<1>1. CASE Resource
  <2>1. UNCHANGED <<running, reported, expired, overwritten, requests, faults>>
    BY <1>1 DEF Resource, ResourceStarts, InitWrites, InitWritten, ScanStarts, ScanEnds,
       InitReads, MarksUnavailable, ScanReads, Others, history, bounds
  <2>2. placements' = placements \/ (placements > 0 /\ placements' = placements - 1)
    BY <1>1 DEF Resource, ResourceStarts, InitWrites, InitWritten, ScanStarts, ScanEnds,
       InitReads, MarksUnavailable, ScanReads, messages
  <2> QED BY <2>1, <2>2 DEF Tallies
<1>2. CASE Executor
  <2>1. UNCHANGED <<placements, reported, expired, requests, faults>>
    BY <1>2 DEF Executor, ReserveReads, ReserveWrites, MarksRunning, ReleaseReads, ReleaseWrites,
       UnmarksRunning, ExecutorWrites, messages, history, bounds
  <2>2. running' \subseteq running \cup {executor.node} /\ (executor.at = "idle" => running' = running)
    BY <1>2 DEF Executor, ReserveReads, ReserveWrites, MarksRunning, ReleaseReads, ReleaseWrites,
       UnmarksRunning, ExecutorWrites
  <2>3. /\ overwritten' \subseteq overwritten \cup {executor.node}
        /\ executor.at = "idle" => overwritten' = overwritten
    BY <1>2 DEF Executor, ReserveReads, ReserveWrites, MarksRunning, ReleaseReads, ReleaseWrites,
       UnmarksRunning, ExecutorWrites, history
  <2> QED BY <1>0, <2>1, <2>2, <2>3 DEF Tallies
<1>3. CASE Scaler
  <2>1. UNCHANGED <<running, reported, overwritten, requests, faults>>
    BY <1>3 DEF Scaler, TakesScaleOut, TakesScaleIn, AddsNode, Stamps, ScaleOutDone, LooksAtNode,
       LooksAtSet, Counts, Deletes, ScaleInEnds, Rest, history, bounds
  <2>2. placements' \in {placements, placements + 1}
    BY <1>3 DEF Scaler, TakesScaleOut, TakesScaleIn, AddsNode, Stamps, ScaleOutDone, LooksAtNode,
       LooksAtSet, Counts, Deletes, ScaleInEnds, Rest
  <2>3. expired' = expired \/ (scaler.at = "delete" /\ expired' = expired \cup {scaler.node})
    BY <1>3 DEF Scaler, TakesScaleOut, TakesScaleIn, AddsNode, Stamps, ScaleOutDone, LooksAtNode,
       LooksAtSet, Counts, Deletes, ScaleInEnds, history
  <2> QED BY <1>0, <2>1, <2>2, <2>3 DEF Tallies
<1>4. CASE Surroundings
  <2>1. CASE ResourceDies \/ ScalerFails \/ ScalerDies \/ Tick
    BY <1>0, <2>1 DEF ResourceDies, ScalerFails, ScalerDies, Tick, Fault, Others, messages, history, bounds,
       Tallies
  <2>2. CASE \E n \in Nodes : FailNode(n) \/ Announces(n) \/ Expires(n)
    <3>1. PICK n \in Nodes : FailNode(n) \/ Announces(n) \/ Expires(n)
      BY <2>2
    <3>2. /\ UNCHANGED <<running, placements, overwritten>>
          /\ reported' \subseteq reported \cup {n} /\ expired' \subseteq expired \cup {n}
          /\ faults' = faults \/ (faults < MaxFaults /\ faults' = faults + 1)
      BY <3>1 DEF FailNode, Announces, Expires, Fault, messages, history
    <3>3. /\ requests.placements \in 0 .. MaxPlacements /\ requests.scaleIns \in 0 .. MaxScaleIns
          /\ requests.failing \subseteq Nodes
      BY DEF Tallies
    <3>4. requests' \in [placements : 0 .. MaxPlacements, scaleIns : 0 .. MaxScaleIns,
                         failing : SUBSET Nodes]
      <4>1. CASE FailNode(n)
        BY <3>3, <4>1 DEF FailNode, Tallies
      <4>2. CASE Announces(n)
        BY <3>3, <4>2 DEF Announces, Tallies
      <4>3. CASE Expires(n)
        BY <4>3 DEF Expires, Tallies
      <4> QED BY <3>1, <4>1, <4>2, <4>3
    <3> QED BY <1>0, <3>2, <3>4 DEF Tallies
  <2>3. CASE AsksPlacement \/ AsksScaleIn
    BY <1>0, <2>3 DEF AsksPlacement, AsksScaleIn, history, Tallies
  <2> QED BY <1>4, <2>1, <2>2, <2>3 DEF Surroundings
<1>5. CASE UNCHANGED vars
  BY <1>5 DEF vars, messages, history, bounds, Tallies
<1> QED BY <1>1, <1>2, <1>3, <1>4, <1>5 DEF Next

LEMMA FlagStep ==
    ASSUME Flag, [Next]_vars
    PROVE  Flag'
<1>1. CASE Resource
  BY <1>1, Zenon DEF Resource, ResourceStarts, InitWrites, InitWritten, ScanStarts, ScanEnds,
     InitReads, MarksUnavailable, ScanReads, history, Flag
<1>2. CASE Executor
  BY <1>2, Zenon DEF Executor, ReserveReads, ReserveWrites, MarksRunning, ReleaseReads, ReleaseWrites,
     UnmarksRunning, history, Flag
<1>3. CASE Scaler
  BY <1>3, Zenon DEF Scaler, TakesScaleOut, TakesScaleIn, AddsNode, Stamps, ScaleOutDone, LooksAtNode,
     LooksAtSet, Counts, Deletes, ScaleInEnds, history, Flag
<1>4. CASE Surroundings
  BY <1>4, Zenon DEF Surroundings, ResourceDies, ScalerFails, ScalerDies, Tick, FailNode, Announces, Expires,
     AsksPlacement, AsksScaleIn, history, Flag
<1>5. CASE UNCHANGED vars
  BY <1>5 DEF vars, history, Flag
<1> QED BY <1>1, <1>2, <1>3, <1>4, <1>5 DEF Next

TypeInv == Shape /\ Asked /\ Messages /\ Tallies /\ Times /\ Flag

LEMMA TypeInvInit == Init => TypeInv
<1> SUFFICES ASSUME Init PROVE TypeInv
  OBVIOUS
<1>1. Messages
  BY DEF Init, Messages, EmptyBag, SetToBag, IsABag, BagToSet, IdleScaler
<1>2. Tallies /\ Times
  BY BoundsAssumption DEF Init, Tallies, Times, IdleScaler
<1>3. Flag /\ Asked
  BY DEF Init, Flag, Asked
<1> QED BY <1>1, <1>2, <1>3, ShapeInit DEF TypeInv

LEMMA TypeInvStep == TypeInv /\ [Next]_vars => TypeInv'
<1> SUFFICES ASSUME TypeInv, [Next]_vars PROVE TypeInv'
  OBVIOUS
<1>1. Messages'
  BY DispatchesStep, DecisionsStep, InHand DEF TypeInv, Messages
<1> QED BY <1>1, ShapeStep, AskedStep, TimesStep, TalliesStep, FlagStep DEF TypeInv
(***************************************************************************)
(* Theorems.                                                               *)
(***************************************************************************)
(* Every hash, message, counter and history has its type, for any nodes,   *)
(* capacity, cooldown and bounds.                                          *)
THEOREM TypeCorrect == Spec => []TypeOK
<1>1. ASSUME TypeInv
      PROVE  TypeOK
  <2>1. /\ resource.at \in {"down", "init", "serve", "scan"}
        /\ resource.keys \cup resource.found \subseteq Nodes /\ resource.node \in Nodes \cup {NoNode}
    BY <1>1 DEF TypeInv, Shape, ResourceShape
  <2>2. /\ scaler.at \in {"idle", "add", "stamp", "added", "scan", "count", "delete", "deleted", "dead"}
        /\ scaler.m \in Decisions \cup {NoDecision} /\ scaler.node \in Nodes \cup {NoNode}
    BY <1>1 DEF TypeInv, Shape, ScalerShape
  <2>3. /\ requests.placements \in 0 .. MaxPlacements /\ requests.scaleIns \in 0 .. MaxScaleIns
        /\ requests.failing \subseteq Nodes
    BY <1>1 DEF TypeInv, Tallies
  <2>4. late \in BOOLEAN
    BY <1>1 DEF TypeInv, Flag
  <2> QED BY <1>1, <2>1, <2>2, <2>3, <2>4 DEF TypeInv, Shape, ExecutorShape, Messages, Tallies, Times, TypeOK
<1> QED BY <1>1, TypeInvInit, TypeInvStep, PTL DEF Spec

(* No reservation is lost or left over on a node whose hash was not lost   *)
(* and which the executor did not write in the middle of initialize_nodes. *)
THEOREM LoadsKept == Spec => []ReservationsKept
<1>1. Inv => ReservationsKept
  BY DEF Inv, Books, ReservationsKept, Accounted
<1> QED BY <1>1, Invariant, PTL

(* A node failure stands once the resource-agent has handled its event,    *)
(* whatever initialize_nodes had read before.                              *)
THEOREM FailuresStand == Spec => []FailureSticks
<1>1. Inv => FailureSticks
  BY DEF Inv, Marked, FailureSticks
<1> QED BY <1>1, Invariant, PTL

(* scale_in deletes no node with a reservation it could have read: one that*)
(* was in the node's hash, and not lost with an earlier hash of the node.  *)
THEOREM RemovalsSafe == Spec => []ScaleInSafe
<1>1. Inv => ScaleInSafe
  BY DEF Inv, Looked, ScaleInSafe
<1> QED BY <1>1, Invariant, PTL

(* The cooldown spaces scale-outs, but for one more with each call that    *)
(* failed between a node and its stamp.                                    *)
THEOREM CooldownSpaces == Spec => []ScaleOutsBounded
<1>1. Init => Clocks /\ Spaced
  <2> SUFFICES ASSUME Init PROVE Clocks /\ Spaced
    OBVIOUS
  <2>1. scaler.at = "idle" /\ scaler \in ScalerShape
    BY IdleScalerShape DEF Init, IdleScaler
  <2>2. clock = 0 /\ sequence = 0 /\ faults = 0 /\ last = Never
    BY DEF Init
  <2> QED BY <2>1, <2>2 DEF Clocks, Spaced, Allowed
<1>2. Clocks /\ Spaced /\ Shape /\ Shape' /\ [Next]_vars => Clocks' /\ Spaced'
  BY SpacedStep
<1>3. Shape /\ Asked /\ [Next]_vars => Shape' /\ Asked'
  BY ShapeStep, AskedStep
<1>4. Init => Shape /\ Asked
  BY ShapeInit DEF Init, Asked
<1> QED BY <1>1, <1>2, <1>3, <1>4, SpacedEnough, PTL DEF Spec

================================================================================
