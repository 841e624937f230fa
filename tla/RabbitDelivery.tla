--------------------------- MODULE RabbitDelivery ---------------------------
(***************************************************************************)
(* The RabbitMQ transport every agent shares (common/cloudrm/rabbit.py):   *)
(* the topic exchange mas.events that copies an event into each bound      *)
(* queue, one consumer per queue that handles one message at a time, the   *)
(* retry path mas.retry -> queue.retry -> (TTL) -> mas.events, and the     *)
(* dead letter queue.                                                      *)
(*                                                                         *)
(* A message is identified with its event and its x-retry-count header;    *)
(* copies with the same identity are interchangeable, so a queue is a bag, *)
(* kept as a count per identity.  Requeues and retries reorder messages,   *)
(* so no order is promised between the copies waiting in a queue.          *)
(*                                                                         *)
(* The broker itself (routing, TTL, requeueing what a dead consumer had    *)
(* not acknowledged) is external and modelled from the way rabbit.py       *)
(* declares and uses it.                                                   *)
(***************************************************************************)
EXTENDS Naturals, FiniteSets

CONSTANTS
    Events,      \* published events
    Queues,      \* agent queues, each with its one consumer
    BoundTo,     \* for each event, the queues its routing key is bound to
    MaxRetries,  \* the x-max-retries default (3)
    Malformed,   \* events whose body does not parse as an envelope
    Expiring,    \* events published with ttl_seconds
    MaxFaults,   \* bound: broker call failures and process crashes in a run
    NoMessage    \* the consumer holds nothing

Levels == 0 .. MaxRetries
Messages == Events \X Levels

ASSUME QueuesAssumption == IsFiniteSet(Queues)
ASSUME BoundToAssumption == BoundTo \in [Events -> SUBSET Queues]
ASSUME MaxRetriesAssumption == MaxRetries \in Nat
ASSUME MaxFaultsAssumption == MaxFaults \in Nat
ASSUME NoMessageAssumption == NoMessage \notin Messages

VARIABLES
    ready,    \* copies waiting in each queue
    hand,     \* the message each consumer holds unacknowledged
    step,     \* where each consumer's events() loop is
    retryQ,   \* copies waiting out their TTL in queue.retry
    acked,    \* copies each consumer acknowledged after handling them
    moved,    \* copies it acknowledged after publishing them to mas.retry
    dead,     \* copies of each queue that went to queue.dead
    routed,   \* how often the exchange routed each message (history)
    expired,  \* events past the expires_at of their envelope
    faults    \* faults so far (bounded by MaxFaults)

vars == <<ready, hand, step, retryQ, acked, moved, dead, routed, expired, faults>>

Steps == {"idle", "handling", "handled", "unsettled", "copied", "stopped"}
Counts == [Messages -> Nat]

TypeOK ==
    /\ ready \in [Queues -> Counts]
    /\ hand \in [Queues -> Messages \cup {NoMessage}]
    /\ step \in [Queues -> Steps]
    /\ retryQ \in Counts
    /\ acked \in [Queues -> Counts]
    /\ moved \in [Queues -> Counts]
    /\ dead \in [Queues -> Counts]
    /\ routed \in Counts
    /\ expired \subseteq Events
    /\ faults \in 0 .. MaxFaults

None == [m \in Messages |-> 0]

Init ==
    /\ ready = [q \in Queues |-> None]
    /\ hand = [q \in Queues |-> NoMessage]
    /\ step = [q \in Queues |-> "idle"]
    /\ retryQ = None
    /\ acked = [q \in Queues |-> None]
    /\ moved = [q \in Queues |-> None]
    /\ dead = [q \in Queues |-> None]
    /\ routed = None
    /\ expired = {}
    /\ faults = 0

(***************************************************************************)
(* The exchange: one copy of the message for every bound queue, none if    *)
(* there is no binding (the event is dropped).                             *)
(***************************************************************************)
Route(m) ==
    /\ ready' = [q \in Queues |->
                   IF q \in BoundTo[m[1]] THEN [ready[q] EXCEPT ![m] = @ + 1] ELSE ready[q]]
    /\ routed' = [routed EXCEPT ![m] = @ + 1]

(* RabbitPublisher.publish: every publication carries fresh identifiers.   *)
Publish(e) ==
    /\ routed[<<e, 0>>] = 0
    /\ Route(<<e, 0>>)
    /\ UNCHANGED <<hand, step, retryQ, acked, moved, dead, expired, faults>>

(* Wall-clock time passes the event's expires_at.                          *)
EnvelopeExpires(e) ==
    /\ e \in Expiring \ expired
    /\ expired' = expired \cup {e}
    /\ UNCHANGED <<ready, hand, step, retryQ, acked, moved, dead, routed, faults>>

(* Mutant: the consumer is handed a copy the queue does not have.          *)
Deliver_Unguarded(q, m) ==
    /\ step[q] = "idle"
    /\ ready' = [ready EXCEPT ![q][m] = @ - 1]

(* The broker delivers one waiting copy to an idle consumer.               *)
Deliver(q, m) ==
    /\ step[q] = "idle"
    /\ ready[q][m] > 0
    /\ ready' = [ready EXCEPT ![q][m] = @ - 1]

(***************************************************************************)
(* events(): the body is parsed first; what cannot be parsed raises inside *)
(* the generator, whose finally block still settles the message.           *)
(***************************************************************************)
TakeMalformed(q, m) ==
    /\ m[1] \in Malformed
    /\ Deliver(q, m)
    /\ hand' = [hand EXCEPT ![q] = m]
    /\ step' = [step EXCEPT ![q] = "unsettled"]
    /\ UNCHANGED <<retryQ, acked, moved, dead, routed, expired, faults>>

(* Mutant: the expired message is skipped without a reject ...             *)
TakeExpired_NotRejected(q, m) ==
    /\ m[1] \notin Malformed /\ m[1] \in expired
    /\ Deliver(q, m)
    /\ UNCHANGED <<hand, step, retryQ, acked, moved, dead, routed, expired, faults>>

(* ... or rejected back into the queue.                                    *)
TakeExpired_Requeued(q, m) ==
    /\ m[1] \notin Malformed /\ m[1] \in expired
    /\ step[q] = "idle" /\ ready[q][m] > 0
    /\ UNCHANGED vars

(* An expired envelope is rejected without requeue: to the dead letters.   *)
TakeExpired(q, m) ==
    /\ m[1] \notin Malformed /\ m[1] \in expired
    /\ Deliver(q, m)
    /\ dead' = [dead EXCEPT ![q][m] = @ + 1]
    /\ UNCHANGED <<hand, step, retryQ, acked, moved, routed, expired, faults>>

(* Otherwise the envelope is yielded to the agent's worker.                *)
TakeForHandling(q, m) ==
    /\ m[1] \notin Malformed \cup expired
    /\ Deliver(q, m)
    /\ hand' = [hand EXCEPT ![q] = m]
    /\ step' = [step EXCEPT ![q] = "handling"]
    /\ UNCHANGED <<retryQ, acked, moved, dead, routed, expired, faults>>

(* The worker reaches consumer.commit() ...                                *)
HandlerReturns(q) ==
    /\ step[q] = "handling"
    /\ step' = [step EXCEPT ![q] = "handled"]
    /\ UNCHANGED <<ready, hand, retryQ, acked, moved, dead, routed, expired, faults>>

(* ... or an exception skips it, which the worker swallows; the generator  *)
(* then finds the message unprocessed.                                     *)
HandlerRaises(q) ==
    /\ step[q] = "handling"
    /\ step' = [step EXCEPT ![q] = "unsettled"]
    /\ UNCHANGED <<ready, hand, retryQ, acked, moved, dead, routed, expired, faults>>

Commit(q) ==
    /\ step[q] = "handled"
    /\ acked' = [acked EXCEPT ![q][hand[q]] = @ + 1]
    /\ hand' = [hand EXCEPT ![q] = NoMessage]
    /\ step' = [step EXCEPT ![q] = "idle"]
    /\ UNCHANGED <<ready, retryQ, moved, dead, routed, expired, faults>>

Fault == faults < MaxFaults /\ faults' = faults + 1

(* The ack raises in the worker's try block: handled, yet unprocessed.     *)
CommitRaises(q) ==
    /\ step[q] = "handled"
    /\ Fault
    /\ step' = [step EXCEPT ![q] = "unsettled"]
    /\ UNCHANGED <<ready, hand, retryQ, acked, moved, dead, routed, expired>>

(* Settling a malformed message ends with its parse error propagating out  *)
(* of the worker's "async for": the worker task is over.                   *)
AfterSettling(m) == IF m[1] \in Malformed THEN "stopped" ELSE "idle"

(* Mutant: the last rejection requeues.                                    *)
GiveUp_Requeues(q) ==
    /\ step[q] = "unsettled"
    /\ hand[q][2] >= MaxRetries
    /\ ready' = [ready EXCEPT ![q][hand[q]] = @ + 1]
    /\ hand' = [hand EXCEPT ![q] = NoMessage]
    /\ step' = [step EXCEPT ![q] = AfterSettling(hand[q])]
    /\ UNCHANGED <<retryQ, acked, moved, dead, routed, expired, faults>>

(* Mutant: the generator's finally block settles a dead letter again.      *)
GiveUp_KeepsMessage(q) ==
    /\ step[q] = "unsettled"
    /\ hand[q][2] >= MaxRetries
    /\ dead' = [dead EXCEPT ![q][hand[q]] = @ + 1]
    /\ step' = [step EXCEPT ![q] = AfterSettling(hand[q])]
    /\ UNCHANGED <<ready, hand, retryQ, acked, moved, routed, expired, faults>>

(***************************************************************************)
(* retry_or_dead_letter, in its two branches.  The copy for mas.retry is   *)
(* published before the original is acknowledged.                          *)
(***************************************************************************)
GiveUp(q) ==
    /\ step[q] = "unsettled"
    /\ hand[q][2] >= MaxRetries
    /\ dead' = [dead EXCEPT ![q][hand[q]] = @ + 1]
    /\ hand' = [hand EXCEPT ![q] = NoMessage]
    /\ step' = [step EXCEPT ![q] = AfterSettling(hand[q])]
    /\ UNCHANGED <<ready, retryQ, acked, moved, routed, expired, faults>>

(* Mutant: x-retry-count is copied, not incremented.                       *)
RetryOf_SameCount(m) == m

RetryOf(m) == <<m[1], m[2] + 1>>

(* Mutant: the original is acknowledged though no copy was published.      *)
PublishRetry_NotPublished(q) ==
    /\ step[q] = "unsettled"
    /\ hand[q][2] < MaxRetries
    /\ step' = [step EXCEPT ![q] = "copied"]
    /\ UNCHANGED <<ready, hand, retryQ, acked, moved, dead, routed, expired, faults>>

PublishRetry(q) ==
    /\ step[q] = "unsettled"
    /\ hand[q][2] < MaxRetries
    /\ retryQ' = [retryQ EXCEPT ![RetryOf(hand[q])] = @ + 1]
    /\ step' = [step EXCEPT ![q] = "copied"]
    /\ UNCHANGED <<ready, hand, acked, moved, dead, routed, expired, faults>>

AckOriginal(q) ==
    /\ step[q] = "copied"
    /\ moved' = [moved EXCEPT ![q][hand[q]] = @ + 1]
    /\ hand' = [hand EXCEPT ![q] = NoMessage]
    /\ step' = [step EXCEPT ![q] = AfterSettling(hand[q])]
    /\ UNCHANGED <<ready, retryQ, acked, dead, routed, expired, faults>>

(* A broker call of retry_or_dead_letter raises inside the generator: the  *)
(* worker task ends with the message unacknowledged, its retry copy        *)
(* published or not; /ready keeps answering ok.                            *)
SettlingRaises(q) ==
    /\ step[q] \in {"unsettled", "copied"}
    /\ Fault
    /\ step' = [step EXCEPT ![q] = "stopped"]
    /\ UNCHANGED <<ready, hand, retryQ, acked, moved, dead, routed, expired>>

(* The agent's process dies and is started again: the broker requeues what *)
(* it had not acknowledged, and a new worker task starts.                  *)
Restart(q) ==
    /\ step[q] # "idle"
    /\ Fault
    /\ ready' = IF hand[q] = NoMessage THEN ready
                ELSE [ready EXCEPT ![q][hand[q]] = @ + 1]
    /\ hand' = [hand EXCEPT ![q] = NoMessage]
    /\ step' = [step EXCEPT ![q] = "idle"]
    /\ UNCHANGED <<retryQ, acked, moved, dead, routed, expired>>

(* queue.retry's x-message-ttl elapses: the copy is dead-lettered to       *)
(* mas.events, which routes it to EVERY queue bound to its key.            *)
RetryTtl(m) ==
    /\ retryQ[m] > 0
    /\ retryQ' = [retryQ EXCEPT ![m] = @ - 1]
    /\ Route(m)
    /\ UNCHANGED <<hand, step, acked, moved, dead, expired, faults>>

(* The per-message expiration is set by publish() only, so only a first    *)
(* delivery can outlive it in its queue; it is then dead-lettered.         *)
BrokerTtl(q, e) ==
    /\ ready[q][<<e, 0>>] > 0
    /\ ready' = [ready EXCEPT ![q][<<e, 0>>] = @ - 1]
    /\ dead' = [dead EXCEPT ![q][<<e, 0>>] = @ + 1]
    /\ UNCHANGED <<hand, step, retryQ, acked, moved, routed, expired, faults>>

Take(q, m) == TakeMalformed(q, m) \/ TakeExpired(q, m) \/ TakeForHandling(q, m)
EndHandling(q) == HandlerReturns(q) \/ HandlerRaises(q)
Settle(q) == Commit(q) \/ GiveUp(q) \/ PublishRetry(q) \/ AckOriginal(q)
Failure(q) == CommitRaises(q) \/ SettlingRaises(q) \/ Restart(q)

Next ==
    \/ \E e \in Events : Publish(e) \/ EnvelopeExpires(e)
    \/ \E q \in Queues : EndHandling(q) \/ Settle(q) \/ Failure(q)
    \/ \E q \in Queues, m \in Messages : Take(q, m)
    \/ \E m \in Messages : RetryTtl(m)
    \/ \E q \in Queues, e \in Events : BrokerTtl(q, e)

Spec == Init /\ [][Next]_vars

(***************************************************************************)
(* Fairness: the consumer's loop keeps running and each handler comes to   *)
(* an end (asyncio schedules every ready task; every handler's loop is     *)
(* bounded); the broker delivers to an idle consumer and applies the TTL   *)
(* of queue.retry.  Nothing forces a publication, an expiry or a fault.    *)
(***************************************************************************)
Fairness ==
    /\ \A q \in Queues :
         /\ WF_vars(EndHandling(q))
         /\ WF_vars(Settle(q))
         /\ WF_vars(\E m \in Messages : Take(q, m))
    /\ \A m \in Messages : WF_vars(RetryTtl(m))

FairSpec == Spec /\ Fairness
-----------------------------------------------------------------------------
(***************************************************************************)
(* Properties.                                                             *)
(***************************************************************************)

(* Every copy the exchange ever put into a queue is in exactly one place:  *)
(* waiting, in its consumer's hands, acknowledged, exchanged for a retry   *)
(* copy, or dead-lettered.  A settling path of events() that settles a     *)
(* message twice, or forgets one, breaks the account.                      *)
InHand(q, m) == IF hand[q] = m THEN 1 ELSE 0

Conservation ==
    \A q \in Queues, m \in Messages :
        ready[q][m] + InHand(q, m) + acked[q][m] + moved[q][m] + dead[q][m]
            = IF q \in BoundTo[m[1]] THEN routed[m] ELSE 0

(* At least once: a published event keeps, for each bound queue, a copy    *)
(* that will still be handled, or it was acknowledged or dead-lettered     *)
(* there.  A message whose retry copy is already out does not count, so    *)
(* the order "publish the copy, then ack" of retry_or_dead_letter matters. *)
Accounted(q, e) ==
    \E r \in Levels :
        \/ ready[q][<<e, r>>] > 0
        \/ retryQ[<<e, r>>] > 0
        \/ acked[q][<<e, r>>] > 0
        \/ dead[q][<<e, r>>] > 0
        \/ hand[q] = <<e, r>> /\ step[q] # "copied"

NoMessageLost ==
    \A e \in Events : \A q \in BoundTo[e] :
        routed[<<e, 0>>] > 0 => Accounted(q, e)

(* The transport promises what EventDelivery says: what a queue is owed is *)
(* settled in this queue only, by its consumer or its TTL, after a retry   *)
(* as before it, and only what is still owed circulates again.  A bound    *)
(* queue is owed what waits for it in queue.retry.                         *)
AtHand(q, m) == ready[q][m] > 0 \/ hand[q] = m \/ (retryQ[m] > 0 /\ q \in BoundTo[m[1]])

Delivery == INSTANCE EventDelivery WITH
    published <- {e \in Events : routed[<<e, 0>>] > 0},
    owed <- {p \in Queues \X Events : \E r \in Levels : AtHand(p[1], <<p[2], r>>)},
    handled <- {p \in Queues \X Events : \E r \in Levels : acked[p[1]][<<p[2], r>>] > 0},
    dropped <- {p \in Queues \X Events : \E r \in Levels : dead[p[1]][<<p[2], r>>] > 0}

ImplementsDelivery == Delivery!Spec

(* The retry storm is bounded: a retry goes back through the exchange, so  *)
(* k bound consumers that all fail multiply the copies of an event by k    *)
(* from one level to the next, and each failure of the settling calls can  *)
(* add one more.  At level r there are thus at most (k + faults) ^ r.      *)
RetryStormBounded ==
    \A e \in Events, r \in Levels :
        routed[<<e, r>>] + retryQ[<<e, r>>]
            <= IF r = 0 THEN 1 ELSE Cardinality(BoundTo[e]) * routed[<<e, r - 1>>] + faults

(* A published event is eventually acknowledged or dead-lettered by each   *)
(* bound consumer, unless that consumer's worker task has ended.           *)
Settled(q, e) == \E r \in Levels : acked[q][<<e, r>>] + dead[q][<<e, r>>] > 0

EventuallySettled ==
    \A e \in Events : \A q \in BoundTo[e] :
        (routed[<<e, 0>>] > 0) ~> (Settled(q, e) \/ step[q] = "stopped")

(* The retry limit works: the circulation of retry copies dies out, and    *)
(* every queue whose worker is still alive ends up empty for good.         *)
Drained(q) == step[q] = "idle" /\ \A m \in Messages : ready[q][m] = 0

Quiesces ==
    <>[](/\ \A m \in Messages : retryQ[m] = 0
         /\ \A q \in Queues : Drained(q) \/ step[q] = "stopped")

(* What README.md:22 promises of redelivery: "up to 3 attempts", then the  *)
(* dead letter queue: no queue sees an event more than 1 + MaxRetries      *)
(* times while nothing but handlers fails.                                 *)
RedeliveriesWithinLimit ==
    \A e \in Events : faults = 0 =>
        LET Deliveries[r \in Levels] ==
                routed[<<e, r>>] + IF r = 0 THEN 0 ELSE Deliveries[r - 1]
        IN  Deliveries[MaxRetries] <= 1 + MaxRetries
=============================================================================
