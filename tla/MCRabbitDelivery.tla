-------------------------- MODULE MCRabbitDelivery --------------------------
(***************************************************************************)
(* Instances of RabbitDelivery for TLC.  "classified" stands for an event  *)
(* bound to two consumers (request.classified: queue.sla, queue.coordi-    *)
(* nator), "garbage" for a message body the one consumer bound to it       *)
(* cannot parse.                                                           *)
(***************************************************************************)
EXTENDS RabbitDelivery

CONSTANTS sla, coordinator, classified, garbage

MCBoundTo == [e \in Events |-> IF e = garbage THEN {coordinator} ELSE {sla, coordinator}]
=============================================================================
