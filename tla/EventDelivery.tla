----------------------------- MODULE EventDelivery -----------------------------
(***************************************************************************)
(* What the transport promises to the agents, with nothing said of copies, *)
(* retry counts and acknowledgements.                                      *)
(*                                                                         *)
(* A published event is owed to each queue bound to it.  It stays owed     *)
(* until this queue's consumer handled it or dropped it, which it may then *)
(* have to do once more.  Only where an event is still owed can it be      *)
(* owed again, and then to every bound queue.                              *)
(***************************************************************************)
CONSTANTS Events, Queues, BoundTo

VARIABLES
    published,
    owed,       \* pairs of a queue and an event it still has to settle
    handled,    \* pairs of which a copy was handled
    dropped     \* pairs of which a copy went to the dead letters

vars == <<published, owed, handled, dropped>>

OwedToAll(e) == owed \cup (BoundTo[e] \X {e})

Init == published = {} /\ owed = {} /\ handled = {} /\ dropped = {}

Publish(e) ==
    /\ e \notin published
    /\ published' = published \cup {e}
    /\ owed' = OwedToAll(e)
    /\ UNCHANGED <<handled, dropped>>

(* Another copy may be left, which is owed as well.                        *)
Settles(q, e) == <<q, e>> \in owed /\ owed' \in {owed, owed \ {<<q, e>>}}

Handle(q, e) ==
    /\ Settles(q, e)
    /\ handled' = handled \cup {<<q, e>>}
    /\ UNCHANGED <<published, dropped>>

Drop(q, e) ==
    /\ Settles(q, e)
    /\ dropped' = dropped \cup {<<q, e>>}
    /\ UNCHANGED <<published, handled>>

Again(q, e) ==
    /\ <<q, e>> \in owed
    /\ owed' = OwedToAll(e)
    /\ UNCHANGED <<published, handled, dropped>>

Next ==
    \/ \E e \in Events : Publish(e)
    \/ \E q \in Queues, e \in Events : Handle(q, e) \/ Drop(q, e) \/ Again(q, e)

Spec == Init /\ [][Next]_vars
================================================================================
