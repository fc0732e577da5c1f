--------------------------- MODULE ReliableDelivery ---------------------------
(***************************************************************************)
(* What the services count on when they write to the outbox: a message is  *)
(* handed to Kafka only once the transaction that wrote it has committed,  *)
(* and every committed message that Kafka does not refuse is handed to it  *)
(* in the end.                                                             *)
(***************************************************************************)
CONSTANTS Events, Refused

VARIABLES committed, published

Init == committed = {} /\ published = {}

Commit(e) ==
    /\ e \notin committed
    /\ committed' = committed \cup {e}
    /\ UNCHANGED published

Publish(e) ==
    /\ e \in committed \ published
    /\ published' = published \cup {e}
    /\ UNCHANGED committed

Next == \E e \in Events : Commit(e) \/ Publish(e)

Safe == Init /\ [][Next]_<<committed, published>>

Spec == Safe /\ \A e \in Events \ Refused : WF_<<committed, published>>(Publish(e))
=============================================================================
