--------------------------- MODULE OrderLifecycle ---------------------------
(***************************************************************************)
(* What order-service promises to the rest of the system about an order,   *)
(* without its handlers, tasks and races: the order's status, the outcome  *)
(* of its saga and the announcements (order.created, order.completed,      *)
(* order.failed, order.cancelled) change together, one order at a time.    *)
(* An order is confirmed or settled while its saga is RUNNING, and         *)
(* cancelled while it is PENDING or CONFIRMED.                             *)
(*                                                                         *)
(* Nobody holds a lock between reading and writing, so the promise has an  *)
(* exception: who had read the order in time may write later, over what    *)
(* has become of it.  late and lateCancel are the orders of which somebody *)
(* may.                                                                    *)
(***************************************************************************)
CONSTANT Orders

VARIABLES
    status,     \* what GET /orders/:id shows, "NONE" before the order exists
    outcome,    \* "NONE", "RUNNING", "COMPLETED" or "FAILED"
    announced,  \* announcements made so far
    late,       \* settled orders of which a reply or a timeout is underway
    lateCancel  \* orders past cancelling of which a cancellation is underway

vars == <<status, outcome, announced, late, lateCancel>>

Announce(t, o) == announced' = announced \cup {[topic |-> t, order |-> o]}

Init ==
    /\ status = [o \in Orders |-> "NONE"]
    /\ outcome = [o \in Orders |-> "NONE"]
    /\ announced = {} /\ late = {} /\ lateCancel = {}

Open(o) == outcome[o] = "RUNNING" \/ o \in late
Cancellable(o) == status[o] \in {"PENDING", "CONFIRMED"} \/ o \in lateCancel

\* Only who could write before the step can be underway after it.
Underway(o) ==
    /\ late' \in {late \ {o}, late \cup {o}} /\ (o \in late' => Open(o))
    /\ lateCancel' \in {lateCancel \ {o}, lateCancel \cup {o}}
    /\ (o \in lateCancel' => Cancellable(o))

Place(o) ==
    /\ status[o] = "NONE"
    /\ status' = [status EXCEPT ![o] = "PENDING"]
    /\ outcome' = [outcome EXCEPT ![o] = "RUNNING"]
    /\ Announce("order.created", o)
    /\ UNCHANGED <<late, lateCancel>>

Confirm(o) ==
    /\ Open(o)
    /\ status' = [status EXCEPT ![o] = "CONFIRMED"]
    /\ Underway(o)
    /\ UNCHANGED <<outcome, announced>>

Cancel(o) ==
    /\ Cancellable(o)
    /\ status' = [status EXCEPT ![o] = "CANCELLED"]
    /\ Announce("order.cancelled", o)
    /\ Underway(o)
    /\ UNCHANGED outcome

Settle(o, result, topic) ==
    /\ Open(o)
    /\ status' = [status EXCEPT ![o] = result]
    /\ outcome' = [outcome EXCEPT ![o] = result]
    /\ Announce(topic, o)
    /\ Underway(o)

\* The last of those underway gives up.
GiveUp(o) ==
    /\ \/ late' = late \ {o} /\ UNCHANGED lateCancel
       \/ lateCancel' = lateCancel \ {o} /\ UNCHANGED late
    /\ UNCHANGED <<status, outcome, announced>>

Next ==
    \E o \in Orders :
        \/ Place(o)
        \/ Confirm(o)
        \/ Cancel(o)
        \/ Settle(o, "COMPLETED", "order.completed")
        \/ Settle(o, "FAILED", "order.failed")
        \/ GiveUp(o)

Spec == Init /\ [][Next]_vars
=============================================================================
