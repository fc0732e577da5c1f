---------------------------- MODULE OrderService ----------------------------
(***************************************************************************)
(* order-service: the orders and saga_states tables, the rows it writes to *)
(* the transactional outbox, and everything that changes them: the HTTP    *)
(* requests that create and cancel an order, the Kafka consumer that       *)
(* drives the saga with the participants' replies, and the timer that      *)
(* fails sagas older than five minutes.                                    *)
(*                                                                         *)
(* Every handler first reads and later, after an await, writes in one      *)
(* transaction.  No read locks its row, so each handler is two actions     *)
(* here, with the handlers of the other processes free to run in between.  *)
(* Within the second half the UPDATE of the saga row holds its lock until  *)
(* COMMIT: the transaction is one step for every other process.            *)
(*                                                                         *)
(* events is the set of messages ever written to the outbox by any         *)
(* service.  The relays and Kafka deliver each at least once, in any       *)
(* order: a message is never removed and a consumer may take any message   *)
(* of its topics any number of times.  How the relays achieve this is the  *)
(* subject of another module.                                              *)
(***************************************************************************)
EXTENDS Naturals, FiniteSets

CONSTANTS
    Orders,      \* ids the database may generate
    Users,       \* ids of customers
    Keys,        \* values of the X-Idempotency-Key header
    Requests,    \* HTTP requests that may be in progress at a time
    Consumers,   \* members of the consumer group order-service-saga
    Sweepers,    \* runs of checkTimeouts that may overlap
    SweepBatch,  \* sagas one run of checkTimeouts takes (20 in the code)
    MaxAborts,   \* bound on handlers that fail between read and commit
    Webhooks,    \* TRUE: an administrator uses POST /payments/webhook/simulate
    NoOrder, NoKey, Idle

VARIABLES
    status,      \* orders.status, "NONE" while the row does not exist
    placedBy,    \* orders.userId and orders.idempotencyKey
    saga,        \* saga_states: step and status
    expired,     \* orders whose saga_states.timeoutAt has passed
    events,      \* messages written to the outbox, by any service
    request,     \* what each HTTP request has decided from its read
    delivery,    \* the message each consumer has found a running saga for
    sweep,       \* the sagas each sweep still has to fail, and the one it read
    aborts       \* handlers that failed so far

vars == <<status, placedBy, saga, expired, events, request, delivery, sweep, aborts>>

OrderStatus == {"PENDING", "CONFIRMED", "FAILED", "CANCELLED", "COMPLETED"}
SagaStep == {"STARTED", "INVENTORY_RESERVE_SENT", "INVENTORY_RESERVED",
             "PAYMENT_CHARGE_SENT", "PAYMENT_COMPLETED", "COMPLETED",
             "COMPENSATING", "FAILED"}
SagaStatus == {"RUNNING", "COMPLETED", "FAILED"}
NoSaga == [step |-> "NONE", status |-> "NONE"]

Commands == {"inventory.reserve", "payment.charge", "inventory.release"}
Announcements == {"order.created", "order.completed", "order.failed",
                  "order.cancelled"}
InventoryReplies == {"inventory.reserved", "inventory.reservation-failed"}
PaymentReplies == {"payment.completed", "payment.failed"}
Topics == Commands \cup Announcements \cup InventoryReplies \cup PaymentReplies
Event == [topic : Topics, order : Orders]

Msg(t, o) == [topic |-> t, order |-> o]
Sent(t, o) == Msg(t, o) \in events
Exists(o) == status[o] # "NONE"
Running(o) == saga[o].status = "RUNNING"

ASSUME ConstantsAssumption ==
    /\ SweepBatch \in Nat \ {0}
    /\ MaxAborts \in Nat
    /\ Webhooks \in BOOLEAN
    /\ NoOrder \notin Orders
    /\ NoKey \notin Keys
    /\ Idle \notin Event
    /\ Idle \notin [op : {"create"}, user : Users, key : Keys \cup {NoKey}]
    /\ Idle \notin [op : {"cancel"}, order : Orders]

NoSweep == [todo |-> {}, reading |-> NoOrder]

Init ==
    /\ status = [o \in Orders |-> "NONE"]
    /\ placedBy = [o \in Orders |-> Idle]
    /\ saga = [o \in Orders |-> NoSaga]
    /\ expired = {}
    /\ events = {}
    /\ request = [r \in Requests |-> Idle]
    /\ delivery = [c \in Consumers |-> Idle]
    /\ sweep = [s \in Sweepers |-> NoSweep]
    /\ aborts = 0

-----------------------------------------------------------------------------
(* POST /orders *)

\* The lookup outside the transaction: a known (user, key) pair answers with
\* the stored order and changes nothing, anything else goes on to the insert.
CreateLookup(r, u, k) ==
    /\ request[r] = Idle
    /\ \A o \in Orders : k # NoKey => placedBy[o] # [user |-> u, key |-> k]
    /\ request' = [request EXCEPT ![r] = [op |-> "create", user |-> u, key |-> k]]
    /\ UNCHANGED <<status, placedBy, saga, expired, events, delivery, sweep, aborts>>

\* idx_orders_idempotency_key is unique over the keys of all users.
KeyTaken(k) == k # NoKey /\ \E o \in Orders : Exists(o) /\ placedBy[o].key = k

\* Wrong: the charge leaves with the reservation, before stock is known.
CreateAndCharge(r, o) ==
    /\ request[r] # Idle /\ request[r].op = "create"
    /\ ~Exists(o)
    /\ ~KeyTaken(request[r].key)
    /\ status' = [status EXCEPT ![o] = "PENDING"]
    /\ placedBy' = [placedBy EXCEPT ![o] = [user |-> request[r].user,
                                            key |-> request[r].key]]
    /\ saga' = [saga EXCEPT ![o] = [step |-> "STARTED", status |-> "RUNNING"]]
    /\ events' = events \cup {Msg(t, o) : t \in {"order.created", "inventory.reserve",
                                                 "payment.charge"}}
    /\ request' = [request EXCEPT ![r] = Idle]
    /\ UNCHANGED <<expired, delivery, sweep, aborts>>

\* Order, saga and the two outbox rows are inserted in one transaction.
CreateCommit(r, o) ==
    /\ request[r] # Idle /\ request[r].op = "create"
    /\ ~Exists(o)
    /\ ~KeyTaken(request[r].key)
    /\ status' = [status EXCEPT ![o] = "PENDING"]
    /\ placedBy' = [placedBy EXCEPT ![o] = [user |-> request[r].user,
                                            key |-> request[r].key]]
    /\ saga' = [saga EXCEPT ![o] = [step |-> "STARTED", status |-> "RUNNING"]]
    /\ events' = events \cup {Msg("order.created", o), Msg("inventory.reserve", o)}
    /\ request' = [request EXCEPT ![r] = Idle]
    /\ UNCHANGED <<expired, delivery, sweep, aborts>>

\* The insert breaks the unique index: rollback, and the error is rethrown.
CreateConflict(r) ==
    /\ request[r] # Idle /\ request[r].op = "create"
    /\ KeyTaken(request[r].key)
    /\ request' = [request EXCEPT ![r] = Idle]
    /\ UNCHANGED <<status, placedBy, saga, expired, events, delivery, sweep, aborts>>

-----------------------------------------------------------------------------
(* PATCH /orders/:id/cancel *)

Cancellable == {"PENDING", "CONFIRMED"}

\* The status is checked on a row read before the transaction starts.
CancelLookup(r, u, admin, o) ==
    /\ request[r] = Idle
    /\ Exists(o)
    /\ admin \/ placedBy[o].user = u
    /\ status[o] \in Cancellable
    /\ request' = [request EXCEPT ![r] = [op |-> "cancel", order |-> o]]
    /\ UNCHANGED <<status, placedBy, saga, expired, events, delivery, sweep, aborts>>

\* The update carries no condition on the status and leaves the saga alone.
CancelCommit(r) ==
    /\ request[r] # Idle /\ request[r].op = "cancel"
    /\ LET o == request[r].order IN
         /\ status' = [status EXCEPT ![o] = "CANCELLED"]
         /\ events' = events \cup {Msg("order.cancelled", o)}
    /\ request' = [request EXCEPT ![r] = Idle]
    /\ UNCHANGED <<placedBy, saga, expired, delivery, sweep, aborts>>

-----------------------------------------------------------------------------
(* The saga consumer *)

\* Wrong: the status of the saga is not checked.
ReceiveAny(c, m) ==
    /\ delivery[c] = Idle
    /\ m \in events /\ m.topic \in InventoryReplies \cup PaymentReplies
    /\ delivery' = [delivery EXCEPT ![c] = m]
    /\ UNCHANGED <<status, placedBy, saga, expired, events, request, sweep, aborts>>

\* A reply arrives; the handler goes on only if it reads a running saga.
Receive(c, m) ==
    /\ delivery[c] = Idle
    /\ m \in events /\ m.topic \in InventoryReplies \cup PaymentReplies
    /\ Running(m.order)
    /\ delivery' = [delivery EXCEPT ![c] = m]
    /\ UNCHANGED <<status, placedBy, saga, expired, events, request, sweep, aborts>>

Handling(c, t) == delivery[c] # Idle /\ delivery[c].topic = t

\* The step is written twice in the transaction; only the second is seen.
OnInventoryReserved(c) ==
    /\ Handling(c, "inventory.reserved")
    /\ LET o == delivery[c].order IN
         /\ saga' = [saga EXCEPT ![o] = [@ EXCEPT !.step = "PAYMENT_CHARGE_SENT"]]
         /\ status' = [status EXCEPT ![o] = "CONFIRMED"]
         /\ events' = events \cup {Msg("payment.charge", o)}
    /\ delivery' = [delivery EXCEPT ![c] = Idle]
    /\ UNCHANGED <<placedBy, expired, request, sweep, aborts>>

OnPaymentCompleted(c) ==
    /\ Handling(c, "payment.completed")
    /\ LET o == delivery[c].order IN
         /\ saga' = [saga EXCEPT ![o] = [step |-> "COMPLETED", status |-> "COMPLETED"]]
         /\ status' = [status EXCEPT ![o] = "COMPLETED"]
         /\ events' = events \cup {Msg("order.completed", o)}
    /\ delivery' = [delivery EXCEPT ![c] = Idle]
    /\ UNCHANGED <<placedBy, expired, request, sweep, aborts>>

\* Wrong: a failed payment is not compensated.
OnPaymentFailedOnly(c) ==
    /\ Handling(c, "payment.failed")
    /\ LET o == delivery[c].order IN
         /\ saga' = [saga EXCEPT ![o] = [step |-> "COMPENSATING", status |-> "FAILED"]]
         /\ status' = [status EXCEPT ![o] = "FAILED"]
         /\ events' = events \cup {Msg("order.failed", o)}
    /\ delivery' = [delivery EXCEPT ![c] = Idle]
    /\ UNCHANGED <<placedBy, expired, request, sweep, aborts>>

OnPaymentFailed(c) ==
    /\ Handling(c, "payment.failed")
    /\ LET o == delivery[c].order IN
         /\ saga' = [saga EXCEPT ![o] = [step |-> "COMPENSATING", status |-> "FAILED"]]
         /\ status' = [status EXCEPT ![o] = "FAILED"]
         /\ events' = events \cup {Msg("inventory.release", o), Msg("order.failed", o)}
    /\ delivery' = [delivery EXCEPT ![c] = Idle]
    /\ UNCHANGED <<placedBy, expired, request, sweep, aborts>>

\* Wrong: the orders of the user are updated.
FailSagaOfUser(o) ==
    /\ saga' = [saga EXCEPT ![o] = [step |-> "FAILED", status |-> "FAILED"]]
    /\ status' = [p \in Orders |->
                     IF Exists(p) /\ placedBy[p].user = placedBy[o].user THEN "FAILED"
                     ELSE status[p]]
    /\ events' = events \cup {Msg("order.failed", o)}

\* failSaga's transaction: the participants are told nothing.
FailSaga(o) ==
    /\ saga' = [saga EXCEPT ![o] = [step |-> "FAILED", status |-> "FAILED"]]
    /\ status' = [status EXCEPT ![o] = "FAILED"]
    /\ events' = events \cup {Msg("order.failed", o)}

OnInventoryFailed(c) ==
    /\ Handling(c, "inventory.reservation-failed")
    /\ FailSaga(delivery[c].order)
    /\ delivery' = [delivery EXCEPT ![c] = Idle]
    /\ UNCHANGED <<placedBy, expired, request, sweep, aborts>>

-----------------------------------------------------------------------------
(* The timeout sweep *)

\* Five minutes pass since the order was created.
Expire(o) ==
    /\ Exists(o) /\ o \notin expired
    /\ expired' = expired \cup {o}
    /\ UNCHANGED <<status, placedBy, saga, events, request, delivery, sweep, aborts>>

\* Wrong: sagas that have sent a charge are not looked at.
OverdueBeforeCharge == {o \in expired : saga[o].step = "STARTED"}

Overdue == {o \in expired : Running(o)}

\* checkTimeouts lists overdue sagas, at most SweepBatch of them.
SweepFind(s, found) ==
    /\ sweep[s] = NoSweep
    /\ found # {} /\ found \subseteq Overdue
    /\ found = Overdue \/ Cardinality(found) = SweepBatch
    /\ Cardinality(found) <= SweepBatch
    /\ sweep' = [sweep EXCEPT ![s].todo = found]
    /\ UNCHANGED <<status, placedBy, saga, expired, events, request, delivery, aborts>>

\* compensateTimedOut reads the saga again, and returns if it is settled.
SweepRead(s, o) ==
    /\ sweep[s].reading = NoOrder
    /\ o \in sweep[s].todo
    /\ sweep' = [sweep EXCEPT ![s] = [todo |-> @.todo \ {o},
                                      reading |-> IF Running(o) THEN o ELSE NoOrder]]
    /\ UNCHANGED <<status, placedBy, saga, expired, events, request, delivery, aborts>>

CompensateTimedOut(s) ==
    /\ sweep[s].reading # NoOrder
    /\ FailSaga(sweep[s].reading)
    /\ sweep' = [sweep EXCEPT ![s].reading = NoOrder]
    /\ UNCHANGED <<placedBy, expired, request, delivery, aborts>>

-----------------------------------------------------------------------------
(* Failures.  A lost connection, a serialisation of the payload that        *)
(* throws, or the death of the process between read and commit: the         *)
(* transaction is rolled back.  A consumer and a sweep log the error and    *)
(* go on with the next message or saga; a request answers 500.              *)

AbortRequest(r) ==
    /\ request[r] # Idle /\ aborts < MaxAborts
    /\ request' = [request EXCEPT ![r] = Idle]
    /\ aborts' = aborts + 1
    /\ UNCHANGED <<status, placedBy, saga, expired, events, delivery, sweep>>

AbortDelivery(c) ==
    /\ delivery[c] # Idle /\ aborts < MaxAborts
    /\ delivery' = [delivery EXCEPT ![c] = Idle]
    /\ aborts' = aborts + 1
    /\ UNCHANGED <<status, placedBy, saga, expired, events, request, sweep>>

AbortSweep(s) ==
    /\ sweep[s].reading # NoOrder /\ aborts < MaxAborts
    /\ sweep' = [sweep EXCEPT ![s].reading = NoOrder]
    /\ aborts' = aborts + 1
    /\ UNCHANGED <<status, placedBy, saga, expired, events, request, delivery>>

-----------------------------------------------------------------------------
(* The participants, as far as order-service sees them.  A reply answers a *)
(* command; both replies to one command are possible (a duplicate reserve  *)
(* may succeed after the first has failed).                                *)

InventoryReply(t, o) ==
    /\ t \in InventoryReplies
    /\ Sent("inventory.reserve", o) /\ ~Sent(t, o)
    /\ events' = events \cup {Msg(t, o)}
    /\ UNCHANGED <<status, placedBy, saga, expired, request, delivery, sweep, aborts>>

\* simulateWebhook publishes a payment reply no charge has asked for.
PaymentReply(t, o) ==
    /\ t \in PaymentReplies
    /\ Sent("payment.charge", o) \/ (Webhooks /\ Exists(o))
    /\ ~Sent(t, o)
    /\ events' = events \cup {Msg(t, o)}
    /\ UNCHANGED <<status, placedBy, saga, expired, request, delivery, sweep, aborts>>

-----------------------------------------------------------------------------
RequestStep(r) ==
    \/ \E u \in Users, k \in Keys \cup {NoKey} : CreateLookup(r, u, k)
    \/ \E o \in Orders : CreateCommit(r, o)
    \/ CreateConflict(r)
    \/ \E u \in Users, admin \in BOOLEAN, o \in Orders : CancelLookup(r, u, admin, o)
    \/ CancelCommit(r)
    \/ AbortRequest(r)

Handle(c) ==
    \/ OnInventoryReserved(c)
    \/ OnInventoryFailed(c)
    \/ OnPaymentCompleted(c)
    \/ OnPaymentFailed(c)

ConsumerStep(c) ==
    \/ \E m \in events : Receive(c, m)
    \/ Handle(c)
    \/ AbortDelivery(c)

SweepStep(s) ==
    \/ \E found \in SUBSET Overdue : SweepFind(s, found)
    \/ \E o \in Orders : SweepRead(s, o)
    \/ CompensateTimedOut(s)

ServiceStep ==
    \/ \E r \in Requests : RequestStep(r)
    \/ \E c \in Consumers : ConsumerStep(c)
    \/ \E s \in Sweepers : SweepStep(s) \/ AbortSweep(s)
    \/ \E o \in Orders : Expire(o)

ParticipantStep ==
    \E o \in Orders :
        \/ \E t \in InventoryReplies : InventoryReply(t, o)
        \/ \E t \in PaymentReplies : PaymentReply(t, o)

Next == ServiceStep \/ ParticipantStep

Spec == Init /\ [][Next]_vars

\* Time passes and the timer, which setInterval fires for as long as the
\* process lives, runs its sweeps to the end.  Nothing else is assumed: the
\* participants may never answer and no message has to be delivered.
Fairness ==
    /\ \A o \in Orders : WF_vars(Expire(o))
    /\ \A s \in Sweepers : WF_vars(SweepStep(s))

FairSpec == Spec /\ Fairness
-----------------------------------------------------------------------------
(* Properties *)

\* The settled orders of which a reply or a timeout is still being handled, and
\* the orders past cancelling of which a cancellation is.
Handled(o) ==
    \/ \E c \in Consumers : delivery[c] # Idle /\ delivery[c].order = o
    \/ \E s \in Sweepers : sweep[s].reading = o
Cancelling(o) == \E r \in Requests : request[r] = [op |-> "cancel", order |-> o]

Lifecycle ==
    INSTANCE OrderLifecycle WITH
        outcome <- [o \in Orders |-> saga[o].status],
        announced <- {e \in events : e.topic \in Announcements},
        late <- {o \in Orders : Handled(o) /\ ~Running(o)},
        lateCancel <- {o \in Orders : Cancelling(o) /\ status[o] \notin Cancellable}

\* The service implements the lifecycle: no interleaving of its handlers
\* changes an order without the announcement, or two orders at a time, or one
\* that was settled, or past cancelling, when the handler read it.
ImplementsLifecycle == Lifecycle!Spec

Request ==
    {Idle} \cup [op : {"create"}, user : Users, key : Keys \cup {NoKey}]
           \cup [op : {"cancel"}, order : Orders]

\* Types.  Of the eight steps a saga can have in the database, those no
\* committed transaction leaves behind are excluded.
TypeOK ==
    /\ status \in [Orders -> OrderStatus \cup {"NONE"}]
    /\ placedBy \in [Orders -> {Idle} \cup [user : Users, key : Keys \cup {NoKey}]]
    /\ saga \in [Orders -> [step : {"NONE", "STARTED", "PAYMENT_CHARGE_SENT",
                                    "COMPLETED", "COMPENSATING", "FAILED"},
                            status : SagaStatus \cup {"NONE"}]]
    /\ expired \subseteq Orders
    /\ events \subseteq Event
    /\ request \in [Requests -> Request]
    /\ delivery \in [Consumers -> {Idle} \cup Event]
    /\ sweep \in [Sweepers -> [todo : SUBSET Orders, reading : Orders \cup {NoOrder}]]
    /\ aborts \in 0 .. MaxAborts

\* What a handler carries across its await stays true until it writes: the
\* message it holds was sent, its order exists, a sweep holds only orders
\* whose time is over.  No event names an order that does not exist.
HandlersGrounded ==
    /\ \A e \in events : Exists(e.order)
    /\ \A o \in expired : Exists(o)
    /\ \A r \in Requests :
           request[r] # Idle /\ request[r].op = "cancel" => Exists(request[r].order)
    /\ \A c \in Consumers : delivery[c] # Idle => delivery[c] \in events
    /\ \A s \in Sweepers :
           /\ sweep[s].todo \subseteq expired
           /\ sweep[s].reading # NoOrder => sweep[s].reading \in expired

\* The order row and the saga row are written by handlers that read neither
\* under a lock, yet they never contradict each other: an order shows
\* COMPLETED or FAILED only while its saga has that very outcome, and PENDING
\* only while the saga runs.  (CONFIRMED and CANCELLED say nothing: a late
\* handler or a late cancellation writes them over a settled saga.)
StatusMatchesSaga ==
    \A o \in Orders :
        /\ (status[o] = "NONE") <=> (saga[o].status = "NONE")
        /\ status[o] \in {"COMPLETED", "FAILED"} => saga[o].status = status[o]
        /\ status[o] = "PENDING" => Running(o)

\* The outbox rows tell the outcome of a saga: it is announced in the
\* transaction that settles it, and after any announcement of an outcome the
\* saga never shows as running again.
OutcomeAnnounced ==
    \A o \in Orders :
        /\ saga[o].status = "COMPLETED" => Sent("order.completed", o)
        /\ saga[o].status = "FAILED" => Sent("order.failed", o)
        /\ Sent("order.completed", o) \/ Sent("order.failed", o)
               => saga[o].status \in {"COMPLETED", "FAILED"}

\* Money and stock are touched in the saga's order, whatever the order in
\* which replies arrive and however often: a charge is asked for only after
\* stock was reserved, stock is given back only after a payment failed, and
\* without simulated webhooks an order completes, or gives stock back, only if
\* its payment was asked for and its stock was reserved.
SagaCausality ==
    \A o \in Orders :
        /\ Sent("payment.charge", o) => Sent("inventory.reserved", o)
        /\ Sent("inventory.release", o) => Sent("payment.failed", o)
        /\ Sent("order.completed", o) => Sent("payment.completed", o)
        /\ ~Webhooks /\ (Sent("payment.completed", o) \/ Sent("payment.failed", o))
               => Sent("payment.charge", o)
        /\ ~Webhooks /\ (Sent("order.completed", o) \/ Sent("inventory.release", o))
               => Sent("inventory.reserved", o)

\* An order fails for a reason the code names: no stock, no payment, or five
\* minutes without an outcome.
FailureHasCause ==
    \A o \in Orders :
        Sent("order.failed", o) =>
            \/ Sent("inventory.reservation-failed", o)
            \/ Sent("payment.failed", o)
            \/ o \in expired

\* The step column tells which command left last, so an operator can trust it:
\* PAYMENT_CHARGE_SENT means the charge is in the outbox, COMPENSATING that
\* the release is; a saga that runs shows STARTED until the charge is sent.
StepTellsCommands ==
    \A o \in Orders :
        /\ saga[o].step = "PAYMENT_CHARGE_SENT" => Sent("payment.charge", o)
        /\ saga[o].step = "COMPENSATING" => Sent("inventory.release", o)
        /\ saga[o].step = "STARTED" =>
               Running(o) /\ ~Sent("payment.charge", o)

\* The inductive invariant behind the six above.
IInv ==
    /\ TypeOK
    /\ HandlersGrounded
    /\ StatusMatchesSaga
    /\ OutcomeAnnounced
    /\ SagaCausality
    /\ FailureHasCause
    /\ StepTellsCommands

\* Retries and concurrent duplicates of POST /orders never place a second
\* order under the same key.
OneOrderPerKey ==
    \A o, p \in Orders :
        Exists(o) /\ Exists(p) /\ placedBy[o].key = placedBy[p].key
            => o = p \/ placedBy[o].key = NoKey

\* Every saga is settled in the end, even if no participant ever answers and
\* deliveries and sweeps fail now and then.
SagaSettles == \A o \in Orders : Running(o) ~> ~Running(o)

-----------------------------------------------------------------------------
(* What a document says and the code does not do *)

\* docs/order-saga-flow.md draws inventory.reserved taking a PENDING order to
\* CONFIRMED, and the timeout taking a PENDING or CONFIRMED one to FAILED: a
\* cancelled order is not revived.
CancelledIsFinal ==
    [][\A o \in Orders : status[o] = "CANCELLED" => status'[o] = "CANCELLED"]_status

\* docs/order-saga-flow.md ends every path in COMPLETED or in FAILED, and lets
\* the timeout start from PENDING and CONFIRMED alone: an order is not announced
\* as completed and as failed.
OneOutcome == \A o \in Orders : ~(Sent("order.completed", o) /\ Sent("order.failed", o))

\* cancelOrder answers "Cannot cancel order in status" for an order that is no
\* longer PENDING or CONFIRMED: a completed order is not cancelled.
CompletedIsNotCancelled ==
    [][\A o \in Orders : status[o] = "COMPLETED" => status'[o] # "CANCELLED"]_status
=============================================================================
