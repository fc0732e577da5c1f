------------------------------- MODULE Saganet -------------------------------
(***************************************************************************)
(* The saga as it runs: order-service, inventory-service and payment-      *)
(* service, which share nothing but the messages in their outboxes.  The   *)
(* module OrderService assumes what replies the participants may send, and *)
(* Inventory what commands it may receive; here each meets the others.     *)
(*                                                                         *)
(* One consumer runs in each consumer group: what overlapping consumers do *)
(* is the subject of the services' own modules.                            *)
(***************************************************************************)
EXTENDS Integers, Sequences, FiniteSets

CONSTANTS
    Orders, Products, Items,
    Stock,      \* bound on the stock of a product
    Users, Requests, Sweepers, MaxAborts,
    Answers,    \* what the payment provider may answer
    Consumer,   \* the one consumer of each service
    NoOrder, NoKey, Idle, Free, NoRow

VARIABLES
    \* order-service
    status, placedBy, saga, expired, request, delivery, sweep, aborts,
    \* inventory-service
    row, lock, draft, reserves, releases, booked, work, edit,
    \* payment-service
    payment, inserting, charges, refunds, paying, dropped,
    \* the outbox
    events

orderVars == <<status, placedBy, saga, expired, request, delivery, sweep, aborts>>
inventoryVars == <<row, lock, draft, reserves, releases, booked, work, edit>>
paymentVars == <<payment, inserting, charges, refunds, paying, dropped>>
vars == <<orderVars, inventoryVars, paymentVars, events>>

Order ==
    INSTANCE OrderService WITH
        Keys <- {}, Consumers <- {Consumer}, SweepBatch <- 20, Webhooks <- FALSE

Inventory ==
    INSTANCE Inventory WITH
        Workers <- {Consumer}, Admins <- {}, Quantities <- {}, Deltas <- {},
        MaxQuantity <- Stock, MaxLedger <- Stock, Restock <- FALSE, Rebalances <- FALSE, aborts <- 0,
        MaxAborts <- 0

Payment ==
    INSTANCE Payment WITH
        Workers <- {Consumer}, Webhooks <- {}, lock <- inserting, work <- paying,
        aborts <- 0, MaxAborts <- 0

ASSUME ConstantsAssumption ==
    /\ Stock \in Nat /\ MaxAborts \in Nat
    /\ Answers \subseteq BOOLEAN
    /\ IsFiniteSet(Orders) /\ Items \in [Orders -> Seq(Inventory!Item)]
    /\ NoOrder \notin Orders /\ NoRow \notin Inventory!Row
    /\ Free # Consumer
    /\ Idle \notin Order!Event \cup Inventory!Work \cup Payment!Work
    /\ Idle \notin [op : {"create"}, user : Users, key : {NoKey}]
    /\ Idle \notin [op : {"cancel"}, order : Orders]

\* Products are in stock, or not, when the first order comes.
Init ==
    /\ Order!Init
    /\ booked \in [Products -> 0 .. Stock]
    /\ row = [p \in Products |->
                 [quantity |-> booked[p], reserved |-> 0, available |-> booked[p]]]
    /\ lock = [p \in Products |-> Free]
    /\ draft = [p \in Products |-> NoRow]
    /\ reserves = [o \in Orders |-> 0]
    /\ releases = [o \in Orders |-> 0]
    /\ work = [w \in {Consumer} |-> Idle]
    /\ edit = <<>>
    /\ Payment!Init

-----------------------------------------------------------------------------
OnlyOrder(A) == A /\ UNCHANGED <<inventoryVars, paymentVars>>
OnlyInventory(A) == A /\ UNCHANGED <<orderVars, paymentVars>>
OnlyPayment(A) == A /\ UNCHANGED <<orderVars, inventoryVars>>

OrderStep == OnlyOrder(Order!ServiceStep)
InventoryStep == OnlyInventory(Inventory!WorkerStep(Consumer))
PaymentStep == OnlyPayment(Payment!WorkerStep(Consumer))

Next == OrderStep \/ InventoryStep \/ PaymentStep

Spec == Init /\ [][Next]_vars

\* Every message is delivered, and a handler goes on, in each service.  (A
\* consumer takes other messages in between, hence SF.)
Replies == Order!InventoryReplies \cup Order!PaymentReplies

Fairness ==
    /\ \A t \in Replies, o \in Orders :
           SF_vars(OnlyOrder(Order!Receive(Consumer, Order!Msg(t, o))))
    /\ WF_vars(OnlyOrder(Order!Handle(Consumer)))
    /\ \A o \in Orders :
           /\ SF_vars(OnlyInventory(Inventory!ReserveBegin(Consumer, o)))
           /\ SF_vars(OnlyInventory(Inventory!ReleaseBegin(Consumer, o)))
           /\ SF_vars(OnlyPayment(Payment!ChargeBegin(Consumer, o)))
    /\ WF_vars(InventoryStep)
    /\ WF_vars(PaymentStep)

FairSpec == Spec /\ Fairness
-----------------------------------------------------------------------------
(* Properties *)

\* order-service sees of the outbox what its topics carry.
Visible == {e \in events : e.topic \in Order!Topics}

OrderView ==
    INSTANCE OrderService WITH
        Keys <- {}, Consumers <- {Consumer}, SweepBatch <- 20, Webhooks <- FALSE,
        events <- Visible

\* The participants keep to what OrderService assumes of them: whatever the
\* three services do together is a behaviour of order-service in its assumed
\* environment, so what is proved there holds here.
ImplementsOrderService == OrderView!Spec

\* In particular the orders follow their lifecycle, one order at a time, also when
\* several are under way.
FollowsLifecycle == OrderView!ImplementsLifecycle

Completed(o) == saga[o].status = "COMPLETED"
Failed(o) == saga[o].status = "FAILED"
HoldsStock(o) == reserves[o] > releases[o]

\* What order-service shows is covered by the other two services' tables: a
\* completed order is paid for, once, and its stock is held, stock is given back only
\* if the payment has failed, and nobody is charged for stock that is not held.
\* (POST /orders accepts an order without items, which leaves no ledger rows.)
OutcomeIsBacked ==
    \A o \in Orders :
        /\ Completed(o) => payment[o] = "COMPLETED" /\ charges[o] = 1
        /\ Completed(o) \/ charges[o] > 0 => Items[o] = <<>> \/ HoldsStock(o)
        /\ releases[o] > 0 => payment[o] = "FAILED" /\ Failed(o)

\* What the proofs need to know besides the services' own invariants: each
\* handler at work was asked, stock is given back only of a failed order,
\* nobody asks for a refund, ...
AskedFor ==
    /\ work[Consumer] # Idle =>
           Inventory!Sent(IF work[Consumer].op = "release" THEN "inventory.release"
                          ELSE "inventory.reserve", work[Consumer].order)
    /\ paying[Consumer] # Idle =>
           /\ paying[Consumer].op \in {"charge", "charging", "charged"}
           /\ Payment!Sent("payment.charge", paying[Consumer].order)
    /\ \A o \in Orders :
          /\ releases[o] > 0 => Inventory!Sent("inventory.release", o)
          /\ Order!Sent("inventory.release", o) => Order!Sent("order.failed", o)
          /\ ~Payment!Sent("payment.refund", o)

\* ... and, as handlers do not fail here, money is taken only for a payment
\* that is asked for and not declined.
MoneyIsTaken ==
    /\ Payment!Doing(Consumer, "charged") /\ ~paying[Consumer].success =>
           charges[paying[Consumer].order] = 0
    /\ \A o \in Orders :
          /\ charges[o] > 0 => Payment!Sent("payment.charge", o)
          /\ payment[o] = "FAILED" => charges[o] = 0
          /\ payment[o] # "REFUNDED"

\* The saga is all or nothing, as long as no timeout cuts it short: it ends
\* with the order paid for and its stock held, or with neither.  (A failed order
\* may come to hold stock later: a duplicate of a refused inventory.reserve is
\* carried out once there is stock.)
AllOrNothing ==
    \A o \in Orders :
        Order!Running(o) ~>
            \/ Completed(o) /\ charges[o] = 1 /\ HoldsStock(o)
            \/ Failed(o) /\ charges[o] = 0 /\ ~HoldsStock(o)

\* todos/order-service.todo.md: "Timeout handling: belirli surede cevap
\* gelmezse compensation".  A failed order has no completed payment.
\* It does not hold when the payment completes after the timeout (README,
\* Disagreements).
FailedIsNotCharged ==
    \A o \in Orders : Failed(o) => payment[o] # "COMPLETED"
=============================================================================
