---------------------------- MODULE SaganetProofs ----------------------------
(***************************************************************************)
(* Proofs about Saganet for any sets of orders, products, users, requests  *)
(* and sweepers.  They are compositional: each service sees of the outbox  *)
(* the messages of its own topics; what the others write there is what its *)
(* own module lets its surroundings write, so the invariants proved of the *)
(* services one by one hold of the system, and OutcomeIsBacked follows     *)
(* from them.                                                              *)
(***************************************************************************)
EXTENDS Saganet, TLAPS

Of(topics) == {e \in events : e.topic \in topics}

StockTopics == {"inventory.reserve", "inventory.release", "inventory.reserved",
                "inventory.reservation-failed", "inventory.released"}
MoneyTopics == {"payment.charge", "payment.refund", "payment.completed",
                "payment.failed", "payment.refunded"}

OrderPart ==
    INSTANCE OrderServiceProofs WITH
        Keys <- {}, Consumers <- {Consumer}, SweepBatch <- 20, Webhooks <- FALSE,
        events <- Visible

StockPart ==
    INSTANCE InventoryProofs WITH
        Workers <- {Consumer}, Admins <- {}, Quantities <- {}, Deltas <- {},
        MaxQuantity <- Stock, MaxLedger <- Stock, Restock <- FALSE, Rebalances <- FALSE,
        aborts <- 0, MaxAborts <- 0, events <- Of(StockTopics)

MoneyPart ==
    INSTANCE PaymentProofs WITH
        Workers <- {Consumer}, Webhooks <- {}, lock <- inserting, work <- paying,
        aborts <- 0, MaxAborts <- 0, events <- Of(MoneyTopics)

-----------------------------------------------------------------------------
(* What each service sees of the outbox *)

LEMMA SeenGrows ==
    ASSUME NEW topics, NEW written, events' = events \cup written,
           \A m \in written : m.topic \in topics
    PROVE  Of(topics)' = Of(topics) \cup written
  BY DEF Of

LEMMA SeenStays ==
    ASSUME NEW topics, NEW written, events' = events \cup written,
           \A m \in written : m.topic \notin topics
    PROVE  Of(topics)' = Of(topics)
  BY DEF Of

LEMMA OrderSees == Visible = Of(Order!Topics) /\ Visible' = Of(Order!Topics)'
  BY DEF Visible, Of

LEMMA TopicsApart ==
    /\ \A t \in Order!Topics \ Order!InventoryReplies :
          t \in StockTopics => t \in {"inventory.reserve", "inventory.release"}
    /\ \A t \in Order!Topics \ Order!PaymentReplies :
          t \in MoneyTopics => t = "payment.charge"
    /\ \A t \in StockTopics : t \notin MoneyTopics
  BY DEF Order!Topics, Order!Commands, Order!Announcements, Order!InventoryReplies,
     Order!PaymentReplies, StockTopics, MoneyTopics

\* Every step of order-service is one of order-service as it sees the outbox.
LEMMA RequestSeen ==
    ASSUME NEW r \in Requests, Order!RequestStep(r) PROVE OrderPart!RequestStep(r)
<1>1. ASSUME NEW u \in Users, NEW k \in {} \cup {NoKey}, Order!CreateLookup(r, u, k)
      PROVE  OrderPart!CreateLookup(r, u, k)
  BY <1>1 DEF Order!CreateLookup, OrderPart!CreateLookup, Visible
<1>2. ASSUME NEW o \in Orders, Order!CreateCommit(r, o) PROVE OrderPart!CreateCommit(r, o)
  <2> DEFINE written == {Order!Msg("order.created", o), Order!Msg("inventory.reserve", o)}
  <2>1. events' = events \cup written
    BY <1>2 DEF Order!CreateCommit
  <2>2. \A m \in written : m.topic \in Order!Topics
    BY DEF Order!Msg, Order!Topics, Order!Commands, Order!Announcements
  <2>3. Visible' = Visible \cup written
    BY <2>1, <2>2, SeenGrows, OrderSees
  <2> QED
    BY <1>2, <2>3 DEF Order!CreateCommit, OrderPart!CreateCommit, Order!Exists,
       OrderPart!Exists, Order!KeyTaken, OrderPart!KeyTaken, Order!Msg, OrderPart!Msg
<1>3. ASSUME Order!CreateConflict(r) PROVE OrderPart!CreateConflict(r)
  BY <1>3 DEF Order!CreateConflict, OrderPart!CreateConflict, Order!KeyTaken,
     OrderPart!KeyTaken, Order!Exists, OrderPart!Exists, Visible
<1>4. ASSUME NEW u \in Users, NEW admin \in BOOLEAN, NEW o \in Orders,
             Order!CancelLookup(r, u, admin, o)
      PROVE  OrderPart!CancelLookup(r, u, admin, o)
  BY <1>4 DEF Order!CancelLookup, OrderPart!CancelLookup, Order!Exists, OrderPart!Exists,
     Order!Cancellable, OrderPart!Cancellable, Visible
<1>5. ASSUME Order!CancelCommit(r) PROVE OrderPart!CancelCommit(r)
  <2> DEFINE written == {Order!Msg("order.cancelled", request[r].order)}
  <2>1. events' = events \cup written
    BY <1>5 DEF Order!CancelCommit
  <2>2. \A m \in written : m.topic \in Order!Topics
    BY DEF Order!Msg, Order!Topics, Order!Announcements
  <2>3. Visible' = Visible \cup written
    BY <2>1, <2>2, SeenGrows, OrderSees
  <2> QED
    BY <1>5, <2>3 DEF Order!CancelCommit, OrderPart!CancelCommit, Order!Msg, OrderPart!Msg
<1>6. ASSUME Order!AbortRequest(r) PROVE OrderPart!AbortRequest(r)
  BY <1>6 DEF Order!AbortRequest, OrderPart!AbortRequest, Visible
<1> QED
  BY <1>1, <1>2, <1>3, <1>4, <1>5, <1>6 DEF Order!RequestStep, OrderPart!RequestStep

LEMMA ConsumerSeen == Order!ConsumerStep(Consumer) => OrderPart!ConsumerStep(Consumer)
<1> DEFINE o == delivery[Consumer].order
<1> USE DEF Order!Handling, OrderPart!Handling, Order!Msg, OrderPart!Msg
<1>1. ASSUME NEW m \in events, Order!Receive(Consumer, m)
      PROVE  m \in Visible /\ OrderPart!Receive(Consumer, m)
  BY <1>1 DEF Order!Receive, OrderPart!Receive, Order!Running, OrderPart!Running,
     Order!InventoryReplies, Order!PaymentReplies, OrderPart!InventoryReplies,
     OrderPart!PaymentReplies, Order!Topics, Visible
<1>2. ASSUME NEW written, events' = events \cup written,
             written \subseteq
                 {Order!Msg(t, o) : t \in Order!Commands \cup Order!Announcements}
      PROVE  Visible' = Visible \cup written
  <2>1. \A m \in written : m.topic \in Order!Topics
    BY <1>2 DEF Order!Topics
  <2> QED
    BY <1>2, <2>1, SeenGrows, OrderSees
<1> USE DEF Order!Commands, Order!Announcements
<1>3. CASE Order!OnInventoryReserved(Consumer)
  <2>1. Visible' = Visible \cup {Order!Msg("payment.charge", o)}
    BY <1>2, <1>3 DEF Order!OnInventoryReserved
  <2>2. OrderPart!OnInventoryReserved(Consumer)
    BY <1>3, <2>1 DEF Order!OnInventoryReserved, OrderPart!OnInventoryReserved
  <2> QED
    BY <2>2 DEF OrderPart!ConsumerStep, OrderPart!Handle
<1>4. CASE Order!OnPaymentCompleted(Consumer)
  <2>1. Visible' = Visible \cup {Order!Msg("order.completed", o)}
    BY <1>2, <1>4 DEF Order!OnPaymentCompleted
  <2>2. OrderPart!OnPaymentCompleted(Consumer)
    BY <1>4, <2>1 DEF Order!OnPaymentCompleted, OrderPart!OnPaymentCompleted
  <2> QED
    BY <2>2 DEF OrderPart!ConsumerStep, OrderPart!Handle
<1>5. CASE Order!OnPaymentFailed(Consumer)
  <2>1. Visible' = Visible \cup {Order!Msg("inventory.release", o), Order!Msg("order.failed", o)}
    BY <1>2, <1>5 DEF Order!OnPaymentFailed
  <2>2. OrderPart!OnPaymentFailed(Consumer)
    BY <1>5, <2>1 DEF Order!OnPaymentFailed, OrderPart!OnPaymentFailed
  <2> QED
    BY <2>2 DEF OrderPart!ConsumerStep, OrderPart!Handle
<1>6. CASE Order!OnInventoryFailed(Consumer)
  <2>1. Visible' = Visible \cup {Order!Msg("order.failed", o)}
    BY <1>2, <1>6 DEF Order!OnInventoryFailed, Order!FailSaga
  <2>2. OrderPart!OnInventoryFailed(Consumer)
    BY <1>6, <2>1 DEF Order!OnInventoryFailed, OrderPart!OnInventoryFailed,
       Order!FailSaga, OrderPart!FailSaga
  <2> QED
    BY <2>2 DEF OrderPart!ConsumerStep, OrderPart!Handle
<1>7. CASE Order!AbortDelivery(Consumer)
  <2>1. OrderPart!AbortDelivery(Consumer)
    BY <1>7 DEF Order!AbortDelivery, OrderPart!AbortDelivery, Visible
  <2> QED
    BY <2>1 DEF OrderPart!ConsumerStep
<1> QED
  BY <1>1, <1>3, <1>4, <1>5, <1>6, <1>7
     DEF Order!ConsumerStep, Order!Handle, OrderPart!ConsumerStep

LEMMA SweepSeen ==
    ASSUME NEW s \in Sweepers, Order!SweepStep(s) \/ Order!AbortSweep(s)
    PROVE  OrderPart!SweepStep(s) \/ OrderPart!AbortSweep(s)
<1>1. ASSUME NEW found \in SUBSET Order!Overdue, Order!SweepFind(s, found)
      PROVE  found \in SUBSET OrderPart!Overdue /\ OrderPart!SweepFind(s, found)
  <2>1. Order!Overdue = OrderPart!Overdue /\ Order!NoSweep = OrderPart!NoSweep
    BY DEF Order!Overdue, OrderPart!Overdue, Order!Running, OrderPart!Running,
       Order!NoSweep, OrderPart!NoSweep
  <2>2. Visible' = Visible
    BY <1>1 DEF Order!SweepFind, Visible
  <2>3. Order!Cardinality(found) = OrderPart!Cardinality(found)
    BY DEF Order!Cardinality, OrderPart!Cardinality
  <2> QED
    BY <1>1, <2>1, <2>2, <2>3 DEF Order!SweepFind, OrderPart!SweepFind
<1>2. ASSUME NEW o \in Orders, Order!SweepRead(s, o) PROVE OrderPart!SweepRead(s, o)
  BY <1>2 DEF Order!SweepRead, OrderPart!SweepRead, Order!Running, OrderPart!Running, Visible
<1>3. ASSUME Order!CompensateTimedOut(s) PROVE OrderPart!CompensateTimedOut(s)
  <2> DEFINE written == {Order!Msg("order.failed", sweep[s].reading)}
  <2>1. events' = events \cup written
    BY <1>3 DEF Order!CompensateTimedOut, Order!FailSaga
  <2>2. \A m \in written : m.topic \in Order!Topics
    BY DEF Order!Msg, Order!Topics, Order!Announcements
  <2>3. Visible' = Visible \cup written
    BY <2>1, <2>2, SeenGrows, OrderSees
  <2> QED
    BY <1>3, <2>3 DEF Order!CompensateTimedOut, OrderPart!CompensateTimedOut,
       Order!FailSaga, OrderPart!FailSaga, Order!Msg, OrderPart!Msg
<1>4. ASSUME Order!AbortSweep(s) PROVE OrderPart!AbortSweep(s)
  BY <1>4 DEF Order!AbortSweep, OrderPart!AbortSweep, Visible
<1> QED
  BY <1>1, <1>2, <1>3, <1>4 DEF Order!SweepStep, OrderPart!SweepStep

LEMMA OrderStepSeen == OrderStep => OrderPart!ServiceStep
<1>1. ASSUME NEW o \in Orders, Order!Expire(o) PROVE OrderPart!Expire(o)
  BY <1>1 DEF Order!Expire, OrderPart!Expire, Order!Exists, OrderPart!Exists, Visible
<1> QED
  BY <1>1, RequestSeen, ConsumerSeen, SweepSeen
     DEF OrderStep, OnlyOrder, Order!ServiceStep, OrderPart!ServiceStep

\* Likewise for the steps of the two participants.
LEMMA StockWrites ==
    ASSUME InventoryStep
    PROVE  \/ events' = events
           \/ /\ work[Consumer] # Idle /\ work[Consumer].op # "release"
              /\ \E t \in Order!InventoryReplies :
                    events' = events \cup {Order!Msg(t, work[Consumer].order)}
           \/ events' = events \cup {Order!Msg("inventory.released", work[Consumer].order)}
  BY DEF InventoryStep, OnlyInventory, Inventory!WorkerStep, Inventory!ReserveBegin,
     Inventory!ReleaseBegin, Inventory!ReserveItem, Inventory!ReserveRefuse,
     Inventory!AnnounceRefusal, Inventory!ReserveCommit, Inventory!ReleaseItem,
     Inventory!ReleaseCommit, Inventory!Abort, Inventory!DeadlockVictim, Inventory!Fail,
     Inventory!Working, Inventory!Msg, Order!Msg, Order!InventoryReplies

LEMMA StockStepSeen == InventoryStep => StockPart!WorkerStep(Consumer)
<1> SUFFICES ASSUME InventoryStep PROVE StockPart!WorkerStep(Consumer)
  OBVIOUS
<1> DEFINE w == Consumer
<1> USE DEF Inventory!Working, StockPart!Working
<1>1. /\ \A t \in StockTopics : \A o : Inventory!Sent(t, o) <=> StockPart!Sent(t, o)
      /\ \A t, o : Inventory!Msg(t, o) = StockPart!Msg(t, o)
      /\ Inventory!NoDeltas = StockPart!NoDeltas
  BY DEF Inventory!Sent, StockPart!Sent, Inventory!Msg, StockPart!Msg, Of,
     Inventory!NoDeltas, StockPart!NoDeltas
<1>2. /\ Inventory!HasItem(w) <=> StockPart!HasItem(w)
      /\ Inventory!NextItem(w) = StockPart!NextItem(w)
      /\ \A p : Inventory!Seen(w, p) = StockPart!Seen(w, p)
      /\ \A p : Inventory!Lockable(w, p) <=> StockPart!Lockable(w, p)
      /\ \A l, o : Inventory!Recorded(l, o) = StockPart!Recorded(l, o)
  BY DEF Inventory!HasItem, StockPart!HasItem, Inventory!NextItem, StockPart!NextItem,
     Inventory!Seen, StockPart!Seen, Inventory!Lockable, StockPart!Lockable,
     Inventory!Recorded, StockPart!Recorded
<1>3. Inventory!InStock(w) <=> StockPart!InStock(w)
  BY <1>2 DEF Inventory!InStock, StockPart!InStock
<1>4. /\ \A op, o, next, ledger : Inventory!Proceed(w, op, o, next, ledger)
                                     <=> StockPart!Proceed(w, op, o, next, ledger)
      /\ Inventory!EndTransaction(w) <=> StockPart!EndTransaction(w)
      /\ Inventory!Commit(w) <=> StockPart!Commit(w)
  BY DEF Inventory!Proceed, StockPart!Proceed, Inventory!EndTransaction,
     StockPart!EndTransaction, Inventory!Commit, StockPart!Commit
<1>5. /\ \A op, o : Inventory!Start(w, op, o) <=> StockPart!Start(w, op, o)
      /\ \A d : Inventory!Book(w, d) <=> StockPart!Book(w, d)
      /\ Inventory!Refuse(w) <=> StockPart!Refuse(w)
  BY <1>1, <1>2, <1>4 DEF Inventory!Start, StockPart!Start, Inventory!Book,
     StockPart!Book, Inventory!Refuse, StockPart!Refuse
<1>6. \A t \in StockTopics, o \in Orders : \A ops :
         Inventory!Delivered(w, t, o, ops) <=> StockPart!Delivered(w, t, o, ops)
  BY <1>1 DEF Inventory!Delivered, StockPart!Delivered
<1>7. events' = events => Of(StockTopics)' = Of(StockTopics)
  BY DEF Of
<1>8. ASSUME NEW t \in StockTopics, NEW o, events' = events \cup {Inventory!Msg(t, o)}
      PROVE  Of(StockTopics)' = Of(StockTopics) \cup {StockPart!Msg(t, o)}
  <2>1. Inventory!Msg(t, o).topic = t
    BY DEF Inventory!Msg
  <2> QED
    BY <1>1, <1>8, <2>1, SeenGrows
<1> USE DEF StockTopics
<1>9. ASSUME NEW o \in Orders, Inventory!ReserveBegin(w, o) \/ Inventory!ReleaseBegin(w, o)
      PROVE  StockPart!ReserveBegin(w, o) \/ StockPart!ReleaseBegin(w, o)
  BY <1>5, <1>6, <1>7, <1>9 DEF Inventory!ReserveBegin, StockPart!ReserveBegin,
     Inventory!ReleaseBegin, StockPart!ReleaseBegin
<1>10. ASSUME Inventory!ReserveItem(w) PROVE StockPart!ReserveItem(w)
  BY <1>2, <1>3, <1>5, <1>7, <1>10 DEF Inventory!ReserveItem, StockPart!ReserveItem
<1>11. ASSUME Inventory!ReserveRefuse(w) PROVE StockPart!ReserveRefuse(w)
  BY <1>2, <1>3, <1>4, <1>5, <1>7, <1>11 DEF Inventory!ReserveRefuse, StockPart!ReserveRefuse
<1>12. ASSUME Inventory!AnnounceRefusal(w) PROVE StockPart!AnnounceRefusal(w)
  BY <1>8, <1>12 DEF Inventory!AnnounceRefusal, StockPart!AnnounceRefusal
<1>13. ASSUME Inventory!ReserveCommit(w) PROVE StockPart!ReserveCommit(w)
  BY <1>2, <1>4, <1>8, <1>13 DEF Inventory!ReserveCommit, StockPart!ReserveCommit
<1>14. ASSUME Inventory!ReleaseItem(w) PROVE StockPart!ReleaseItem(w)
  <2>1. \A version, q : Inventory!Released(version, q) = StockPart!Released(version, q)
    BY DEF Inventory!Released, StockPart!Released, Inventory!Max0, StockPart!Max0
  <2> QED
    BY <1>2, <1>5, <1>7, <1>14, <2>1 DEF Inventory!ReleaseItem, StockPart!ReleaseItem
<1>15. ASSUME Inventory!ReleaseCommit(w) PROVE StockPart!ReleaseCommit(w)
  BY <1>2, <1>4, <1>8, <1>15 DEF Inventory!ReleaseCommit, StockPart!ReleaseCommit
<1>16. ASSUME Inventory!DeadlockVictim(w) PROVE StockPart!DeadlockVictim(w)
  BY <1>2, <1>4, <1>7, <1>16 DEF Inventory!DeadlockVictim, StockPart!DeadlockVictim,
     Inventory!Fail, StockPart!Fail, Inventory!Blocked, StockPart!Blocked,
     Inventory!Blocker, StockPart!Blocker, Inventory!HasItem, StockPart!HasItem,
     Inventory!NextItem, StockPart!NextItem, Inventory!Lockable, StockPart!Lockable
<1>17. ~Inventory!Abort(w)
  BY DEF Inventory!Abort
<1> QED
  BY <1>9, <1>10, <1>11, <1>12, <1>13, <1>14, <1>15, <1>16, <1>17
     DEF InventoryStep, OnlyInventory, Inventory!WorkerStep, StockPart!WorkerStep

LEMMA MoneyWrites ==
    ASSUME PaymentStep
    PROVE  \/ events' = events
           \/ /\ paying[Consumer] # Idle /\ paying[Consumer].op = "charged"
              /\ \E t \in Order!PaymentReplies :
                    events' = events \cup {Order!Msg(t, paying[Consumer].order)}
           \/ events' = events \cup {Order!Msg("payment.refunded", paying[Consumer].order)}
<1>1. CASE Payment!ChargeCommit(Consumer)
  BY <1>1 DEF Payment!ChargeCommit, Payment!Doing, Payment!Msg, Order!Msg, Order!PaymentReplies
<1>2. CASE ~Payment!ChargeCommit(Consumer)
  BY <1>2 DEF PaymentStep, OnlyPayment, Payment!WorkerStep, Payment!ChargeBegin,
     Payment!RefundBegin, Payment!ChargeInsert, Payment!ChargeConflict,
     Payment!ProviderCharge, Payment!ProviderRefund, Payment!RefundCommit,
     Payment!Crash, Payment!Fail, Payment!RollBack, Payment!Msg, Order!Msg
<1> QED
  BY <1>1, <1>2

LEMMA MoneyStepSeen == PaymentStep => MoneyPart!WorkerStep(Consumer)
<1> SUFFICES ASSUME PaymentStep PROVE MoneyPart!WorkerStep(Consumer)
  OBVIOUS
<1> DEFINE w == Consumer
<1> USE DEF Payment!Doing, MoneyPart!Doing, Payment!Goto, MoneyPart!Goto,
        Payment!Done, MoneyPart!Done
<1>1. /\ \A t \in MoneyTopics : \A o : Payment!Sent(t, o) <=> MoneyPart!Sent(t, o)
      /\ \A t, o : Payment!Msg(t, o) = MoneyPart!Msg(t, o)
  BY DEF Payment!Sent, MoneyPart!Sent, Payment!Msg, MoneyPart!Msg, Of
<1>2. events' = events => Of(MoneyTopics)' = Of(MoneyTopics)
  BY DEF Of
<1>3. ASSUME NEW t \in MoneyTopics, NEW o, events' = events \cup {Payment!Msg(t, o)}
      PROVE  Of(MoneyTopics)' = Of(MoneyTopics) \cup {MoneyPart!Msg(t, o)}
  <2>1. Payment!Msg(t, o).topic = t
    BY DEF Payment!Msg
  <2> QED
    BY <1>1, <1>3, <2>1, SeenGrows
<1> USE DEF MoneyTopics
<1>4. ASSUME NEW o \in Orders, Payment!ChargeBegin(w, o) \/ Payment!RefundBegin(w, o)
      PROVE  MoneyPart!ChargeBegin(w, o) \/ MoneyPart!RefundBegin(w, o)
  BY <1>1, <1>2, <1>4 DEF Payment!ChargeBegin, MoneyPart!ChargeBegin, Payment!RefundBegin,
     MoneyPart!RefundBegin, Payment!Chargeable, MoneyPart!Chargeable,
     Payment!Refundable, MoneyPart!Refundable
<1>5. ASSUME Payment!ChargeInsert(w) PROVE MoneyPart!ChargeInsert(w)
  BY <1>2, <1>5 DEF Payment!ChargeInsert, MoneyPart!ChargeInsert
<1>6. ASSUME Payment!ChargeConflict(w) PROVE MoneyPart!ChargeConflict(w)
  BY <1>2, <1>6 DEF Payment!ChargeConflict, MoneyPart!ChargeConflict
<1>7. ASSUME NEW success \in BOOLEAN, Payment!ProviderCharge(w, success)
      PROVE  MoneyPart!ProviderCharge(w, success)
  BY <1>2, <1>7 DEF Payment!ProviderCharge, MoneyPart!ProviderCharge
<1>8. ASSUME Payment!ChargeCommit(w) PROVE MoneyPart!ChargeCommit(w)
  <2>1. Of(MoneyTopics)' = Of(MoneyTopics) \cup
           {MoneyPart!Msg(IF paying[w].success THEN "payment.completed" ELSE "payment.failed",
                          paying[w].order)}
    BY <1>3, <1>8 DEF Payment!ChargeCommit
  <2> QED
    BY <1>8, <2>1 DEF Payment!ChargeCommit, MoneyPart!ChargeCommit
<1>9. ASSUME Payment!ProviderRefund(w) PROVE MoneyPart!ProviderRefund(w)
  BY <1>2, <1>9 DEF Payment!ProviderRefund, MoneyPart!ProviderRefund
<1>10. ASSUME Payment!RefundCommit(w) PROVE MoneyPart!RefundCommit(w)
  BY <1>3, <1>10 DEF Payment!RefundCommit, MoneyPart!RefundCommit
<1>11. ~Payment!Crash(w) /\ ~Payment!Fail(w)
  BY DEF Payment!Crash, Payment!Fail, Payment!RollBack
<1> QED
  BY <1>4, <1>5, <1>6, <1>7, <1>8, <1>9, <1>10, <1>11
     DEF PaymentStep, OnlyPayment, Payment!WorkerStep, MoneyPart!WorkerStep

-----------------------------------------------------------------------------
(* The invariant of the system *)

SystemInv ==
    /\ OrderPart!IInv /\ StockPart!OnceInv /\ MoneyPart!IInv
    /\ AskedFor /\ MoneyIsTaken

LEMMA PartsAssumptions ==
    /\ OrderPart!ConstantsAssumption
    /\ StockPart!ConstantsAssumption
    /\ MoneyPart!ConstantsAssumption
<1>1. OrderPart!ConstantsAssumption
  <2>1. OrderPart!Event = Order!Event
    BY DEF OrderPart!Event, Order!Event, OrderPart!Topics, Order!Topics,
       OrderPart!Commands, Order!Commands, OrderPart!Announcements, Order!Announcements,
       OrderPart!InventoryReplies, Order!InventoryReplies, OrderPart!PaymentReplies,
       Order!PaymentReplies
  <2> QED
    BY <2>1, ConstantsAssumption DEF OrderPart!ConstantsAssumption
<1>2. StockPart!ConstantsAssumption
  <2>1. StockPart!Row = Inventory!Row /\ StockPart!Work = Inventory!Work
        /\ StockPart!Item = Inventory!Item
    BY DEF StockPart!Row, Inventory!Row, StockPart!Work, Inventory!Work,
       StockPart!Item, Inventory!Item
  <2>2. Idle \notin StockPart!Edit
    BY DEF StockPart!Edit
  <2>3. StockPart!IsFiniteSet(Orders)
    BY ConstantsAssumption DEF IsFiniteSet, StockPart!IsFiniteSet
  <2> QED
    BY <2>1, <2>2, <2>3, ConstantsAssumption DEF StockPart!ConstantsAssumption
<1>3. MoneyPart!ConstantsAssumption
  <2>1. MoneyPart!Work = Payment!Work
    BY DEF MoneyPart!Work, Payment!Work
  <2> QED
    BY <2>1, ConstantsAssumption DEF MoneyPart!ConstantsAssumption
<1> QED
  BY <1>1, <1>2, <1>3

LEMMA InitOrder == Init => OrderPart!Init
  BY DEF Init, Order!Init, OrderPart!Init, Order!NoSaga, OrderPart!NoSaga,
     Order!NoSweep, OrderPart!NoSweep, Visible

LEMMA InitMoney == Init => MoneyPart!Init
<1>1. Init => events = {}
  BY DEF Init, Order!Init
<1> QED
  BY <1>1 DEF Init, Payment!Init, MoneyPart!Init, Of

LEMMA InitStock == Init => StockPart!OnceInv
<1> SUFFICES ASSUME Init PROVE StockPart!OnceInv
  OBVIOUS
<1> USE DEF Init
<1>1. \A t, o : ~StockPart!Sent(t, o)
  BY DEF Order!Init, StockPart!Sent, Of
<1>2. ASSUME NEW p \in Products
      PROVE  /\ booked[p] \in Nat /\ row[p] \in StockPart!Row
             /\ row[p].quantity = booked[p] /\ row[p].reserved = 0
             /\ row[p].available = booked[p]
             /\ lock[p] = Free /\ draft[p] = NoRow
             /\ row[p] # NoRow
  <2>1. booked[p] \in Nat
    BY ConstantsAssumption
  <2>2. row[p] \in StockPart!Row
    BY <2>1 DEF StockPart!Row
  <2>3. StockPart!Row = Inventory!Row
    BY DEF StockPart!Row, Inventory!Row
  <2> QED
    BY <2>1, <2>2, <2>3, ConstantsAssumption
<1>3. StockPart!TypeOK
  BY <1>2 DEF StockPart!TypeOK
<1>4. StockPart!NeverNegative /\ StockPart!LocksAreHeld /\ StockPart!UnitsKept
  BY <1>2 DEF StockPart!NeverNegative, StockPart!LocksAreHeld, StockPart!UnitsKept
<1>5. StockPart!RowsExist /\ StockPart!DeltasPending /\ StockPart!EditsKnow
  BY <1>1 DEF StockPart!RowsExist, StockPart!AnsweredHasRows, StockPart!TakenHasRows,
     StockPart!Working, StockPart!DeltasPending, StockPart!EditsKnow
<1>6. StockPart!LedgerExplainsStock
  BY <1>2 DEF StockPart!LedgerExplainsStock
<1>7. StockPart!OneExecution /\ StockPart!LedgerFollowed
  BY <1>1 DEF StockPart!OneExecution, StockPart!LedgerFollowed, StockPart!Working
<1> QED
  BY <1>3, <1>4, <1>5, <1>6, <1>7 DEF StockPart!OnceInv, StockPart!IInv

LEMMA InitSystem == Init => SystemInv
<1>1. Init => AskedFor /\ MoneyIsTaken
  BY DEF Init, Order!Init, Payment!Init, AskedFor, MoneyIsTaken, Inventory!Sent,
     Payment!Sent, Order!Sent, Payment!Doing
<1> QED
  BY <1>1, InitOrder, InitMoney, InitStock, PartsAssumptions,
     OrderPart!InitIInv, MoneyPart!InitIInv DEF SystemInv

-----------------------------------------------------------------------------
(* A step of one service, as the other two see it *)

LEMMA OrderWrites ==
    ASSUME OrderPart!IInv, OrderStep
    PROVE  \/ events' = events
           \/ \E o \in Orders, t \in Order!Commands \cup Order!Announcements :
                 \E a \in Order!Announcements \cup {t} :
                    /\ events' = events \cup {Order!Msg(t, o), Order!Msg(a, o)}
                    /\ t = "inventory.release" => a = "order.failed"
<1> DEFINE Written(o, t, a) == events' = events \cup {Order!Msg(t, o), Order!Msg(a, o)}
<1> USE DEF OrderPart!IInv, OrderPart!TypeOK, Order!Commands, Order!Announcements
<1>1. ASSUME NEW r \in Requests, NEW o \in Orders, Order!CreateCommit(r, o)
      PROVE  Written(o, "inventory.reserve", "order.created")
  BY <1>1 DEF Order!CreateCommit
<1>2. ASSUME NEW r \in Requests, Order!CancelCommit(r)
      PROVE  \E o \in Orders : Written(o, "order.cancelled", "order.cancelled")
  <2>1. request[r].order \in Orders
    BY <1>2 DEF Order!CancelCommit, OrderPart!Request
  <2> QED
    BY <1>2, <2>1 DEF Order!CancelCommit
<1>3. ASSUME NEW r \in Requests, Order!RequestStep(r)
      PROVE  \/ events' = events
             \/ \E o \in Orders : Written(o, "inventory.reserve", "order.created")
             \/ \E o \in Orders : Written(o, "order.cancelled", "order.cancelled")
  BY <1>1, <1>2, <1>3 DEF Order!RequestStep, Order!CreateLookup, Order!CreateConflict,
     Order!CancelLookup, Order!AbortRequest
<1>4. ASSUME Order!Handle(Consumer)
      PROVE  \/ \E o \in Orders : Written(o, "payment.charge", "payment.charge")
             \/ \E o \in Orders : Written(o, "order.completed", "order.completed")
             \/ \E o \in Orders : Written(o, "inventory.release", "order.failed")
             \/ \E o \in Orders : Written(o, "order.failed", "order.failed")
  <2>1. delivery[Consumer].order \in Orders
    BY <1>4 DEF Order!Handle, Order!OnInventoryReserved, Order!OnInventoryFailed,
       Order!OnPaymentCompleted, Order!OnPaymentFailed, Order!Handling, OrderPart!Event
  <2> DEFINE o == delivery[Consumer].order
  <2>2. /\ Order!OnInventoryReserved(Consumer) => Written(o, "payment.charge", "payment.charge")
        /\ Order!OnInventoryFailed(Consumer) => Written(o, "order.failed", "order.failed")
    BY DEF Order!OnInventoryReserved, Order!OnInventoryFailed, Order!FailSaga
  <2>3. /\ Order!OnPaymentCompleted(Consumer) => Written(o, "order.completed", "order.completed")
        /\ Order!OnPaymentFailed(Consumer) => Written(o, "inventory.release", "order.failed")
    BY DEF Order!OnPaymentCompleted, Order!OnPaymentFailed
  <2> HIDE DEF Written
  <2> QED
    BY <1>4, <2>1, <2>2, <2>3 DEF Order!Handle
<1>5. ASSUME Order!ConsumerStep(Consumer), ~Order!Handle(Consumer) PROVE events' = events
  BY <1>5 DEF Order!ConsumerStep, Order!Receive, Order!AbortDelivery
<1>6. ASSUME NEW s \in Sweepers, Order!CompensateTimedOut(s)
      PROVE  \E o \in Orders : Written(o, "order.failed", "order.failed")
  <2>1. sweep[s].reading \in Orders
    BY <1>6 DEF Order!CompensateTimedOut
  <2> QED
    BY <1>6, <2>1 DEF Order!CompensateTimedOut, Order!FailSaga
<1>7. ASSUME NEW s \in Sweepers, Order!SweepStep(s) \/ Order!AbortSweep(s)
      PROVE  \/ events' = events
             \/ \E o \in Orders : Written(o, "order.failed", "order.failed")
  BY <1>6, <1>7 DEF Order!SweepStep, Order!SweepFind, Order!SweepRead, Order!AbortSweep
<1>8. \/ events' = events
      \/ \E o \in Orders : Written(o, "inventory.reserve", "order.created")
      \/ \E o \in Orders : Written(o, "order.cancelled", "order.cancelled")
      \/ \E o \in Orders : Written(o, "payment.charge", "payment.charge")
      \/ \E o \in Orders : Written(o, "order.completed", "order.completed")
      \/ \E o \in Orders : Written(o, "inventory.release", "order.failed")
      \/ \E o \in Orders : Written(o, "order.failed", "order.failed")
  BY <1>3, <1>4, <1>5, <1>7
     DEF OrderStep, OnlyOrder, Order!ServiceStep, Order!Expire
<1> QED
  BY <1>8

\* inventory-service sees order-service send it commands, or nothing.
LEMMA StockSeesOrder ==
    ASSUME SystemInv, OrderStep, OrderPart!IInv'
    PROVE  StockPart!Next \/ UNCHANGED StockPart!vars
<1> DEFINE Before == Of(StockTopics)
<1>1. UNCHANGED inventoryVars
  BY DEF OrderStep, OnlyOrder
<1>2. Before' = Before => UNCHANGED StockPart!vars
  BY <1>1 DEF StockPart!vars, inventoryVars
<1>3. CASE events' = events
  BY <1>2, <1>3 DEF Of
<1>4. ASSUME NEW o \in Orders, NEW t \in Order!Commands \cup Order!Announcements,
             NEW a \in Order!Announcements \cup {t},
             events' = events \cup {Order!Msg(t, o), Order!Msg(a, o)}
      PROVE  StockPart!Next \/ UNCHANGED StockPart!vars
  <2>1. Order!Msg(t, o).topic = t /\ Order!Msg(a, o).topic = a
    BY DEF Order!Msg
  <2>2. CASE t \notin StockTopics
    <3>1. a \notin StockTopics
      BY <2>2 DEF Order!Announcements, StockTopics
    <3>2. Before' = Before
      BY <1>4, <2>1, <2>2, <3>1 DEF Of
    <3> QED
      BY <1>2, <3>2
  <2>3. CASE t \in StockTopics
    <3>1. t \in {"inventory.reserve", "inventory.release"}
      BY <2>3 DEF Order!Commands, Order!Announcements, StockTopics
    <3>2. Before' = Before \cup {StockPart!Msg(t, o)}
      BY <1>4, <2>1, <2>3 DEF Of, Order!Announcements, StockTopics, Order!Msg, StockPart!Msg
    <3>3. ASSUME t = "inventory.release" PROVE StockPart!Sent("inventory.reserved", o)
      <4>1. OrderPart!Sent("inventory.release", o)'
        BY <1>4, <3>3 DEF OrderPart!Sent, OrderPart!Msg, Order!Msg, Visible, Order!Topics,
           Order!Commands
      <4>2. OrderPart!Sent("inventory.reserved", o)'
        BY <4>1 DEF OrderPart!IInv, OrderPart!SagaCausality
      <4>3. OrderPart!Msg("inventory.reserved", o) \in events'
        BY <4>2 DEF OrderPart!Sent, Visible, OrderPart!Msg
      <4>4. OrderPart!Msg("inventory.reserved", o) \in events
        BY <1>4, <4>3, <2>1 DEF OrderPart!Msg, Order!Commands, Order!Announcements
      <4> QED
        BY <4>4 DEF StockPart!Sent, StockPart!Msg, OrderPart!Msg, Of, StockTopics
    <3>4. CASE StockPart!Msg(t, o) \in Before
      BY <1>2, <3>2, <3>4
    <3>5. CASE StockPart!Msg(t, o) \notin Before
      <4>1. StockPart!Command(t, o)
        BY <1>1, <3>1, <3>2, <3>3, <3>5 DEF StockPart!Command, StockPart!Sent, inventoryVars
      <4> QED
        BY <3>1, <4>1 DEF StockPart!Next
    <3> QED
      BY <3>4, <3>5
  <2> QED
    BY <2>2, <2>3
<1> QED
  BY <1>3, <1>4, OrderWrites DEF SystemInv

\* payment-service sees it ask for charges, or nothing.
LEMMA MoneySeesOrder ==
    ASSUME SystemInv, OrderStep PROVE MoneyPart!Next \/ UNCHANGED MoneyPart!vars
<1> DEFINE Before == Of(MoneyTopics)
<1>1. UNCHANGED paymentVars
  BY DEF OrderStep, OnlyOrder
<1>2. Before' = Before => UNCHANGED MoneyPart!vars
  BY <1>1 DEF MoneyPart!vars, paymentVars
<1>3. CASE events' = events
  BY <1>2, <1>3 DEF Of
<1>4. ASSUME NEW o \in Orders, NEW t \in Order!Commands \cup Order!Announcements,
             NEW a \in Order!Announcements \cup {t},
             events' = events \cup {Order!Msg(t, o), Order!Msg(a, o)}
      PROVE  MoneyPart!Next \/ UNCHANGED MoneyPart!vars
  <2>1. Order!Msg(t, o).topic = t /\ Order!Msg(a, o).topic = a
    BY DEF Order!Msg
  <2>2. CASE t \notin MoneyTopics
    <3>1. a \notin MoneyTopics
      BY <2>2 DEF Order!Announcements, MoneyTopics
    <3>2. Before' = Before
      BY <1>4, <2>1, <2>2, <3>1 DEF Of
    <3> QED
      BY <1>2, <3>2
  <2>3. CASE t \in MoneyTopics
    <3>1. t = "payment.charge"
      BY <2>3 DEF Order!Commands, Order!Announcements, MoneyTopics
    <3>2. Before' = Before \cup {MoneyPart!Msg(t, o)}
      BY <1>4, <2>1, <2>3 DEF Of, Order!Announcements, MoneyTopics, Order!Msg, MoneyPart!Msg
    <3>4. CASE MoneyPart!Msg(t, o) \in Before
      BY <1>2, <3>2, <3>4
    <3>5. CASE MoneyPart!Msg(t, o) \notin Before
      <4>1. MoneyPart!Command(t, o)
        BY <1>1, <3>1, <3>2, <3>5 DEF MoneyPart!Command, MoneyPart!Sent, paymentVars
      <4> QED
        BY <3>1, <4>1 DEF MoneyPart!Next
    <3> QED
      BY <3>4, <3>5
  <2> QED
    BY <2>2, <2>3
<1> QED
  BY <1>3, <1>4, OrderWrites DEF SystemInv

\* inventory-service and payment-service do not see each other.
LEMMA MoneySeesStock == InventoryStep => UNCHANGED MoneyPart!vars
<1> SUFFICES ASSUME InventoryStep PROVE UNCHANGED MoneyPart!vars
  OBVIOUS
<1>1. \A t, o : Order!Msg(t, o).topic = t
  BY DEF Order!Msg
<1>2. Of(MoneyTopics)' = Of(MoneyTopics)
  BY <1>1, StockWrites DEF Of, MoneyTopics, Order!InventoryReplies
<1> QED
  BY <1>2 DEF InventoryStep, OnlyInventory, MoneyPart!vars, paymentVars

LEMMA StockSeesMoney == PaymentStep => UNCHANGED StockPart!vars
<1> SUFFICES ASSUME PaymentStep PROVE UNCHANGED StockPart!vars
  OBVIOUS
<1>1. \A t, o : Order!Msg(t, o).topic = t
  BY DEF Order!Msg
<1>2. Of(StockTopics)' = Of(StockTopics)
  BY <1>1, MoneyWrites DEF Of, StockTopics, Order!PaymentReplies
<1> QED
  BY <1>2 DEF PaymentStep, OnlyPayment, StockPart!vars, inventoryVars

\* order-service sees of either of them a reply to a command, or nothing.
LEMMA OrderSeesReply ==
    ASSUME UNCHANGED orderVars, NEW o \in Orders,
           NEW t \in Order!InventoryReplies \cup Order!PaymentReplies,
           events' = events \cup {Order!Msg(t, o)},
           t \in Order!InventoryReplies => Order!Msg("inventory.reserve", o) \in events,
           t \in Order!PaymentReplies => Order!Msg("payment.charge", o) \in events
    PROVE  OrderPart!ParticipantStep \/ UNCHANGED OrderPart!vars
<1> USE DEF Order!Msg, OrderPart!Msg, OrderPart!Sent
<1>1. Visible' = Visible \cup {OrderPart!Msg(t, o)}
  BY DEF Visible, Order!Topics
<1>2. /\ t \in Order!InventoryReplies => OrderPart!Sent("inventory.reserve", o)
      /\ t \in Order!PaymentReplies => OrderPart!Sent("payment.charge", o)
  BY DEF Visible, Order!Topics, Order!Commands
<1>3. CASE OrderPart!Msg(t, o) \in Visible
  BY <1>1, <1>3 DEF OrderPart!vars, orderVars
<1>4. CASE OrderPart!Msg(t, o) \notin Visible
  BY <1>1, <1>2, <1>4 DEF OrderPart!ParticipantStep, OrderPart!InventoryReply,
     OrderPart!PaymentReply, OrderPart!InventoryReplies, Order!InventoryReplies,
     OrderPart!PaymentReplies, Order!PaymentReplies, orderVars
<1> QED
  BY <1>3, <1>4

LEMMA OrderSeesOthers ==
    ASSUME SystemInv, InventoryStep \/ PaymentStep
    PROVE  OrderPart!ParticipantStep \/ UNCHANGED OrderPart!vars
<1>1. UNCHANGED orderVars
  BY DEF InventoryStep, OnlyInventory, PaymentStep, OnlyPayment
<1>2. ASSUME NEW t, t \notin Order!Topics, NEW o, events' = events \cup {Order!Msg(t, o)}
      PROVE  Visible' = Visible
  BY <1>2 DEF Visible, Order!Msg
<1>3. "inventory.released" \notin Order!Topics /\ "payment.refunded" \notin Order!Topics
  BY DEF Order!Topics, Order!Commands, Order!Announcements, Order!InventoryReplies,
     Order!PaymentReplies
<1>4. Visible' = Visible => UNCHANGED OrderPart!vars
  BY <1>1 DEF OrderPart!vars, orderVars
<1>5. events' = events => Visible' = Visible
  BY DEF Visible
<1>6. CASE InventoryStep
  <2>1. work[Consumer] # Idle => work[Consumer].order \in Orders
    BY DEF SystemInv, StockPart!OnceInv, StockPart!IInv, StockPart!TypeOK, StockPart!Work
  <2>2. ASSUME work[Consumer] # Idle, work[Consumer].op # "release"
        PROVE  Order!Msg("inventory.reserve", work[Consumer].order) \in events
    BY <2>2 DEF SystemInv, AskedFor, Inventory!Sent, Inventory!Msg, Order!Msg
  <2>3. ASSUME work[Consumer] # Idle, work[Consumer].op # "release",
               NEW t \in Order!InventoryReplies,
               events' = events \cup {Order!Msg(t, work[Consumer].order)}
        PROVE  OrderPart!ParticipantStep \/ UNCHANGED OrderPart!vars
    <3>1. t \notin Order!PaymentReplies
      BY DEF Order!InventoryReplies, Order!PaymentReplies
    <3> QED
      BY <1>1, <2>1, <2>2, <2>3, <3>1, OrderSeesReply
  <2> QED
    BY <1>2, <1>3, <1>4, <1>5, <1>6, <2>3, StockWrites
<1>7. CASE PaymentStep
  <2>1. paying[Consumer] # Idle => paying[Consumer].order \in Orders
    BY DEF SystemInv, MoneyPart!IInv, MoneyPart!TypeOK, MoneyPart!Work
  <2>2. ASSUME paying[Consumer] # Idle
        PROVE  Order!Msg("payment.charge", paying[Consumer].order) \in events
    BY <2>2 DEF SystemInv, AskedFor, Payment!Sent, Payment!Msg, Order!Msg
  <2>3. ASSUME paying[Consumer] # Idle, NEW t \in Order!PaymentReplies,
               events' = events \cup {Order!Msg(t, paying[Consumer].order)}
        PROVE  OrderPart!ParticipantStep \/ UNCHANGED OrderPart!vars
    <3>1. t \notin Order!InventoryReplies
      BY DEF Order!InventoryReplies, Order!PaymentReplies
    <3> QED
      BY <1>1, <2>1, <2>2, <2>3, <3>1, OrderSeesReply
  <2> QED
    BY <1>2, <1>3, <1>4, <1>5, <1>7, <2>3, MoneyWrites
<1> QED
  BY <1>6, <1>7

-----------------------------------------------------------------------------
(* What the proofs need besides: AskedFor and MoneyIsTaken *)

LEMMA Typed ==
    ASSUME SystemInv
    PROVE  /\ work[Consumer] # Idle => work[Consumer].order \in Orders
           /\ paying[Consumer] # Idle => paying[Consumer].order \in Orders
           /\ charges \in [Orders -> Nat]
           /\ payment \in [Orders -> Payment!PaymentStatus \cup {"NONE"}]
           /\ work \in [{Consumer} -> StockPart!Work \cup {Idle}]
           /\ paying \in [{Consumer} -> MoneyPart!Work \cup {Idle}]
<1>1. StockPart!TypeOK /\ MoneyPart!TypeOK
  BY DEF SystemInv, StockPart!OnceInv, StockPart!IInv, MoneyPart!IInv
<1> QED
  BY <1>1 DEF StockPart!TypeOK, StockPart!Work, MoneyPart!TypeOK, MoneyPart!Work,
     MoneyPart!PaymentStatus, Payment!PaymentStatus

\* The outbox only grows, no service asks for a refund, and stock is asked back
\* in the transaction that announces the failure.
LEMMA OutboxGrows ==
    ASSUME SystemInv, Next
    PROVE  /\ events \subseteq events'
           /\ \A o \in Orders :
                 /\ Payment!Sent("payment.refund", o)' => Payment!Sent("payment.refund", o)
                 /\ Order!Sent("inventory.release", o)' =>
                        Order!Sent("inventory.release", o) \/ Order!Sent("order.failed", o)'
<1>1. \A t, o : Order!Msg(t, o) = [topic |-> t, order |-> o]
                /\ Payment!Msg(t, o) = [topic |-> t, order |-> o]
  BY DEF Order!Msg, Payment!Msg
<1>2. "payment.refund" \notin Order!Topics
  BY DEF Order!Topics, Order!Commands, Order!Announcements, Order!InventoryReplies,
     Order!PaymentReplies
<1>3. "inventory.release" \notin Order!Announcements \cup Order!InventoryReplies
                                 \cup Order!PaymentReplies
  BY DEF Order!Announcements, Order!InventoryReplies, Order!PaymentReplies
<1> USE DEF Payment!Sent, Order!Sent, Order!Topics
<1>4. CASE events' = events
  BY <1>4
<1>5. CASE OrderStep
  BY <1>1, <1>2, <1>3, <1>5, OrderWrites DEF SystemInv
<1>6. CASE InventoryStep
  BY <1>1, <1>2, <1>3, <1>6, StockWrites
<1>7. CASE PaymentStep
  BY <1>1, <1>2, <1>3, <1>7, MoneyWrites
<1> QED
  BY <1>5, <1>6, <1>7 DEF Next

\* A command at work goes on with its order, or was asked for as it begins.
LEMMA StockGoesOn ==
    ASSUME SystemInv, InventoryStep, work'[Consumer] # Idle
    PROVE  Inventory!Sent(IF work'[Consumer].op = "release" THEN "inventory.release"
                          ELSE "inventory.reserve", work'[Consumer].order)
<1> DEFINE w == Consumer
<1> USE Typed
<1>1. \A op, o, next, ledger : Inventory!Proceed(w, op, o, next, ledger) =>
          work'[w].op = op /\ work'[w].order = o
  BY DEF Inventory!Proceed
<1>2. ASSUME NEW o \in Orders, Inventory!ReserveBegin(w, o)
      PROVE  work'[w].op = "reserve" /\ Inventory!Sent("inventory.reserve", work'[w].order)
  BY <1>1, <1>2 DEF Inventory!ReserveBegin, Inventory!Start, Inventory!Delivered
<1>3. ASSUME NEW o \in Orders, Inventory!ReleaseBegin(w, o)
      PROVE  work'[w].op = "release" /\ Inventory!Sent("inventory.release", work'[w].order)
  BY <1>1, <1>3 DEF Inventory!ReleaseBegin, Inventory!Start, Inventory!Delivered
<1>4. ASSUME \/ Inventory!ReserveItem(w) \/ Inventory!ReleaseItem(w)
             \/ Inventory!ReserveRefuse(w)
      PROVE  /\ work[w] # Idle /\ work'[w].order = work[w].order
             /\ work[w].op = "release" <=> work'[w].op = "release"
  BY <1>1, <1>4 DEF Inventory!ReserveItem, Inventory!ReleaseItem, Inventory!ReserveRefuse,
     Inventory!Book, Inventory!Refuse, Inventory!Working
<1>5. ASSUME \/ Inventory!AnnounceRefusal(w) \/ Inventory!ReserveCommit(w)
             \/ Inventory!ReleaseCommit(w) \/ Inventory!Abort(w)
             \/ Inventory!DeadlockVictim(w)
      PROVE  work'[w] = Idle
  BY <1>5 DEF Inventory!AnnounceRefusal, Inventory!ReserveCommit, Inventory!ReleaseCommit,
     Inventory!Abort, Inventory!DeadlockVictim, Inventory!Fail
<1>6. CASE \/ Inventory!ReserveItem(w) \/ Inventory!ReleaseItem(w) \/ Inventory!ReserveRefuse(w)
  BY <1>4, <1>6 DEF SystemInv, AskedFor
<1> QED
  BY <1>2, <1>3, <1>5, <1>6 DEF InventoryStep, OnlyInventory, Inventory!WorkerStep

\* Only a release that was asked for leaves its trace in the ledger.
LEMMA ReleasesAsked ==
    ASSUME SystemInv, InventoryStep, NEW o \in Orders, releases'[o] > 0
    PROVE  Inventory!Sent("inventory.release", o)
<1>1. CASE Inventory!ReleaseCommit(Consumer)
  <2>1. releases[o] > 0 \/ o = work[Consumer].order
    BY <1>1 DEF Inventory!ReleaseCommit, Inventory!Recorded
  <2>2. work[Consumer] # Idle /\ work[Consumer].op = "release"
    BY <1>1 DEF Inventory!ReleaseCommit, Inventory!Working
  <2> QED
    BY <2>1, <2>2 DEF SystemInv, AskedFor
<1>2. CASE ~Inventory!ReleaseCommit(Consumer)
  <2>1. UNCHANGED releases
    BY <1>2 DEF InventoryStep, OnlyInventory, Inventory!WorkerStep, Inventory!ReserveBegin,
     Inventory!ReleaseBegin, Inventory!ReserveItem, Inventory!ReserveRefuse,
     Inventory!AnnounceRefusal, Inventory!ReserveCommit, Inventory!ReleaseItem,
     Inventory!Abort, Inventory!DeadlockVictim, Inventory!Fail
  <2> QED
    BY <2>1 DEF SystemInv, AskedFor
<1> QED
  BY <1>1, <1>2

\* A charge at work goes on with its order, or was asked for as it begins.
LEMMA MoneyGoesOn ==
    ASSUME SystemInv, PaymentStep, paying'[Consumer] # Idle
    PROVE  /\ paying'[Consumer].op \in {"charge", "charging", "charged"}
           /\ Payment!Sent("payment.charge", paying'[Consumer].order)
<1> DEFINE w == Consumer
<1> USE Typed DEF Payment!Goto, Payment!Doing
<1>1. paying[w] # Idle =>
         /\ paying[w].op \in {"charge", "charging", "charged"}
         /\ Payment!Sent("payment.charge", paying[w].order)
  BY DEF SystemInv, AskedFor
<1>2. ASSUME NEW o \in Orders, Payment!ChargeBegin(w, o)
      PROVE  paying'[w].op = "charge" /\ Payment!Sent("payment.charge", paying'[w].order)
  BY <1>2 DEF Payment!ChargeBegin
<1>3. ASSUME NEW o \in Orders PROVE ~Payment!RefundBegin(w, o)
  BY DEF SystemInv, AskedFor, Payment!RefundBegin
<1>4. ASSUME \/ Payment!ChargeInsert(w)
             \/ \E success \in BOOLEAN : Payment!ProviderCharge(w, success)
      PROVE  /\ paying[w] # Idle /\ paying'[w].order = paying[w].order
             /\ paying'[w].op \in {"charging", "charged"}
  BY <1>4 DEF Payment!ChargeInsert, Payment!ProviderCharge
<1>5. ~Payment!ProviderRefund(w) /\ ~Payment!RefundCommit(w)
  BY <1>1 DEF Payment!ProviderRefund, Payment!RefundCommit
<1>6. ~Payment!ChargeConflict(w) /\ ~Payment!ChargeCommit(w) /\ ~Payment!Crash(w)
      /\ ~Payment!Fail(w)
  BY DEF Payment!ChargeConflict, Payment!ChargeCommit, Payment!Crash, Payment!Fail,
     Payment!RollBack, Payment!Done
<1> QED
  BY <1>1, <1>2, <1>3, <1>4, <1>5, <1>6 DEF PaymentStep, OnlyPayment, Payment!WorkerStep

LEMMA AskedStep == ASSUME SystemInv, Next PROVE AskedFor'
<1> USE OutboxGrows DEF SystemInv
<1>1. /\ \A t, o : Inventory!Sent(t, o) => Inventory!Sent(t, o)'
      /\ \A t, o : Payment!Sent(t, o) => Payment!Sent(t, o)'
      /\ \A t, o : Order!Sent(t, o) => Order!Sent(t, o)'
  BY DEF Inventory!Sent, Payment!Sent, Order!Sent
<1>2. \A o \in Orders :
         /\ ~Payment!Sent("payment.refund", o)'
         /\ Order!Sent("inventory.release", o)' => Order!Sent("order.failed", o)'
  BY <1>1 DEF AskedFor
<1>3. CASE OrderStep
  BY <1>1, <1>2, <1>3 DEF OrderStep, OnlyOrder, inventoryVars, paymentVars, AskedFor
<1>4. CASE InventoryStep
  BY <1>1, <1>2, <1>4, StockGoesOn, ReleasesAsked
     DEF InventoryStep, OnlyInventory, paymentVars, AskedFor
<1>5. CASE PaymentStep
  BY <1>1, <1>2, <1>5, MoneyGoesOn DEF PaymentStep, OnlyPayment, inventoryVars, AskedFor
<1> QED
  BY <1>3, <1>4, <1>5 DEF Next

LEMMA MoneyStep == ASSUME SystemInv, Next PROVE MoneyIsTaken'
<1> USE Typed DEF Payment!Doing
<1>1. \A o : Payment!Sent("payment.charge", o) => Payment!Sent("payment.charge", o)'
  BY OutboxGrows DEF Payment!Sent
<1>2. CASE OrderStep \/ InventoryStep
  BY <1>1, <1>2 DEF OrderStep, OnlyOrder, InventoryStep, OnlyInventory, paymentVars,
     SystemInv, MoneyIsTaken
<1>3. CASE PaymentStep
  <2> DEFINE w == Consumer
             o == paying[Consumer].order
  <2>1. paying[w] # Idle =>
           /\ paying[w].op \in {"charge", "charging", "charged"}
           /\ Payment!Sent("payment.charge", o)
    BY DEF SystemInv, AskedFor
  <2>2. CASE \/ \E p \in Orders : Payment!ChargeBegin(w, p)
             \/ Payment!ChargeInsert(w) \/ Payment!ChargeConflict(w)
    <3>1. UNCHANGED <<payment, charges>> /\ (paying'[w] = Idle \/ paying'[w].op # "charged")
      BY <2>2 DEF Payment!ChargeBegin, Payment!ChargeInsert, Payment!ChargeConflict,
         Payment!Goto, Payment!Done
    <3> QED
      BY <1>1, <3>1 DEF SystemInv, MoneyIsTaken
  <2>3. ASSUME NEW success \in BOOLEAN, Payment!ProviderCharge(w, success)
        PROVE  MoneyIsTaken'
    <3>1. paying[w] # Idle /\ paying[w].op = "charging" /\ o \in Orders
      BY <2>3 DEF Payment!ProviderCharge
    <3>2. charges[o] = 0 /\ payment[o] = "NONE"
      <4>1. inserting[o] = w /\ payment[o] = "NONE" /\ charges[o] <= 0
        BY <3>1, PartsAssumptions DEF SystemInv, MoneyPart!IInv, MoneyPart!RowIsLocked,
           MoneyPart!Calling, MoneyPart!ChargesKnown, MoneyPart!Doing,
           MoneyPart!ConstantsAssumption
      <4> QED
        BY <3>1, <4>1
    <3>3. /\ paying'[w] = [op |-> "charged", order |-> o, success |-> success]
          /\ charges' = [charges EXCEPT ![o] = IF success THEN @ + 1 ELSE @]
          /\ UNCHANGED payment
      BY <2>3 DEF Payment!ProviderCharge
    <3>4. ~success => charges'[o] = 0
      BY <3>1, <3>2, <3>3
    <3>5. Payment!Doing(w, "charged")' /\ ~paying'[w].success => charges'[paying'[w].order] = 0
      BY <3>3, <3>4
    <3>6. ASSUME NEW p \in Orders
          PROVE  /\ charges'[p] > 0 => Payment!Sent("payment.charge", p)'
                 /\ payment'[p] = "FAILED" => charges'[p] = 0
                 /\ payment'[p] # "REFUNDED"
      BY <1>1, <2>1, <3>1, <3>2, <3>3 DEF SystemInv, MoneyIsTaken
    <3> QED
      BY <3>5, <3>6 DEF MoneyIsTaken
  <2>4. CASE Payment!ChargeCommit(w)
    <3>1. /\ paying[w] # Idle /\ paying[w].op = "charged" /\ o \in Orders
          /\ paying'[w] = Idle /\ UNCHANGED charges
          /\ payment' = [payment EXCEPT ![o] = IF paying[w].success THEN "COMPLETED" ELSE "FAILED"]
      BY <2>4 DEF Payment!ChargeCommit, Payment!Done
    <3>2. ~paying[w].success => charges[o] = 0
      BY <3>1 DEF SystemInv, MoneyIsTaken
    <3>3. ASSUME NEW p \in Orders
          PROVE  /\ charges'[p] > 0 => Payment!Sent("payment.charge", p)'
                 /\ payment'[p] = "FAILED" => charges'[p] = 0
                 /\ payment'[p] # "REFUNDED"
      BY <1>1, <3>1, <3>2 DEF SystemInv, MoneyIsTaken
    <3> QED
      BY <3>1, <3>3 DEF MoneyIsTaken
  <2>5. ~Payment!ProviderRefund(w) /\ ~Payment!RefundCommit(w) /\ ~Payment!Crash(w)
        /\ ~Payment!Fail(w) /\ \A p \in Orders : ~Payment!RefundBegin(w, p)
    BY <2>1 DEF Payment!ProviderRefund, Payment!RefundCommit, Payment!Crash, Payment!Fail,
       Payment!RollBack, SystemInv, AskedFor, Payment!RefundBegin
  <2> QED
    BY <1>3, <2>2, <2>3, <2>4, <2>5 DEF PaymentStep, OnlyPayment, Payment!WorkerStep
<1> QED
  BY <1>2, <1>3 DEF Next

-----------------------------------------------------------------------------
(* Theorems *)

LEMMA SystemStep == SystemInv /\ [Next]_vars => SystemInv'
<1> SUFFICES ASSUME SystemInv, [Next]_vars PROVE SystemInv'
  OBVIOUS
<1> USE DEF SystemInv
<1>1. CASE Next
  <2>1. OrderPart!Next \/ UNCHANGED OrderPart!vars
    BY <1>1, OrderStepSeen, OrderSeesOthers DEF Next, OrderPart!Next
  <2>2. OrderPart!IInv'
    BY <2>1, PartsAssumptions, OrderPart!StepIInv
  <2>3. StockPart!Next \/ UNCHANGED StockPart!vars
    BY <1>1, <2>2, StockSeesOrder, StockStepSeen, StockSeesMoney DEF Next, StockPart!Next
  <2>4. StockPart!OnceInv'
    BY <2>3, PartsAssumptions, StockPart!NextIInv, StockPart!NextOnce DEF StockPart!OnceInv
  <2>5. MoneyPart!Next \/ UNCHANGED MoneyPart!vars
    BY <1>1, MoneySeesOrder, MoneyStepSeen, MoneySeesStock DEF Next, MoneyPart!Next
  <2>6. MoneyPart!IInv'
    BY <2>5, PartsAssumptions, MoneyPart!NextIInv
  <2> QED
    BY <1>1, <2>2, <2>4, <2>6, AskedStep, MoneyStep
<1>2. CASE UNCHANGED vars
  <2>1. /\ UNCHANGED OrderPart!vars /\ UNCHANGED StockPart!vars /\ UNCHANGED MoneyPart!vars
    BY <1>2 DEF vars, orderVars, inventoryVars, paymentVars, OrderPart!vars,
       StockPart!vars, MoneyPart!vars, Visible, Of
  <2>2. OrderPart!IInv' /\ StockPart!OnceInv' /\ MoneyPart!IInv'
    BY <2>1, PartsAssumptions, OrderPart!StepIInv, StockPart!NextIInv, StockPart!NextOnce,
       MoneyPart!NextIInv DEF StockPart!OnceInv
  <2>3. AskedFor' /\ MoneyIsTaken'
    BY <1>2 DEF vars, orderVars, inventoryVars, paymentVars, AskedFor, MoneyIsTaken,
       Inventory!Sent, Payment!Sent, Order!Sent, Payment!Doing
  <2> QED
    BY <2>2, <2>3
<1> QED
  BY <1>1, <1>2

\* The invariants of order-service, inventory-service and payment-service hold
\* while the three work together: the commands and replies one of them writes
\* to its outbox are those the other two's modules expect.
THEOREM InductiveInvariant == Spec => []SystemInv
  BY InitSystem, SystemStep, PTL DEF Spec

\* ImplementsOrderService speaks of another instance of the same module.
LEMMA SameOrderService ==
    /\ OrderView!Init <=> OrderPart!Init
    /\ [OrderView!Next]_OrderView!vars <=> [OrderPart!Next]_OrderPart!vars
  BY DEF OrderView!Init, OrderPart!Init, OrderView!NoSaga, OrderPart!NoSaga,
         OrderView!NoSweep, OrderPart!NoSweep, OrderView!Next, OrderPart!Next,
         OrderView!ServiceStep, OrderPart!ServiceStep, OrderView!ParticipantStep,
         OrderPart!ParticipantStep, OrderView!RequestStep, OrderPart!RequestStep,
         OrderView!ConsumerStep, OrderPart!ConsumerStep, OrderView!Handle,
         OrderPart!Handle, OrderView!SweepStep, OrderPart!SweepStep,
         OrderView!CreateLookup, OrderPart!CreateLookup, OrderView!CreateCommit,
         OrderPart!CreateCommit, OrderView!CreateConflict, OrderPart!CreateConflict,
         OrderView!CancelLookup, OrderPart!CancelLookup, OrderView!CancelCommit,
         OrderPart!CancelCommit, OrderView!AbortRequest, OrderPart!AbortRequest,
         OrderView!Receive, OrderPart!Receive, OrderView!AbortDelivery,
         OrderPart!AbortDelivery, OrderView!OnInventoryReserved,
         OrderPart!OnInventoryReserved, OrderView!OnInventoryFailed,
         OrderPart!OnInventoryFailed, OrderView!OnPaymentCompleted,
         OrderPart!OnPaymentCompleted, OrderView!OnPaymentFailed,
         OrderPart!OnPaymentFailed, OrderView!SweepFind, OrderPart!SweepFind,
         OrderView!SweepRead, OrderPart!SweepRead, OrderView!CompensateTimedOut,
         OrderPart!CompensateTimedOut, OrderView!AbortSweep, OrderPart!AbortSweep,
         OrderView!Expire, OrderPart!Expire, OrderView!InventoryReply,
         OrderPart!InventoryReply, OrderView!PaymentReply, OrderPart!PaymentReply,
         OrderView!KeyTaken, OrderPart!KeyTaken, OrderView!Exists, OrderPart!Exists,
         OrderView!Cancellable, OrderPart!Cancellable, OrderView!Running,
         OrderPart!Running, OrderView!Handling, OrderPart!Handling,
         OrderView!FailSaga, OrderPart!FailSaga, OrderView!Overdue,
         OrderPart!Overdue, OrderView!Sent, OrderPart!Sent, OrderView!Msg,
         OrderPart!Msg, OrderView!InventoryReplies, OrderPart!InventoryReplies,
         OrderView!PaymentReplies, OrderPart!PaymentReplies, OrderView!Cardinality,
         OrderPart!Cardinality, OrderView!vars, OrderPart!vars

\* Inventory and payment keep to what OrderService assumes of them: no reply
\* without its command, whatever the handlers of the three services interleave.
THEOREM Refinement == Spec => ImplementsOrderService
<1>1. Init => OrderView!Init
  BY InitOrder, SameOrderService
<1>2. SystemInv /\ [Next]_vars => [OrderView!Next]_OrderView!vars
  <2>1. SystemInv /\ Next => OrderPart!Next \/ UNCHANGED OrderPart!vars
    BY OrderStepSeen, OrderSeesOthers DEF Next, OrderPart!Next
  <2>2. UNCHANGED vars => UNCHANGED OrderPart!vars
    BY DEF vars, orderVars, OrderPart!vars, Visible
  <2> QED
    BY <2>1, <2>2, SameOrderService
<1> QED
  BY <1>1, <1>2, InductiveInvariant, PTL DEF Spec, ImplementsOrderService, OrderView!Spec

\* payment-service, too, works in the surroundings its module assumes, and is
\* never asked for a refund.
THEOREM PaymentRefinement == Spec => MoneyPart!Spec
<1>1. SystemInv /\ [Next]_vars => [MoneyPart!Next]_MoneyPart!vars
  <2>1. SystemInv /\ Next => MoneyPart!Next \/ UNCHANGED MoneyPart!vars
    BY MoneySeesOrder, MoneyStepSeen, MoneySeesStock DEF Next, MoneyPart!Next
  <2>2. UNCHANGED vars => UNCHANGED MoneyPart!vars
    BY DEF vars, paymentVars, MoneyPart!vars, Of
  <2> QED
    BY <2>1, <2>2
<1> QED
  BY <1>1, InitMoney, InductiveInvariant, PTL DEF Spec, MoneyPart!Spec

\* inventory-service takes the steps of its module, from posted stock on.
THEOREM StockSteps == Spec => [][StockPart!Next]_(StockPart!vars)
<1>1. SystemInv /\ [Next]_vars /\ SystemInv' => [StockPart!Next]_(StockPart!vars)
  <2>1. SystemInv /\ Next /\ SystemInv' => StockPart!Next \/ UNCHANGED StockPart!vars
    BY StockSeesOrder, StockStepSeen, StockSeesMoney DEF Next, StockPart!Next, SystemInv
  <2>2. UNCHANGED vars => UNCHANGED StockPart!vars
    BY DEF vars, inventoryVars, StockPart!vars, Of
  <2> QED
    BY <2>1, <2>2
<1> QED
  BY <1>1, InductiveInvariant, PTL DEF Spec

LEMMA InitStockHeld == Init => StockPart!HeldInv
<1> SUFFICES ASSUME Init PROVE StockPart!HeldInv
  OBVIOUS
<1>1. StockPart!OnceInv
  BY InitStock
<1>2. \A o \in Orders : reserves[o] = 0 /\ releases[o] = 0
  BY DEF Init
<1>3. ASSUME NEW p \in Products
      PROVE  /\ row[p].reserved = 0 /\ row[p].available = row[p].quantity - row[p].reserved
             /\ row[p] # NoRow /\ draft[p] = NoRow /\ lock[p] = Free
  <2> DEFINE posted == [quantity |-> booked[p], reserved |-> 0, available |-> booked[p]]
  <2>1. booked[p] \in Nat
    BY ConstantsAssumption DEF Init
  <2>2. row[p] = posted
    BY DEF Init
  <2>3. posted \in Inventory!Row /\ posted.reserved = 0
        /\ posted.available = posted.quantity - posted.reserved
    BY <2>1 DEF Inventory!Row
  <2>4. NoRow \notin Inventory!Row
    BY ConstantsAssumption
  <2>5. draft[p] = NoRow /\ lock[p] = Free
    BY DEF Init
  <2> HIDE DEF posted
  <2> QED
    BY <2>2, <2>3, <2>4, <2>5
<1>4. StockPart!HeldHasRows
  <2>1. \A p \in Products : StockPart!SumFunction(StockPart!Held(p)) = 0
    BY <1>1, <1>2, PartsAssumptions, StockPart!NothingHeld
  <2> QED
    BY <1>3, <2>1 DEF StockPart!HeldHasRows
<1>5. StockPart!AvailableFollows
  BY <1>3 DEF StockPart!AvailableFollows
<1>6. StockPart!ItemsPending
  BY <1>3, ConstantsAssumption
     DEF Init, StockPart!ItemsPending, StockPart!PendingOf, StockPart!Working
<1> QED
  BY <1>1, <1>4, <1>5, <1>6 DEF StockPart!HeldInv

\* However orders, payments and timeouts interleave with reservations, no unit
\* of stock is sold twice: the rows are never overdrawn, and what is reserved of
\* a product is the sum of what the orders hold of it.
THEOREM StockIsRight ==
    Spec => [](/\ StockPart!NeverNegative
               /\ StockPart!ReservedIsHeld /\ StockPart!AvailableIsComputed)
<1>1. StockPart!HeldInv /\ [StockPart!Next]_(StockPart!vars) => StockPart!HeldInv'
  BY PartsAssumptions, StockPart!NextHeld
<1>2. StockPart!HeldInv =>
          /\ StockPart!NeverNegative
          /\ StockPart!ReservedIsHeld /\ StockPart!AvailableIsComputed
  BY DEF StockPart!HeldInv, StockPart!OnceInv, StockPart!IInv, StockPart!HeldHasRows,
     StockPart!ReservedIsHeld, StockPart!AvailableFollows, StockPart!AvailableIsComputed
<1>3. Spec => StockPart!HeldInv /\ [][StockPart!Next]_(StockPart!vars)
  BY InitStockHeld, StockSteps DEF Spec
<1> QED
  BY <1>1, <1>2, <1>3, PTL

\* What a reply in the outbox says of the tables behind it.
LEMMA RepliesAreBacked ==
    ASSUME SystemInv, NEW o \in Orders
    PROVE  /\ OrderPart!Sent("payment.completed", o) => payment[o] = "COMPLETED"
           /\ OrderPart!Sent("payment.failed", o) => payment[o] = "FAILED"
           /\ OrderPart!Sent("inventory.reserved", o) /\ Items[o] # <<>> => reserves[o] = 1
<1>1. \A t \in MoneyTopics : OrderPart!Sent(t, o) => MoneyPart!Sent(t, o)
  BY DEF OrderPart!Sent, OrderPart!Msg, MoneyPart!Sent, MoneyPart!Msg, Visible, Of
<1>2. OrderPart!Sent("inventory.reserved", o) => StockPart!Sent("inventory.reserved", o)
  BY DEF OrderPart!Sent, OrderPart!Msg, StockPart!Sent, StockPart!Msg, Visible, Of, StockTopics
<1>3. payment[o] # "REFUNDED"
  BY DEF SystemInv, MoneyIsTaken
<1> QED
  BY <1>1, <1>2, <1>3 DEF MoneyTopics, SystemInv, MoneyPart!IInv, MoneyPart!OneAnswer,
     StockPart!OnceInv, StockPart!LedgerFollowed

\* What order-service shows is covered by stock and money, for any orders with
\* any items, in every interleaving of the three services, with timeouts,
\* cancellations and declined payments.
THEOREM Backed == Spec => []OutcomeIsBacked
<1>1. SystemInv => OutcomeIsBacked
  <2> SUFFICES ASSUME SystemInv, NEW o \in Orders
               PROVE  /\ Completed(o) => payment[o] = "COMPLETED" /\ charges[o] = 1
                      /\ Completed(o) \/ charges[o] > 0 => Items[o] = <<>> \/ HoldsStock(o)
                      /\ releases[o] > 0 => payment[o] = "FAILED" /\ Failed(o)
    BY DEF OutcomeIsBacked
  <2>1. /\ reserves[o] \in Nat /\ releases[o] \in Nat /\ charges[o] \in Nat
        /\ saga[o].status \in {"NONE", "RUNNING", "COMPLETED", "FAILED"}
    <3>1. StockPart!TypeOK /\ MoneyPart!TypeOK /\ OrderPart!TypeOK
      BY DEF SystemInv, StockPart!OnceInv, StockPart!IInv, MoneyPart!IInv, OrderPart!IInv
    <3>2. reserves[o] \in Nat /\ releases[o] \in Nat /\ charges[o] \in Nat
      BY <3>1 DEF StockPart!TypeOK, MoneyPart!TypeOK
    <3>3. saga[o].status \in {"NONE", "RUNNING", "COMPLETED", "FAILED"}
      BY <3>1 DEF OrderPart!TypeOK, OrderPart!SagaStatus
    <3> QED
      BY <3>2, <3>3
  <2>2. /\ OrderPart!Sent("payment.charge", o) => OrderPart!Sent("inventory.reserved", o)
        /\ OrderPart!Sent("inventory.release", o) => OrderPart!Sent("payment.failed", o)
        /\ OrderPart!Sent("order.completed", o) => OrderPart!Sent("payment.completed", o)
        /\ OrderPart!Sent("order.completed", o) => OrderPart!Sent("inventory.reserved", o)
    BY DEF SystemInv, OrderPart!IInv, OrderPart!SagaCausality
  <2>3. Completed(o) => OrderPart!Sent("order.completed", o)
    BY DEF Completed, SystemInv, OrderPart!IInv, OrderPart!OutcomeAnnounced
  <2>4. Completed(o) => payment[o] = "COMPLETED"
    BY <2>2, <2>3, RepliesAreBacked
  <2>5. releases[o] > 0 => payment[o] = "FAILED" /\ Failed(o)
    <3> SUFFICES ASSUME releases[o] > 0 PROVE payment[o] = "FAILED" /\ Failed(o)
      OBVIOUS
    <3>1. Inventory!Sent("inventory.release", o) /\ Order!Sent("order.failed", o)
      BY DEF SystemInv, AskedFor, Inventory!Sent, Order!Sent, Inventory!Msg, Order!Msg
    <3>2. OrderPart!Sent("inventory.release", o) /\ OrderPart!Sent("order.failed", o)
      BY <3>1 DEF Inventory!Sent, Order!Sent, Inventory!Msg, Order!Msg, OrderPart!Sent,
         OrderPart!Msg, Visible, Order!Topics, Order!Commands, Order!Announcements
    <3>3. payment[o] = "FAILED"
      BY <2>2, <3>2, RepliesAreBacked
    <3>4. saga[o].status \in {"COMPLETED", "FAILED"}
      BY <3>2 DEF SystemInv, OrderPart!IInv, OrderPart!OutcomeAnnounced
    <3> QED
      BY <2>4, <3>3, <3>4 DEF Completed, Failed
  <2>6. charges[o] > 0 => OrderPart!Sent("inventory.reserved", o)
    <3>1. charges[o] > 0 => Payment!Sent("payment.charge", o)
      BY DEF SystemInv, MoneyIsTaken
    <3>2. Payment!Sent("payment.charge", o) => OrderPart!Sent("payment.charge", o)
      BY DEF Payment!Sent, Payment!Msg, OrderPart!Sent, OrderPart!Msg, Visible, Order!Topics,
         Order!Commands
    <3> QED
      BY <2>2, <3>1, <3>2
  <2>7. charges[o] > 0 => payment[o] # "FAILED"
    BY <2>1 DEF SystemInv, MoneyIsTaken
  <2>8. Completed(o) => charges[o] = 1
    <3>1. charges[o] <= 1 + 0 /\ (payment[o] = "COMPLETED" => charges[o] > 0)
      BY DEF SystemInv, MoneyPart!IInv, MoneyPart!ChargedOncePerAttempt, MoneyPart!PaidIsCharged
    <3> QED
      BY <2>1, <2>4, <3>1
  <2> QED
    BY <2>1, <2>2, <2>3, <2>4, <2>5, <2>6, <2>7, <2>8, RepliesAreBacked DEF HoldsStock
<1> QED
  BY <1>1, InductiveInvariant, PTL
=============================================================================
