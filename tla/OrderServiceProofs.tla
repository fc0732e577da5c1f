------------------------ MODULE OrderServiceProofs ------------------------
(***************************************************************************)
(* Proofs about OrderService for any sets of orders, users, requests,      *)
(* consumers and sweeps: the inductive invariant IInv, the safety          *)
(* properties it contains, and the refinement of OrderLifecycle.           *)
(***************************************************************************)
EXTENDS OrderService, TLAPS

LEMMA InitIInv == Init => IInv
<1> SUFFICES ASSUME Init PROVE IInv
  OBVIOUS
<1> USE ConstantsAssumption DEF Init
<1>1. TypeOK
  BY DEF TypeOK, Request, NoSaga, NoSweep
<1>2. HandlersGrounded
  BY DEF HandlersGrounded, NoSweep
<1>3. StatusMatchesSaga /\ OutcomeAnnounced
  BY DEF StatusMatchesSaga, OutcomeAnnounced, Running, NoSaga, Sent
<1>4. SagaCausality /\ FailureHasCause /\ StepTellsCommands
  BY DEF SagaCausality, FailureHasCause, StepTellsCommands, NoSaga, Sent
<1> QED
  BY <1>1, <1>2, <1>3, <1>4 DEF IInv

\* Every action keeps the types.
LEMMA TypeStep == TypeOK /\ [Next]_vars => TypeOK'
<1> SUFFICES ASSUME TypeOK, [Next]_vars PROVE TypeOK'
  OBVIOUS
<1> USE ConstantsAssumption
<1>1. ASSUME NEW r \in Requests, RequestStep(r) PROVE TypeOK'
  <2>1. ASSUME NEW u \in Users, NEW k \in Keys \cup {NoKey}, CreateLookup(r, u, k)
        PROVE TypeOK'
    BY <2>1 DEF TypeOK, CreateLookup, Request
  <2>2. ASSUME NEW o \in Orders, CreateCommit(r, o) PROVE TypeOK'
    <3>1. request[r] \in [op : {"create"}, user : Users, key : Keys \cup {NoKey}]
      BY <2>2 DEF TypeOK, CreateCommit, Request
    <3> QED
      BY <2>2, <3>1 DEF TypeOK, CreateCommit, Request, Event, Topics, Commands,
         Announcements, Msg, OrderStatus, SagaStatus
  <2>3. ASSUME CreateConflict(r) PROVE TypeOK'
    BY <2>3 DEF TypeOK, CreateConflict, Request
  <2>4. ASSUME NEW u \in Users, NEW admin \in BOOLEAN, NEW o \in Orders,
               CancelLookup(r, u, admin, o)
        PROVE TypeOK'
    BY <2>4 DEF TypeOK, CancelLookup, Request
  <2>5. ASSUME CancelCommit(r) PROVE TypeOK'
    <3>1. request[r].order \in Orders
      BY <2>5 DEF TypeOK, CancelCommit, Request
    <3> QED
      BY <2>5, <3>1 DEF TypeOK, CancelCommit, Request, Event, Topics, Commands,
         Announcements, Msg, OrderStatus
  <2>6. ASSUME AbortRequest(r) PROVE TypeOK'
    BY <2>6 DEF TypeOK, AbortRequest, Request
  <2> QED
    BY <1>1, <2>1, <2>2, <2>3, <2>4, <2>5, <2>6 DEF RequestStep
<1>2. ASSUME NEW c \in Consumers, ConsumerStep(c) PROVE TypeOK'
  <2>1. ASSUME NEW m \in events, Receive(c, m) PROVE TypeOK'
    BY <2>1 DEF TypeOK, Receive
  <2>2. ASSUME Handle(c) PROVE TypeOK'
    <3>1. delivery[c].order \in Orders
      BY <2>2 DEF TypeOK, Handle, OnInventoryReserved, OnInventoryFailed,
         OnPaymentCompleted, OnPaymentFailed, Handling, Event
    <3> USE <3>1 DEF TypeOK, Event, Topics, Commands, Announcements, Msg,
            OrderStatus, SagaStatus
    <3>2. CASE OnInventoryReserved(c)
      BY <3>2 DEF OnInventoryReserved
    <3>3. CASE OnInventoryFailed(c)
      BY <3>3 DEF OnInventoryFailed, FailSaga
    <3>4. CASE OnPaymentCompleted(c)
      BY <3>4 DEF OnPaymentCompleted
    <3>5. CASE OnPaymentFailed(c)
      BY <3>5 DEF OnPaymentFailed
    <3> QED
      BY <2>2, <3>2, <3>3, <3>4, <3>5 DEF Handle
  <2>3. ASSUME AbortDelivery(c) PROVE TypeOK'
    BY <2>3 DEF TypeOK, AbortDelivery
  <2> QED
    BY <1>2, <2>1, <2>2, <2>3 DEF ConsumerStep
<1>3. ASSUME NEW s \in Sweepers, SweepStep(s) \/ AbortSweep(s) PROVE TypeOK'
  <2>1. ASSUME NEW found \in SUBSET Overdue, SweepFind(s, found) PROVE TypeOK'
    BY <2>1 DEF TypeOK, SweepFind, Overdue
  <2>2. ASSUME NEW o \in Orders, SweepRead(s, o) PROVE TypeOK'
    BY <2>2 DEF TypeOK, SweepRead
  <2>3. ASSUME CompensateTimedOut(s) PROVE TypeOK'
    <3>1. sweep[s].reading \in Orders
      BY <2>3 DEF TypeOK, CompensateTimedOut
    <3> QED
      BY <2>3, <3>1 DEF TypeOK, CompensateTimedOut, FailSaga, Event, Topics,
         Commands, Announcements, Msg, OrderStatus, SagaStatus
  <2>4. ASSUME AbortSweep(s) PROVE TypeOK'
    BY <2>4 DEF TypeOK, AbortSweep
  <2> QED
    BY <1>3, <2>1, <2>2, <2>3, <2>4 DEF SweepStep
<1>4. ASSUME NEW o \in Orders, Expire(o) PROVE TypeOK'
  BY <1>4 DEF TypeOK, Expire
<1>5. ASSUME ParticipantStep PROVE TypeOK'
  BY <1>5 DEF TypeOK, ParticipantStep, InventoryReply, PaymentReply, Event,
     Topics, Msg
<1>6. ASSUME UNCHANGED vars PROVE TypeOK'
  BY <1>6 DEF TypeOK, vars
<1> QED
  BY <1>1, <1>2, <1>3, <1>4, <1>5, <1>6 DEF Next, ServiceStep

\* The parts of IInv beside TypeOK, spelled out once for the steps below.
Facts == /\ HandlersGrounded
         /\ StatusMatchesSaga
         /\ OutcomeAnnounced
         /\ SagaCausality
         /\ FailureHasCause
         /\ StepTellsCommands

\* Two messages are the same only if their topics are.
LEMMA MsgTopic == \A t, u, o, p : t # u => Msg(t, o) # Msg(u, p)
<1> SUFFICES ASSUME NEW t, NEW u, NEW o, NEW p, Msg(t, o) = Msg(u, p) PROVE t = u
  OBVIOUS
<1>1. Msg(t, o).topic = t /\ Msg(u, p).topic = u
  BY DEF Msg
<1> QED
  BY <1>1

\* All of them but HandlersGrounded speak of four variables only.
LEMMA FactsFrame ==
    ASSUME IInv, UNCHANGED <<status, saga, events, expired>>, HandlersGrounded'
    PROVE  Facts'
<1> USE DEF IInv, Exists, Running, Sent, Msg
<1>1. StatusMatchesSaga' /\ OutcomeAnnounced'
  BY DEF StatusMatchesSaga, OutcomeAnnounced
<1>2. SagaCausality'
  BY DEF SagaCausality
<1>3. FailureHasCause'
  BY DEF FailureHasCause
<1>4. StepTellsCommands'
  BY DEF StepTellsCommands
<1> QED
  BY <1>1, <1>2, <1>3, <1>4 DEF Facts

LEMMA RequestKeepsFacts ==
    ASSUME IInv, TypeOK', NEW r \in Requests, RequestStep(r)
    PROVE  Facts'
<1> USE ConstantsAssumption DEF IInv, Exists, Running, Sent, Msg
<1>1. ASSUME NEW u \in Users, NEW k \in Keys \cup {NoKey}, CreateLookup(r, u, k)
      PROVE Facts'
  BY <1>1, FactsFrame DEF CreateLookup, TypeOK, HandlersGrounded
<1>2. ASSUME NEW o \in Orders, CreateCommit(r, o) PROVE Facts'
  <2>1. \A e \in events : e.order # o
    BY <1>2 DEF CreateCommit, HandlersGrounded
  <2> USE <1>2, <2>1 DEF CreateCommit, TypeOK
  <2>2. HandlersGrounded'
    BY DEF HandlersGrounded
  <2>3. StatusMatchesSaga' /\ OutcomeAnnounced'
    BY DEF StatusMatchesSaga, OutcomeAnnounced
  <2>4. SagaCausality'
    BY DEF SagaCausality
  <2>5. FailureHasCause'
    BY DEF FailureHasCause
  <2>7. ~Sent("payment.charge", o)
    OBVIOUS
  <2> HIDE DEF Msg
  <2>6. StepTellsCommands'
    BY <2>7, MsgTopic DEF StepTellsCommands
  <2> QED
    BY <2>2, <2>3, <2>4, <2>5, <2>6 DEF Facts
<1>3. ASSUME CreateConflict(r) PROVE Facts'
  BY <1>3, FactsFrame DEF CreateConflict, TypeOK, HandlersGrounded
<1>4. ASSUME NEW u \in Users, NEW admin \in BOOLEAN, NEW o \in Orders,
             CancelLookup(r, u, admin, o)
      PROVE Facts'
  BY <1>4, FactsFrame DEF CancelLookup, TypeOK, HandlersGrounded
<1>5. ASSUME CancelCommit(r) PROVE Facts'
  <2> USE <1>5 DEF CancelCommit, TypeOK
  <2>1. request[r].order \in Orders /\ Exists(request[r].order)
    BY DEF HandlersGrounded, Request
  <2> USE <2>1
  <2>2. HandlersGrounded'
    BY DEF HandlersGrounded
  <2>3. StatusMatchesSaga' /\ OutcomeAnnounced'
    BY DEF StatusMatchesSaga, OutcomeAnnounced
  <2>4. SagaCausality'
    BY DEF SagaCausality
  <2>5. FailureHasCause'
    BY DEF FailureHasCause
  <2> HIDE DEF Msg
  <2>6. StepTellsCommands'
    BY MsgTopic DEF StepTellsCommands
  <2> QED
    BY <2>2, <2>3, <2>4, <2>5, <2>6 DEF Facts
<1>6. ASSUME AbortRequest(r) PROVE Facts'
  BY <1>6, FactsFrame DEF AbortRequest, TypeOK, HandlersGrounded
<1> QED
  BY <1>1, <1>2, <1>3, <1>4, <1>5, <1>6 DEF RequestStep

LEMMA ConsumerKeepsFacts ==
    ASSUME IInv, TypeOK', NEW c \in Consumers, ConsumerStep(c)
    PROVE  Facts'
<1> USE ConstantsAssumption DEF IInv, Exists, Running, Sent, Msg
<1>1. ASSUME NEW m \in events, Receive(c, m) PROVE Facts'
  BY <1>1, FactsFrame DEF Receive, TypeOK, HandlersGrounded
<1>2. ASSUME Handle(c) PROVE Facts'
  <2> DEFINE o == delivery[c].order
             t == delivery[c].topic
  <2>1. /\ o \in Orders
        /\ delivery[c] \in events
        /\ delivery[c] = [topic |-> t, order |-> o]
        /\ Exists(o)
    BY <1>2 DEF TypeOK, Handle, OnInventoryReserved, OnInventoryFailed,
       OnPaymentCompleted, OnPaymentFailed, Handling, Event, HandlersGrounded
  <2>2. Sent(t, o)
    BY <2>1
  <2> HIDE DEF o
  <2>3. CASE OnInventoryReserved(c)
    <3> USE <2>1, <2>2, <2>3 DEF OnInventoryReserved, Handling, TypeOK, o
    <3>1. HandlersGrounded'
      BY DEF HandlersGrounded
    <3>2. StatusMatchesSaga' /\ OutcomeAnnounced'
      BY DEF StatusMatchesSaga, OutcomeAnnounced
    <3>3. SagaCausality'
      BY DEF SagaCausality
    <3>4. FailureHasCause'
      BY DEF FailureHasCause
    <3> HIDE DEF Msg
    <3>5. StepTellsCommands'
      <4>1. ASSUME NEW p \in Orders, p # o
            PROVE  saga'[p] = saga[p] /\ (Sent("payment.charge", p)' => Sent("payment.charge", p))
        BY <4>1 DEF Msg
      <4>2. saga'[o].step = "PAYMENT_CHARGE_SENT"
        OBVIOUS
      <4>4. Msg("payment.charge", o) \in events'
        OBVIOUS
      <4>3. events \subseteq events'
        OBVIOUS
      <4> QED
        BY <4>1, <4>2, <4>3, <4>4 DEF StepTellsCommands
    <3> QED
      BY <3>1, <3>2, <3>3, <3>4, <3>5 DEF Facts
  <2>4. CASE OnInventoryFailed(c)
    <3> USE <2>1, <2>2, <2>4 DEF OnInventoryFailed, FailSaga, Handling, TypeOK, o
    <3>1. HandlersGrounded'
      BY DEF HandlersGrounded
    <3>2. StatusMatchesSaga' /\ OutcomeAnnounced'
      BY DEF StatusMatchesSaga, OutcomeAnnounced
    <3>3. SagaCausality'
      BY DEF SagaCausality
    <3>4. FailureHasCause'
      BY DEF FailureHasCause
    <3> HIDE DEF Msg
    <3>5. StepTellsCommands'
      BY MsgTopic DEF StepTellsCommands
    <3> QED
      BY <3>1, <3>2, <3>3, <3>4, <3>5 DEF Facts
  <2>5. CASE OnPaymentCompleted(c)
    <3> USE <2>1, <2>2, <2>5 DEF OnPaymentCompleted, Handling, TypeOK, o
    <3>1. HandlersGrounded'
      BY DEF HandlersGrounded
    <3>2. StatusMatchesSaga' /\ OutcomeAnnounced'
      BY DEF StatusMatchesSaga, OutcomeAnnounced
    <3>3. SagaCausality'
      BY DEF SagaCausality
    <3>4. FailureHasCause'
      BY DEF FailureHasCause
    <3> HIDE DEF Msg
    <3>5. StepTellsCommands'
      BY MsgTopic DEF StepTellsCommands
    <3> QED
      BY <3>1, <3>2, <3>3, <3>4, <3>5 DEF Facts
  <2>6. CASE OnPaymentFailed(c)
    <3> USE <2>1, <2>2, <2>6 DEF OnPaymentFailed, Handling, TypeOK, o
    <3>1. HandlersGrounded'
      BY DEF HandlersGrounded
    <3>2. StatusMatchesSaga' /\ OutcomeAnnounced'
      BY DEF StatusMatchesSaga, OutcomeAnnounced
    <3>3. SagaCausality'
      BY DEF SagaCausality
    <3>4. FailureHasCause'
      BY DEF FailureHasCause
    <3> HIDE DEF Msg
    <3>5. StepTellsCommands'
      BY MsgTopic DEF StepTellsCommands
    <3> QED
      BY <3>1, <3>2, <3>3, <3>4, <3>5 DEF Facts
  <2> QED
    BY <1>2, <2>3, <2>4, <2>5, <2>6 DEF Handle
<1>3. ASSUME AbortDelivery(c) PROVE Facts'
  BY <1>3, FactsFrame DEF AbortDelivery, TypeOK, HandlersGrounded
<1> QED
  BY <1>1, <1>2, <1>3 DEF ConsumerStep

LEMMA SweepKeepsFacts ==
    ASSUME IInv, TypeOK', NEW s \in Sweepers, SweepStep(s) \/ AbortSweep(s)
    PROVE  Facts'
<1> USE ConstantsAssumption DEF IInv, Exists, Running, Sent, Msg
<1>1. ASSUME NEW found \in SUBSET Overdue, SweepFind(s, found) PROVE Facts'
  BY <1>1, FactsFrame DEF SweepFind, Overdue, TypeOK, HandlersGrounded
<1>2. ASSUME NEW o \in Orders, SweepRead(s, o) PROVE Facts'
  <2>1. HandlersGrounded'
    BY <1>2 DEF SweepRead, HandlersGrounded, TypeOK
  <2> QED
    BY <1>2, <2>1, FactsFrame DEF SweepRead
<1>3. ASSUME CompensateTimedOut(s) PROVE Facts'
  <2> USE <1>3 DEF CompensateTimedOut, FailSaga, TypeOK
  <2>1. sweep[s].reading \in Orders /\ sweep[s].reading \in expired
    BY DEF HandlersGrounded
  <2>2. Exists(sweep[s].reading)
    BY <2>1 DEF HandlersGrounded
  <2> USE <2>1, <2>2
  <2>3. HandlersGrounded'
    BY DEF HandlersGrounded
  <2>4. StatusMatchesSaga' /\ OutcomeAnnounced'
    BY DEF StatusMatchesSaga, OutcomeAnnounced
  <2>5. SagaCausality'
    BY DEF SagaCausality
  <2>6. FailureHasCause'
    BY DEF FailureHasCause
  <2> HIDE DEF Msg
  <2>7. StepTellsCommands'
    BY MsgTopic DEF StepTellsCommands
  <2> QED
    BY <2>3, <2>4, <2>5, <2>6, <2>7 DEF Facts
<1>4. ASSUME AbortSweep(s) PROVE Facts'
  BY <1>4, FactsFrame DEF AbortSweep, TypeOK, HandlersGrounded
<1> QED
  BY <1>1, <1>2, <1>3, <1>4 DEF SweepStep

\* The participants only add replies: nothing that has to be shown of an
\* order speaks of a reply being absent.
LEMMA ParticipantKeepsFacts ==
    ASSUME IInv, TypeOK', ParticipantStep
    PROVE  Facts'
<1> USE ConstantsAssumption DEF IInv, Exists, Running, Sent, Msg
<1>1. ASSUME NEW o \in Orders, NEW t \in InventoryReplies, InventoryReply(t, o)
      PROVE Facts'
  <2>1. Exists(o)
    BY <1>1 DEF InventoryReply, HandlersGrounded
  <2> USE <1>1, <2>1 DEF InventoryReply, InventoryReplies, TypeOK
  <2>2. HandlersGrounded'
    BY DEF HandlersGrounded
  <2>3. StatusMatchesSaga' /\ OutcomeAnnounced'
    BY DEF StatusMatchesSaga, OutcomeAnnounced
  <2>4. SagaCausality'
    BY DEF SagaCausality
  <2>5. FailureHasCause' /\ StepTellsCommands'
    BY DEF FailureHasCause, StepTellsCommands
  <2> QED
    BY <2>2, <2>3, <2>4, <2>5 DEF Facts
<1>2. ASSUME NEW o \in Orders, NEW t \in PaymentReplies, PaymentReply(t, o)
      PROVE Facts'
  <2>1. Exists(o)
    BY <1>2 DEF PaymentReply, HandlersGrounded
  <2> USE <1>2, <2>1 DEF PaymentReply, PaymentReplies, TypeOK
  <2>2. HandlersGrounded'
    BY DEF HandlersGrounded
  <2>3. StatusMatchesSaga' /\ OutcomeAnnounced'
    BY DEF StatusMatchesSaga, OutcomeAnnounced
  <2>4. SagaCausality'
    BY DEF SagaCausality
  <2>5. FailureHasCause' /\ StepTellsCommands'
    BY DEF FailureHasCause, StepTellsCommands
  <2> QED
    BY <2>2, <2>3, <2>4, <2>5 DEF Facts
<1> QED
  BY <1>1, <1>2 DEF ParticipantStep

LEMMA StepIInv == IInv /\ [Next]_vars => IInv'
<1> SUFFICES ASSUME IInv, [Next]_vars PROVE IInv'
  OBVIOUS
<1>1. TypeOK'
  BY TypeStep DEF IInv
<1>2. ASSUME NEW o \in Orders, Expire(o) PROVE Facts'
  <2> USE <1>2 DEF Expire, IInv, Exists, Running, Sent, Msg
  <2>1. HandlersGrounded'
    BY DEF HandlersGrounded
  <2>2. StatusMatchesSaga' /\ OutcomeAnnounced'
    BY DEF StatusMatchesSaga, OutcomeAnnounced
  <2>3. SagaCausality'
    BY DEF SagaCausality
  <2>4. FailureHasCause'
    BY DEF FailureHasCause
  <2> HIDE DEF Msg
  <2>5. StepTellsCommands'
    BY MsgTopic DEF StepTellsCommands
  <2> QED
    BY <2>1, <2>2, <2>3, <2>4, <2>5 DEF Facts
<1>3. ASSUME UNCHANGED vars PROVE Facts'
  BY <1>3, FactsFrame DEF vars, IInv, HandlersGrounded, Exists
<1>4. Facts'
  BY <1>1, <1>2, <1>3, RequestKeepsFacts, ConsumerKeepsFacts, SweepKeepsFacts,
     ParticipantKeepsFacts DEF Next, ServiceStep
<1> QED
  BY <1>1, <1>4 DEF IInv, Facts

THEOREM InductiveInvariant == Spec => []IInv
<1> QED
  BY InitIInv, StepIInv, PTL DEF Spec

\* Whatever the handlers interleave, every row, event and task is well formed,
\* and no transaction leaves an intermediate saga step behind.
THEOREM TypeCorrect == Spec => []TypeOK
<1>1. IInv => TypeOK
  BY DEF IInv
<1> QED
  BY <1>1, InductiveInvariant, PTL

\* What handlers carry across an await is still true when they write.
THEOREM HandlersStayGrounded == Spec => []HandlersGrounded
<1>1. IInv => HandlersGrounded
  BY DEF IInv
<1> QED
  BY <1>1, InductiveInvariant, PTL

\* The order row never contradicts the saga row.
THEOREM StatusAgrees == Spec => []StatusMatchesSaga
<1>1. IInv => StatusMatchesSaga
  BY DEF IInv
<1> QED
  BY <1>1, InductiveInvariant, PTL

\* An outcome and its announcement come together, and for good.
THEOREM OutcomesAreAnnounced == Spec => []OutcomeAnnounced
<1>1. IInv => OutcomeAnnounced
  BY DEF IInv
<1> QED
  BY <1>1, InductiveInvariant, PTL

\* Commands leave in the saga's order under duplicated and reordered replies.
THEOREM CausalOrder == Spec => []SagaCausality
<1>1. IInv => SagaCausality
  BY DEF IInv
<1> QED
  BY <1>1, InductiveInvariant, PTL

\* No order fails without one of the three causes.
THEOREM FailuresHaveCauses == Spec => []FailureHasCause
<1>1. IInv => FailureHasCause
  BY DEF IInv
<1> QED
  BY <1>1, InductiveInvariant, PTL

\* The step column never runs ahead of the outbox.
THEOREM StepColumnIsHonest == Spec => []StepTellsCommands
<1>1. IInv => StepTellsCommands
  BY DEF IInv
<1> QED
  BY <1>1, InductiveInvariant, PTL

-----------------------------------------------------------------------------
(* Idempotency keys.  The lookup of the handler proves nothing, since two     *)
(* requests may look up at once; the unique index does.                       *)

\* No action takes an order out of existence, and only createOrder's commit
\* brings one into it or says who placed it.
LEMMA ExistenceStep ==
    ASSUME IInv, [Next]_vars,
           ~ \E r \in Requests, o \in Orders : CreateCommit(r, o)
    PROVE  placedBy' = placedBy /\ \A o \in Orders : Exists(o)' = Exists(o)
<1> USE ConstantsAssumption DEF IInv, Exists
<1>1. ASSUME NEW r \in Requests, CancelCommit(r)
      PROVE  placedBy' = placedBy /\ \A o \in Orders : Exists(o)' = Exists(o)
  <2>1. request[r].order \in Orders /\ Exists(request[r].order)
    BY <1>1 DEF CancelCommit, HandlersGrounded, TypeOK, Request
  <2> QED
    BY <1>1, <2>1 DEF CancelCommit, TypeOK
<1>2. ASSUME NEW c \in Consumers, Handle(c)
      PROVE  placedBy' = placedBy /\ \A o \in Orders : Exists(o)' = Exists(o)
  <2>1. delivery[c].order \in Orders /\ Exists(delivery[c].order)
    BY <1>2 DEF TypeOK, Handle, OnInventoryReserved, OnInventoryFailed,
       OnPaymentCompleted, OnPaymentFailed, Handling, Event, HandlersGrounded
  <2> QED
    BY <1>2, <2>1 DEF Handle, OnInventoryReserved, OnInventoryFailed,
       OnPaymentCompleted, OnPaymentFailed, FailSaga, TypeOK
<1>3. ASSUME NEW s \in Sweepers, CompensateTimedOut(s)
      PROVE  placedBy' = placedBy /\ \A o \in Orders : Exists(o)' = Exists(o)
  <2>1. sweep[s].reading \in Orders /\ Exists(sweep[s].reading)
    BY <1>3 DEF CompensateTimedOut, HandlersGrounded, TypeOK
  <2> QED
    BY <1>3, <2>1 DEF CompensateTimedOut, FailSaga, TypeOK
<1>4. CASE UNCHANGED <<placedBy, status>>
  BY <1>4
<1>5. ASSUME NEW r \in Requests, RequestStep(r), ~CancelCommit(r)
      PROVE  UNCHANGED <<placedBy, status>>
  BY <1>5 DEF RequestStep, CreateLookup, CreateConflict, CancelLookup, AbortRequest
<1>6. ASSUME NEW c \in Consumers, ConsumerStep(c), ~Handle(c)
      PROVE  UNCHANGED <<placedBy, status>>
  BY <1>6 DEF ConsumerStep, Receive, AbortDelivery
<1>7. ASSUME NEW s \in Sweepers, SweepStep(s) \/ AbortSweep(s), ~CompensateTimedOut(s)
      PROVE  UNCHANGED <<placedBy, status>>
  BY <1>7 DEF SweepStep, SweepFind, SweepRead, AbortSweep
<1>8. ASSUME ParticipantStep \/ \E o \in Orders : Expire(o)
      PROVE  UNCHANGED <<placedBy, status>>
  BY <1>8 DEF ParticipantStep, InventoryReply, PaymentReply, Expire
<1> QED
  BY <1>1, <1>2, <1>3, <1>4, <1>5, <1>6, <1>7, <1>8 DEF Next, ServiceStep, vars

LEMMA KeyStep == IInv /\ OneOrderPerKey /\ [Next]_vars => OneOrderPerKey'
<1> SUFFICES ASSUME IInv, OneOrderPerKey, [Next]_vars PROVE OneOrderPerKey'
  OBVIOUS
<1>1. ASSUME NEW r \in Requests, NEW o \in Orders, CreateCommit(r, o)
      PROVE  OneOrderPerKey'
  <2>1. /\ placedBy'[o].key = request[r].key
        /\ \A p \in Orders : p # o => placedBy'[p] = placedBy[p] /\ (Exists(p)' <=> Exists(p))
    BY <1>1 DEF IInv, TypeOK, CreateCommit, Exists
  <2>2. request[r].key = NoKey
        \/ \A p \in Orders : Exists(p) => placedBy[p].key # request[r].key
    BY <1>1 DEF CreateCommit, KeyTaken
  <2> QED
    BY <2>1, <2>2 DEF OneOrderPerKey
<1>2. CASE ~ \E r \in Requests, o \in Orders : CreateCommit(r, o)
  BY <1>2, ExistenceStep DEF OneOrderPerKey
<1> QED
  BY <1>1, <1>2

\* However many duplicates of POST /orders overlap, and whatever becomes of
\* the order meanwhile, a key belongs to one order.
THEOREM KeysAreUnique == Spec => []OneOrderPerKey
<1>1. Init => OneOrderPerKey
  BY DEF Init, OneOrderPerKey, Exists
<1>2. QED
  BY <1>1, KeyStep, InductiveInvariant, PTL DEF Spec

-----------------------------------------------------------------------------
(* Refinement of OrderLifecycle *)

\* What the mapping shows of the saga rows and of the outbox.
Outcome == [o \in Orders |-> saga[o].status]
Announced == {e \in events : e.topic \in Announcements}

LEMMA InitLifecycle == Init => Lifecycle!Init
<1> SUFFICES ASSUME Init PROVE Lifecycle!Init
  OBVIOUS
<1>1. \A o \in Orders : ~Handled(o) /\ ~Cancelling(o)
  BY ConstantsAssumption DEF Init, Handled, Cancelling, NoSweep
<1> QED
  BY <1>1 DEF Init, Lifecycle!Init, NoSaga

\* Who handles an order, or cancels it, has read it in time or is late.
LEMMA OpenMaps ==
    ASSUME NEW o \in Orders
    PROVE  /\ Handled(o) => Lifecycle!Open(o)
           /\ Cancelling(o) => Lifecycle!Cancellable(o)
BY DEF Lifecycle!Open, Lifecycle!Cancellable, Running, Cancellable

\* A step that writes one order and begins no handling of any: those underway
\* with it, if it is settled or past cancelling now, are late.
LEMMA UnderwayMaps ==
    ASSUME NEW o \in Orders,
           \A p \in Orders \ {o} :
               /\ saga'[p] = saga[p] /\ status'[p] = status[p]
               /\ Handled(p)' <=> Handled(p)
               /\ Cancelling(p)' <=> Cancelling(p),
           Handled(o)' => Handled(o),
           Cancelling(o)' => Cancelling(o)
    PROVE  Lifecycle!Underway(o)
<1> DEFINE L == {p \in Orders : Handled(p) /\ ~Running(p)}
           C == {p \in Orders : Cancelling(p) /\ status[p] \notin Cancellable}
<1>1. \A p \in Orders \ {o} : (p \in L' <=> p \in L) /\ (p \in C' <=> p \in C)
  BY DEF Running, Cancellable
<1>2. L' \subseteq Orders /\ L \subseteq Orders /\ C' \subseteq Orders /\ C \subseteq Orders
  OBVIOUS
<1>3. /\ o \in L' => Lifecycle!Open(o)
      /\ o \in C' => Lifecycle!Cancellable(o)
  BY OpenMaps
<1> HIDE DEF L, C
<1>4. L' \in {L \ {o}, L \cup {o}} /\ C' \in {C \ {o}, C \cup {o}}
  BY <1>1, <1>2
<1> QED
  BY <1>3, <1>4 DEF Lifecycle!Underway, L, C

\* What ends the handling of a message, of a timeout and of a cancellation.
LEMMA DeliveryEnds ==
    ASSUME TypeOK, NEW c \in Consumers, delivery[c] # Idle,
           delivery' = [delivery EXCEPT ![c] = Idle], sweep' = sweep,
           NEW p \in Orders
    PROVE  /\ Handled(p)' => Handled(p)
           /\ p # delivery[c].order => (Handled(p)' <=> Handled(p))
BY DEF TypeOK, Handled

LEMMA SweepEnds ==
    ASSUME TypeOK, NEW s \in Sweepers,
           sweep' = [sweep EXCEPT ![s].reading = NoOrder], delivery' = delivery,
           NEW p \in Orders
    PROVE  /\ Handled(p)' => Handled(p)
           /\ p # sweep[s].reading => (Handled(p)' <=> Handled(p))
BY ConstantsAssumption DEF TypeOK, Handled

LEMMA RequestEnds ==
    ASSUME TypeOK, NEW r \in Requests, request[r] # Idle,
           request' = [request EXCEPT ![r] = Idle],
           NEW p \in Orders
    PROVE  /\ Cancelling(p)' => Cancelling(p)
           /\ request[r] # [op |-> "cancel", order |-> p] => (Cancelling(p)' <=> Cancelling(p))
BY ConstantsAssumption DEF TypeOK, Cancelling

\* What is under way concerns orders that exist.
LEMMA UnderwayExists ==
    ASSUME TypeOK, HandlersGrounded, NEW o \in Orders, Handled(o) \/ Cancelling(o)
    PROVE  Exists(o)
<1>1. ASSUME NEW c \in Consumers, delivery[c] # Idle, delivery[c].order = o PROVE Exists(o)
  BY <1>1 DEF HandlersGrounded
<1>2. ASSUME NEW s \in Sweepers, sweep[s].reading = o PROVE Exists(o)
  BY <1>2, ConstantsAssumption DEF HandlersGrounded
<1>3. ASSUME NEW r \in Requests, request[r] = [op |-> "cancel", order |-> o] PROVE Exists(o)
  <2>1. request[r] # Idle
    BY <1>3, ConstantsAssumption
  <2> QED
    BY <1>3, <2>1 DEF HandlersGrounded
<1> QED
  BY <1>1, <1>2, <1>3 DEF Handled, Cancelling

\* Nothing the lifecycle shows has changed.
LEMMA NothingShown ==
    ASSUME UNCHANGED <<status, saga, events>>,
           \A p \in Orders :
               /\ Handled(p) /\ ~Running(p) <=> (Handled(p) /\ ~Running(p))'
               /\ Cancelling(p) /\ status[p] \notin Cancellable
                     <=> (Cancelling(p) /\ status[p] \notin Cancellable)'
    PROVE  UNCHANGED Lifecycle!vars
BY DEF Lifecycle!vars

\* Messages to and from the participants are no announcements.
LEMMA Invisible ==
    ASSUME UNCHANGED <<status, saga, request, delivery, sweep>>,
           NEW t \in Topics \ Announcements, NEW o,
           events' = events \cup {Msg(t, o)}
    PROVE  UNCHANGED Lifecycle!vars
  BY DEF Lifecycle!vars, Msg, Handled, Cancelling, Running

\* An update of one saga row is an update of one outcome.
LEMMA OutcomeMaps ==
    ASSUME TypeOK, NEW o \in Orders, NEW st, NEW r,
           saga' = [saga EXCEPT ![o] = [step |-> st, status |-> r]]
    PROVE  [p \in Orders |-> saga'[p].status]
               = [[p \in Orders |-> saga[p].status] EXCEPT ![o] = r]
  BY DEF TypeOK

\* An announcement is seen, and what is sent with it to a participant is not.
LEMMA AnnouncementMaps ==
    ASSUME NEW t \in Announcements, NEW o, NEW u, u = t \/ u \notin Announcements,
           events' = events \cup {Msg(t, o), Msg(u, o)}
    PROVE  {e \in events' : e.topic \in Announcements}
               = {e \in events : e.topic \in Announcements}
                     \cup {[topic |-> t, order |-> o]}
<1>1. /\ Msg(t, o) = [topic |-> t, order |-> o]
      /\ Msg(t, o).topic = t
      /\ Msg(u, o).topic = u
  BY DEF Msg
<1> HIDE DEF Announcements
<1> QED
  BY <1>1

\* Who handles an order settles it, and handles it no longer.
LEMMA SettleMaps ==
    ASSUME TypeOK, NEW o \in Orders, NEW st, NEW r,
           NEW t \in Announcements, NEW u, u = t \/ u \notin Announcements,
           saga' = [saga EXCEPT ![o] = [step |-> st, status |-> r]],
           status' = [status EXCEPT ![o] = r],
           events' = events \cup {Msg(t, o), Msg(u, o)},
           request' = request, Handled(o),
           \A p \in Orders : (Handled(p)' => Handled(p))
                             /\ (p # o => (Handled(p)' <=> Handled(p)))
    PROVE  Lifecycle!Settle(o, r, t)
<1>1. Lifecycle!Underway(o)
  <2>1. \A p \in Orders : Cancelling(p)' <=> Cancelling(p)
    BY DEF Cancelling
  <2>2. \A p \in Orders \ {o} : saga'[p] = saga[p] /\ status'[p] = status[p]
    BY DEF TypeOK
  <2> QED
    BY <2>1, <2>2, UnderwayMaps
<1>2. Lifecycle!Open(o)
  BY OpenMaps
<1> QED
  BY <1>1, <1>2, OutcomeMaps, AnnouncementMaps DEF Lifecycle!Settle, Lifecycle!Announce

LEMMA FailSagaSettles ==
    ASSUME TypeOK, NEW o \in Orders, FailSaga(o), request' = request, Handled(o),
           \A p \in Orders : (Handled(p)' => Handled(p))
                             /\ (p # o => (Handled(p)' <=> Handled(p)))
    PROVE  Lifecycle!Next
<1>1. events' = events \cup {Msg("order.failed", o), Msg("order.failed", o)}
  BY DEF FailSaga
<1>2. "order.failed" \in Announcements
  BY DEF Announcements
<1>3. Lifecycle!Settle(o, "FAILED", "order.failed")
  BY <1>1, <1>2, SettleMaps DEF FailSaga
<1> QED
  BY <1>3 DEF Lifecycle!Next

LEMMA RequestLifecycle ==
    ASSUME IInv, NEW r \in Requests, RequestStep(r)
    PROVE  Lifecycle!Next \/ UNCHANGED Lifecycle!vars
<1> USE ConstantsAssumption DEF IInv
<1>h. ASSUME UNCHANGED <<delivery, sweep>> PROVE \A p \in Orders : Handled(p)' <=> Handled(p)
  BY <1>h DEF Handled
<1>1. ASSUME NEW o \in Orders, CreateCommit(r, o) PROVE Lifecycle!Next
  <2>1. /\ "order.created" \in Announcements
        /\ "inventory.reserve" \notin Announcements
        /\ events' = events \cup {Msg("order.created", o), Msg("inventory.reserve", o)}
    BY <1>1 DEF CreateCommit, Announcements
  <2>2. Announced' = Announced \cup {[topic |-> "order.created", order |-> o]}
    BY <2>1, AnnouncementMaps DEF Announced
  <2>3. Outcome' = [Outcome EXCEPT ![o] = "RUNNING"]
    BY <1>1, OutcomeMaps DEF CreateCommit, Outcome
  <2>4. \A p \in Orders : (Handled(p)' <=> Handled(p)) /\ (Cancelling(p)' <=> Cancelling(p))
    <3>1. \A p \in Orders : request[r] # [op |-> "cancel", order |-> p]
      BY <1>1 DEF CreateCommit
    <3> QED
      BY <1>1, <1>h, <3>1, RequestEnds DEF CreateCommit
  <2>5. /\ ~Handled(o) /\ ~Cancelling(o)
        /\ \A p \in Orders \ {o} : saga'[p] = saga[p] /\ status'[p] = status[p]
    BY <1>1, UnderwayExists DEF CreateCommit, TypeOK
  <2>6. /\ {p \in Orders : Handled(p) /\ ~Running(p)}'
               = {p \in Orders : Handled(p) /\ ~Running(p)}
        /\ {p \in Orders : Cancelling(p) /\ status[p] \notin Cancellable}'
               = {p \in Orders : Cancelling(p) /\ status[p] \notin Cancellable}
    BY <2>4, <2>5 DEF Running, Cancellable
  <2>7. Lifecycle!Place(o)
    BY <1>1, <2>2, <2>3, <2>6 DEF CreateCommit, Exists, Lifecycle!Place, Lifecycle!Announce,
       Outcome, Announced
  <2> QED
    BY <2>7 DEF Lifecycle!Next
<1>2. ASSUME CancelCommit(r) PROVE Lifecycle!Next
  <2>1. PICK o \in Orders : request[r] # Idle /\ request[r] = [op |-> "cancel", order |-> o]
    BY <1>2 DEF CancelCommit, TypeOK, Request
  <2>2. Cancelling(o)
    BY <2>1 DEF Cancelling
  <2>3. /\ status' = [status EXCEPT ![o] = "CANCELLED"]
        /\ events' = events \cup {Msg("order.cancelled", o), Msg("order.cancelled", o)}
        /\ request' = [request EXCEPT ![r] = Idle]
        /\ UNCHANGED <<saga, delivery, sweep>>
    BY <1>2, <2>1 DEF CancelCommit
  <2>4. \A p \in Orders : /\ Cancelling(p)' => Cancelling(p)
                          /\ p # o => (Cancelling(p)' <=> Cancelling(p))
    <3>1. \A p \in Orders : p # o => request[r] # [op |-> "cancel", order |-> p]
      <4> SUFFICES ASSUME NEW p \in Orders, request[r] = [op |-> "cancel", order |-> p]
                   PROVE  p = o
        OBVIOUS
      <4> QED
        BY <2>1
    <3> QED
      BY <2>1, <2>3, <3>1, RequestEnds
  <2>5. Lifecycle!Underway(o)
    <3>1. \A p \in Orders \ {o} : saga'[p] = saga[p] /\ status'[p] = status[p]
      BY <2>3 DEF TypeOK
    <3> QED
      BY <1>h, <2>1, <2>3, <2>4, <3>1, UnderwayMaps
  <2>6. "order.cancelled" \in Announcements
    BY DEF Announcements
  <2>7. Lifecycle!Cancel(o)
    BY <2>1, <2>2, <2>3, <2>5, <2>6, OpenMaps, AnnouncementMaps
       DEF Lifecycle!Cancel, Lifecycle!Announce
  <2> QED
    BY <2>1, <2>7 DEF Lifecycle!Next
<1>3. ASSUME NEW u \in Users, NEW k \in Keys \cup {NoKey}, CreateLookup(r, u, k)
      PROVE  UNCHANGED Lifecycle!vars
  <2>1. \A p \in Orders : Cancelling(p)' <=> Cancelling(p)
    BY <1>3 DEF CreateLookup, Cancelling, TypeOK
  <2> QED
    BY <1>3, <1>h, <2>1, NothingShown DEF CreateLookup, Running, Cancellable
<1>4. ASSUME CreateConflict(r) PROVE UNCHANGED Lifecycle!vars
  <2>1. \A p \in Orders : request[r] # [op |-> "cancel", order |-> p]
    BY <1>4 DEF CreateConflict
  <2>2. \A p \in Orders : Cancelling(p)' <=> Cancelling(p)
    BY <1>4, <2>1, RequestEnds DEF CreateConflict
  <2> QED
    BY <1>4, <1>h, <2>2, NothingShown DEF CreateConflict, Running, Cancellable
<1>5. ASSUME NEW u \in Users, NEW admin \in BOOLEAN, NEW o \in Orders,
             CancelLookup(r, u, admin, o)
      PROVE  UNCHANGED Lifecycle!vars
  <2>1. /\ request[r] = Idle /\ status[o] \in Cancellable
        /\ request' = [request EXCEPT ![r] = [op |-> "cancel", order |-> o]]
        /\ UNCHANGED <<status, saga, events, delivery, sweep>>
    BY <1>5 DEF CancelLookup
  <2>2. \A p \in Orders : p # o => (Cancelling(p)' <=> Cancelling(p))
    <3> SUFFICES ASSUME NEW p \in Orders, p # o PROVE Cancelling(p)' <=> Cancelling(p)
      OBVIOUS
    <3>1. request'[r] # [op |-> "cancel", order |-> p]
      <4>1. request'[r].order = o
        BY <2>1 DEF TypeOK
      <4> QED
        BY <4>1
    <3>2. request[r] # [op |-> "cancel", order |-> p]
      BY <2>1
    <3> QED
      BY <2>1, <3>1, <3>2 DEF Cancelling, TypeOK
  <2> QED
    BY <1>h, <2>1, <2>2, NothingShown DEF Running, Cancellable
<1>6. ASSUME AbortRequest(r) PROVE Lifecycle!Next \/ UNCHANGED Lifecycle!vars
  <2>1. /\ request[r] # Idle /\ request' = [request EXCEPT ![r] = Idle]
        /\ UNCHANGED <<status, saga, events, delivery, sweep>>
    BY <1>6 DEF AbortRequest
  <2>2. CASE \E o \in Orders : request[r] = [op |-> "cancel", order |-> o]
    <3>1. PICK o \in Orders : request[r] = [op |-> "cancel", order |-> o]
      BY <2>2
    <3>2. \A p \in Orders : /\ Cancelling(p)' => Cancelling(p)
                            /\ p # o => (Cancelling(p)' <=> Cancelling(p))
      <4>1. \A p \in Orders : p # o => request[r] # [op |-> "cancel", order |-> p]
        <5> SUFFICES ASSUME NEW p \in Orders, request[r] = [op |-> "cancel", order |-> p]
                     PROVE  p = o
          OBVIOUS
        <5> QED
          BY <3>1
      <4> QED
        BY <2>1, <4>1, RequestEnds
    <3> DEFINE C == {p \in Orders : Cancelling(p) /\ status[p] \notin Cancellable}
    <3>3. C' \in {C, C \ {o}}
      BY <2>1, <3>2 DEF Cancellable
    <3>4. {p \in Orders : Handled(p) /\ ~Running(p)}'
              = {p \in Orders : Handled(p) /\ ~Running(p)}
      BY <1>h, <2>1 DEF Running
    <3> QED
      BY <2>1, <3>3, <3>4 DEF Lifecycle!Next, Lifecycle!GiveUp, Lifecycle!vars
  <2>3. CASE ~\E o \in Orders : request[r] = [op |-> "cancel", order |-> o]
    BY <1>h, <2>1, <2>3, RequestEnds, NothingShown DEF Running, Cancellable
  <2> QED
    BY <2>2, <2>3
<1> QED
  BY <1>1, <1>2, <1>3, <1>4, <1>5, <1>6 DEF RequestStep

LEMMA ConsumerLifecycle ==
    ASSUME IInv, NEW c \in Consumers, ConsumerStep(c)
    PROVE  Lifecycle!Next \/ UNCHANGED Lifecycle!vars
<1> USE ConstantsAssumption DEF IInv
<1>c. ASSUME request' = request PROVE \A p \in Orders : Cancelling(p)' <=> Cancelling(p)
  BY <1>c DEF Cancelling
<1>1. ASSUME Handle(c) PROVE Lifecycle!Next
  <2>1. PICK o \in Orders :
            /\ o = delivery[c].order /\ delivery[c] # Idle
            /\ request' = request /\ sweep' = sweep
            /\ delivery' = [delivery EXCEPT ![c] = Idle]
    BY <1>1 DEF TypeOK, Handle, OnInventoryReserved, OnInventoryFailed,
       OnPaymentCompleted, OnPaymentFailed, Handling, Event
  <2>2. Handled(o)
    BY <2>1 DEF Handled
  <2>3. \A p \in Orders : (Handled(p)' => Handled(p))
                          /\ (p # o => (Handled(p)' <=> Handled(p)))
    BY <2>1, DeliveryEnds
  <2>4. CASE OnInventoryReserved(c)
    <3>1. /\ saga' = [saga EXCEPT ![o] = [@ EXCEPT !.step = "PAYMENT_CHARGE_SENT"]]
          /\ status' = [status EXCEPT ![o] = "CONFIRMED"]
          /\ events' = events \cup {Msg("payment.charge", o)}
      BY <2>1, <2>4 DEF OnInventoryReserved
    <3>2. /\ \A p \in Orders \ {o} : saga'[p] = saga[p] /\ status'[p] = status[p]
          /\ \A p \in Orders : saga'[p].status = saga[p].status
      BY <2>1, <3>1 DEF TypeOK
    <3>3. Lifecycle!Underway(o)
      BY <1>c, <2>1, <2>3, <3>2, UnderwayMaps
    <3>4. Lifecycle!Confirm(o)
      BY <2>1, <2>2, <3>1, <3>2, <3>3, OpenMaps DEF Lifecycle!Confirm, Announcements, Msg
    <3> QED
      BY <2>1, <3>4 DEF Lifecycle!Next
  <2>5. CASE OnInventoryFailed(c)
    BY <2>1, <2>2, <2>3, <2>5, FailSagaSettles DEF OnInventoryFailed
  <2>6. CASE OnPaymentCompleted(c)
    <3>1. "order.completed" \in Announcements
      BY DEF Announcements
    <3>2. events' = events \cup {Msg("order.completed", o), Msg("order.completed", o)}
      BY <2>1, <2>6 DEF OnPaymentCompleted
    <3>3. Lifecycle!Settle(o, "COMPLETED", "order.completed")
      BY <2>1, <2>2, <2>3, <2>6, <3>1, <3>2, SettleMaps DEF OnPaymentCompleted
    <3> QED
      BY <2>1, <3>3 DEF Lifecycle!Next
  <2>7. CASE OnPaymentFailed(c)
    <3>1. "order.failed" \in Announcements /\ "inventory.release" \notin Announcements
      BY DEF Announcements
    <3>2. events' = events \cup {Msg("order.failed", o), Msg("inventory.release", o)}
      BY <2>1, <2>7 DEF OnPaymentFailed
    <3>3. Lifecycle!Settle(o, "FAILED", "order.failed")
      BY <2>1, <2>2, <2>3, <2>7, <3>1, <3>2, SettleMaps DEF OnPaymentFailed
    <3> QED
      BY <2>1, <3>3 DEF Lifecycle!Next
  <2> QED
    BY <1>1, <2>4, <2>5, <2>6, <2>7 DEF Handle
<1>2. ASSUME NEW m \in events, Receive(c, m) PROVE UNCHANGED Lifecycle!vars
  <2>1. /\ delivery[c] = Idle /\ Running(m.order)
        /\ delivery' = [delivery EXCEPT ![c] = m]
        /\ UNCHANGED <<status, saga, events, request, sweep>>
    BY <1>2 DEF Receive
  <2>2. \A p \in Orders : p # m.order => (Handled(p)' <=> Handled(p))
    BY <2>1 DEF TypeOK, Handled
  <2> QED
    BY <1>c, <2>1, <2>2, NothingShown DEF Running, Cancellable
<1>3. ASSUME AbortDelivery(c) PROVE Lifecycle!Next \/ UNCHANGED Lifecycle!vars
  <2> DEFINE L == {p \in Orders : Handled(p) /\ ~Running(p)}
  <2>1. /\ delivery[c] # Idle /\ delivery' = [delivery EXCEPT ![c] = Idle]
        /\ UNCHANGED <<status, saga, events, request, sweep>>
    BY <1>3 DEF AbortDelivery
  <2>2. PICK o \in Orders : o = delivery[c].order
    BY <2>1 DEF TypeOK, Event
  <2>3. \A p \in Orders : (Handled(p)' => Handled(p))
                          /\ (p # o => (Handled(p)' <=> Handled(p)))
    BY <2>1, <2>2, DeliveryEnds
  <2>4. L' \in {L, L \ {o}}
    BY <2>1, <2>3 DEF Running
  <2>5. {p \in Orders : Cancelling(p) /\ status[p] \notin Cancellable}'
            = {p \in Orders : Cancelling(p) /\ status[p] \notin Cancellable}
    BY <1>c, <2>1 DEF Cancellable
  <2> QED
    BY <2>1, <2>2, <2>4, <2>5 DEF Lifecycle!Next, Lifecycle!GiveUp, Lifecycle!vars
<1> QED
  BY <1>1, <1>2, <1>3 DEF ConsumerStep

LEMMA SweepLifecycle ==
    ASSUME IInv, NEW s \in Sweepers, SweepStep(s) \/ AbortSweep(s)
    PROVE  Lifecycle!Next \/ UNCHANGED Lifecycle!vars
<1> USE ConstantsAssumption DEF IInv
<1>c. ASSUME request' = request PROVE \A p \in Orders : Cancelling(p)' <=> Cancelling(p)
  BY <1>c DEF Cancelling
<1>1. ASSUME CompensateTimedOut(s) PROVE Lifecycle!Next
  <2>1. PICK o \in Orders :
            /\ o = sweep[s].reading /\ FailSaga(o) /\ UNCHANGED <<request, delivery>>
            /\ sweep' = [sweep EXCEPT ![s].reading = NoOrder]
    BY <1>1 DEF CompensateTimedOut, TypeOK
  <2>2. Handled(o)
    BY <2>1 DEF Handled
  <2>3. \A p \in Orders : (Handled(p)' => Handled(p))
                          /\ (p # o => (Handled(p)' <=> Handled(p)))
    BY <2>1, SweepEnds
  <2> QED
    BY <2>1, <2>2, <2>3, FailSagaSettles
<1>2. ASSUME NEW found \in SUBSET Overdue, SweepFind(s, found) PROVE UNCHANGED Lifecycle!vars
  <2>1. /\ sweep' = [sweep EXCEPT ![s].todo = found]
        /\ UNCHANGED <<status, saga, events, request, delivery>>
    BY <1>2 DEF SweepFind
  <2>2. \A v \in Sweepers : sweep'[v].reading = sweep[v].reading
    BY <2>1 DEF TypeOK
  <2>3. \A p \in Orders : Handled(p)' <=> Handled(p)
    BY <2>1, <2>2 DEF Handled
  <2> QED
    BY <1>c, <2>1, <2>3, NothingShown DEF Running, Cancellable
<1>3. ASSUME NEW q \in Orders, SweepRead(s, q) PROVE UNCHANGED Lifecycle!vars
  <2>1. /\ sweep[s].reading = NoOrder
        /\ sweep' = [sweep EXCEPT ![s] = [todo |-> @.todo \ {q},
                                          reading |-> IF Running(q) THEN q ELSE NoOrder]]
        /\ UNCHANGED <<status, saga, events, request, delivery>>
    BY <1>3 DEF SweepRead
  <2>2. /\ sweep'[s].reading = IF Running(q) THEN q ELSE NoOrder
        /\ \A v \in Sweepers \ {s} : sweep'[v] = sweep[v]
    BY <2>1 DEF TypeOK
  <2>3. \A p \in Orders : Running(p) \/ (Handled(p)' <=> Handled(p))
    BY <2>1, <2>2 DEF Handled
  <2> QED
    BY <1>c, <2>1, <2>3, NothingShown DEF Running, Cancellable
<1>4. ASSUME AbortSweep(s) PROVE Lifecycle!Next \/ UNCHANGED Lifecycle!vars
  <2> DEFINE L == {p \in Orders : Handled(p) /\ ~Running(p)}
  <2>1. PICK o \in Orders :
            /\ o = sweep[s].reading
            /\ sweep' = [sweep EXCEPT ![s].reading = NoOrder]
            /\ UNCHANGED <<status, saga, events, request, delivery>>
    BY <1>4 DEF AbortSweep, TypeOK
  <2>2. \A p \in Orders : (Handled(p)' => Handled(p))
                          /\ (p # o => (Handled(p)' <=> Handled(p)))
    BY <2>1, SweepEnds
  <2>3. L' \in {L, L \ {o}}
    BY <2>1, <2>2 DEF Running
  <2>4. {p \in Orders : Cancelling(p) /\ status[p] \notin Cancellable}'
            = {p \in Orders : Cancelling(p) /\ status[p] \notin Cancellable}
    BY <1>c, <2>1 DEF Cancellable
  <2> QED
    BY <2>1, <2>3, <2>4 DEF Lifecycle!Next, Lifecycle!GiveUp, Lifecycle!vars
<1> QED
  BY <1>1, <1>2, <1>3, <1>4 DEF SweepStep

LEMMA StepLifecycle ==
    ASSUME IInv, [Next]_vars PROVE Lifecycle!Next \/ UNCHANGED Lifecycle!vars
<1>1. ASSUME NEW o \in Orders, Expire(o) PROVE UNCHANGED Lifecycle!vars
  BY <1>1 DEF Expire, Lifecycle!vars, Handled, Cancelling, Running
<1>2. ASSUME ParticipantStep PROVE UNCHANGED Lifecycle!vars
  BY <1>2, Invisible DEF ParticipantStep, InventoryReply, PaymentReply,
     InventoryReplies, PaymentReplies, Topics, Announcements
<1>3. ASSUME UNCHANGED vars PROVE UNCHANGED Lifecycle!vars
  BY <1>3 DEF vars, Lifecycle!vars, Handled, Cancelling, Running
<1> QED
  BY <1>1, <1>2, <1>3, RequestLifecycle, ConsumerLifecycle, SweepLifecycle
     DEF Next, ServiceStep

\* order-service implements the lifecycle it shows to the other services: what
\* is settled, or past cancelling, changes only by who had read it before.
THEOREM Refinement == Spec => ImplementsLifecycle
<1>1. IInv /\ [Next]_vars => [Lifecycle!Next]_Lifecycle!vars
  BY StepLifecycle
<1> QED
  BY <1>1, InitLifecycle, InductiveInvariant, PTL
     DEF Spec, ImplementsLifecycle, Lifecycle!Spec
=============================================================================
