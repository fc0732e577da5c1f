---------------------------- MODULE PaymentProofs ----------------------------
(***************************************************************************)
(* Proofs about Payment for any sets of orders and consumers, any number   *)
(* of failures and any answers of the provider: the inductive invariant    *)
(* IInv and the invariants it contains.                                    *)
(***************************************************************************)
EXTENDS Payment, TLAPS

LEMMA InitIInv == Init => IInv
<1> SUFFICES ASSUME Init PROVE IInv
  OBVIOUS
<1> USE ConstantsAssumption DEF Init
<1>1. TypeOK
  BY DEF TypeOK
<1>2. RowIsLocked /\ ChargesKnown
  BY DEF RowIsLocked, ChargesKnown, Calling, Refunding, Doing
<1>3. ChargedOncePerAttempt /\ PaidIsCharged /\ OneAnswer
  BY DEF ChargedOncePerAttempt, PaidIsCharged, OneAnswer, Sent
<1> QED
  BY <1>1, <1>2, <1>3 DEF IInv

\* A worker at work has a record that names an order.
LEMMA WorkRecord ==
    ASSUME TypeOK, NEW w \in Workers, work[w] # Idle
    PROVE  /\ work[w] \in Work
           /\ work[w].order \in Orders
           /\ work[w].op = "charged" => work[w].success \in BOOLEAN
BY DEF TypeOK, Work

\* Two messages are the same only if their topics and orders are.
LEMMA MsgEqual == \A t, u, o, p : Msg(t, o) = Msg(u, p) <=> t = u /\ o = p
<1> SUFFICES ASSUME NEW t, NEW u, NEW o, NEW p, Msg(t, o) = Msg(u, p) PROVE t = u /\ o = p
  OBVIOUS
<1>1. /\ Msg(t, o).topic = t /\ Msg(u, p).topic = u
      /\ Msg(t, o).order = o /\ Msg(u, p).order = p
  BY DEF Msg
<1> QED
  BY <1>1

\* A simulated answer is not a message of charge or refund.
LEMMA SimulatedDiffers == \A t, u, o, p : Simulated(t, o) # Msg(u, p)
<1> SUFFICES ASSUME NEW t, NEW u, NEW o, NEW p, Simulated(t, o) = Msg(u, p) PROVE FALSE
  OBVIOUS
<1>1. "simulated" \in DOMAIN Simulated(t, o) /\ "simulated" \notin DOMAIN Msg(u, p)
  BY DEF Simulated, Msg
<1> QED
  BY <1>1

\* Steps that leave rows, locks, money and workers alone.
LEMMA OutsideStep ==
    ASSUME IInv, UNCHANGED <<payment, lock, charges, refunds, work, dropped, aborts>>, OneAnswer'
    PROVE  IInv'
<1> USE DEF IInv
<1>1. TypeOK'
  BY DEF TypeOK
<1>2. RowIsLocked' /\ ChargesKnown'
  BY DEF RowIsLocked, ChargesKnown, Calling, Refunding, Doing
<1>3. ChargedOncePerAttempt' /\ PaidIsCharged'
  BY DEF ChargedOncePerAttempt, PaidIsCharged
<1> QED
  BY <1>1, <1>2, <1>3

\* Steps that begin or give up a command, and touch no row and no money.
LEMMA BookkeepingStep ==
    ASSUME IInv, NEW w \in Workers, ~Calling(w),
           UNCHANGED <<payment, lock, charges, refunds, events, dropped, aborts>>,
           \/ work' = [work EXCEPT ![w] = Idle]
           \/ \E o \in Orders : work' = [work EXCEPT ![w] = [op |-> "charge", order |-> o]]
           \/ \E o \in Orders : /\ payment[o] = "COMPLETED"
                                /\ work' = [work EXCEPT ![w] = [op |-> "refund", order |-> o]]
    PROVE  IInv'
<1> USE ConstantsAssumption DEF IInv
<1>1. work'[w] = Idle
      \/ (work'[w].op = "charge" /\ work'[w] \in Work)
      \/ (work'[w].op = "refund" /\ work'[w] \in Work /\ payment[work'[w].order] = "COMPLETED")
  BY DEF TypeOK, Work
<1>2. \A v \in Workers : v # w => work'[v] = work[v]
  BY DEF TypeOK
<1>3. TypeOK'
  BY DEF TypeOK, Work
<1>4. RowIsLocked'
  BY <1>1, <1>2 DEF RowIsLocked, Calling, TypeOK
<1>5. ChargesKnown'
  BY <1>1, <1>2 DEF ChargesKnown, RowIsLocked, Calling, Refunding, Doing, TypeOK
<1>6. ChargedOncePerAttempt' /\ PaidIsCharged' /\ OneAnswer'
  BY DEF ChargedOncePerAttempt, PaidIsCharged, OneAnswer, Sent, Msg
<1> QED
  BY <1>3, <1>4, <1>5, <1>6

\* The insert takes the lock of a row nobody else is inserting.
LEMMA InsertStep == ASSUME IInv, NEW w \in Workers, ChargeInsert(w) PROVE IInv'
<1> USE ConstantsAssumption DEF IInv
<1> DEFINE o == work[w].order
<1>1. o \in Orders /\ work[w].op = "charge" /\ lock[o] = Free /\ payment[o] = "NONE"
  BY WorkRecord DEF ChargeInsert, Doing
<1>2. /\ lock' = [lock EXCEPT ![o] = w]
      /\ work' = [work EXCEPT ![w] = [op |-> "charging", order |-> o]]
      /\ UNCHANGED <<payment, charges, refunds, events, dropped, aborts>>
  BY DEF ChargeInsert, Goto
<1> HIDE DEF o
<1>3. TypeOK'
  BY <1>1, <1>2 DEF TypeOK, Work
<1>4. work'[w] = [op |-> "charging", order |-> o] /\ work'[w] # Idle
  BY <1>1, <1>2 DEF TypeOK, Work
<1>5. \A v \in Workers : v # w => work'[v] = work[v]
  BY <1>2 DEF TypeOK
<1>6. RowIsLocked'
  BY <1>1, <1>2, <1>4, <1>5 DEF RowIsLocked, Calling, TypeOK
<1>7. ChargesKnown'
  BY <1>1, <1>2, <1>4, <1>5 DEF ChargesKnown, RowIsLocked, Calling, Refunding, Doing, TypeOK
<1>8. ChargedOncePerAttempt' /\ PaidIsCharged' /\ OneAnswer'
  BY <1>2 DEF ChargedOncePerAttempt, PaidIsCharged, OneAnswer, Sent, Msg
<1> QED
  BY <1>3, <1>6, <1>7, <1>8

\* The provider is called by the one handler that holds the lock.
LEMMA ProviderChargeStep ==
    ASSUME IInv, NEW w \in Workers, NEW success \in BOOLEAN, ProviderCharge(w, success)
    PROVE  IInv'
<1> USE ConstantsAssumption DEF IInv
<1> DEFINE o == work[w].order
           next == [op |-> "charged", order |-> o, success |-> success]
<1>1. o \in Orders /\ work[w] # Idle /\ work[w].op = "charging"
  BY WorkRecord DEF ProviderCharge, Doing
<1>2. /\ charges' = [charges EXCEPT ![o] = IF success THEN @ + 1 ELSE @]
      /\ work' = [work EXCEPT ![w] = next]
      /\ UNCHANGED <<payment, lock, refunds, events, dropped, aborts>>
  BY DEF ProviderCharge
<1>3. next \in Work /\ next # Idle /\ next.op = "charged" /\ next.order = o
      /\ next.success = success
  BY <1>1 DEF Work
<1> HIDE DEF o, next
<1>4. work'[w] = next /\ \A v \in Workers : v # w => work'[v] = work[v]
  BY <1>2 DEF TypeOK
<1>5. lock[o] = w /\ payment[o] = "NONE"
  BY <1>1 DEF o, RowIsLocked, Calling
<1>6. charges[o] <= aborts /\ charges[o] \in Nat /\ aborts \in Nat
  BY <1>1, <1>5 DEF ChargesKnown, Doing, TypeOK
<1>7. /\ charges' \in [Orders -> Nat]
      /\ \A p \in Orders : charges'[p] >= charges[p]
      /\ \A p \in Orders : p # o => charges'[p] = charges[p]
      /\ charges'[o] <= aborts + 1
      /\ success => charges'[o] > 0
  BY <1>1, <1>2, <1>6 DEF TypeOK
<1>8. TypeOK'
  BY <1>2, <1>3, <1>7 DEF TypeOK
<1>9. RowIsLocked'
  BY <1>1, <1>2, <1>3, <1>4, <1>5 DEF RowIsLocked, Calling, o
<1>10. ChargesKnown'
  <2>1. ASSUME NEW v \in Workers
        PROVE  /\ Doing(v, "charged")' /\ work'[v].success => charges'[work'[v].order] > 0
               /\ Refunding(v)' => payment'[work'[v].order] \in {"COMPLETED", "REFUNDED"}
               /\ Doing(v, "refunded")' => refunds'[work'[v].order] > 0
    <3>1. CASE v = w
      BY <1>3, <1>4, <1>7, <3>1 DEF Doing, Refunding
    <3>2. CASE v # w
      <4>1. work'[v] # Idle => work'[v].order \in Orders /\ work'[v] = work[v]
        BY <1>4, <3>2, WorkRecord
      <4>2. ASSUME Doing(v, "charged")', work'[v].success PROVE charges'[work'[v].order] > 0
        <5>1. charges[work[v].order] > 0
          BY <1>4, <3>2, <4>2 DEF ChargesKnown, Doing
        <5> QED
          BY <1>7, <4>1, <4>2, <5>1 DEF Doing, TypeOK
      <4> QED
        BY <1>2, <1>4, <3>2, <4>2 DEF ChargesKnown, Doing, Refunding
    <3> QED
      BY <3>1, <3>2
  <2>2. ASSUME NEW p \in Orders,
               payment'[p] = "NONE", ~(lock[p] # Free /\ Doing(lock[p], "charged"))'
        PROVE  charges'[p] <= aborts'
    <3>1. p # o
      BY <1>2, <1>3, <1>4, <1>5, <2>2 DEF Doing
    <3>2. lock[p] # w
      BY <1>1, <1>5, <3>1 DEF RowIsLocked, o
    <3>3. ~(lock[p] # Free /\ Doing(lock[p], "charged"))
      BY <1>2, <1>4, <2>2, <3>2 DEF Doing, TypeOK
    <3> QED
      BY <1>2, <1>7, <2>2, <3>1, <3>3 DEF ChargesKnown
  <2> QED
    BY <2>1, <2>2 DEF ChargesKnown
<1>11. ChargedOncePerAttempt'
  BY <1>2, <1>6, <1>7 DEF ChargedOncePerAttempt, TypeOK
<1>12. PaidIsCharged'
  BY <1>2, <1>7 DEF PaidIsCharged, TypeOK
<1>13. OneAnswer'
  BY <1>2 DEF OneAnswer, Sent, Msg
<1> QED
  BY <1>8, <1>9, <1>10, <1>11, <1>12, <1>13

\* Row and answer are committed together.
LEMMA CommitStep == ASSUME IInv, NEW w \in Workers, ChargeCommit(w) PROVE IInv'
<1> USE ConstantsAssumption DEF IInv
<1> DEFINE o == work[w].order
           ok == work[w].success
           result == IF ok THEN "COMPLETED" ELSE "FAILED"
           topic == IF ok THEN "payment.completed" ELSE "payment.failed"
<1>1. o \in Orders /\ work[w] # Idle /\ work[w].op = "charged" /\ ok \in BOOLEAN
  BY WorkRecord DEF ChargeCommit, Doing
<1>2. /\ payment' = [payment EXCEPT ![o] = result]
      /\ events' = events \cup {Msg(topic, o)}
      /\ lock' = [lock EXCEPT ![o] = Free]
      /\ work' = [work EXCEPT ![w] = Idle]
      /\ UNCHANGED <<charges, refunds, dropped, aborts>>
  BY DEF ChargeCommit, Done
<1>3. ok => charges[o] > 0
  BY <1>1 DEF ChargesKnown, Doing
<1>4. lock[o] = w /\ payment[o] = "NONE"
  BY <1>1 DEF RowIsLocked, Calling
<1>5. /\ ok = TRUE => result = "COMPLETED" /\ topic = "payment.completed"
      /\ ok = FALSE => result = "FAILED" /\ topic = "payment.failed"
  OBVIOUS
<1> HIDE DEF o, ok, result, topic
<1>6. work'[w] = Idle /\ \A v \in Workers : v # w => work'[v] = work[v]
  BY <1>2 DEF TypeOK
<1>7. TypeOK'
  BY <1>1, <1>2, <1>5 DEF TypeOK, PaymentStatus
<1>8. \A p \in Orders : lock[p] = w => p = o
  BY DEF RowIsLocked, o, TypeOK
<1>9. \A v \in Workers : v # w /\ work[v] # Idle /\ Calling(v) => work[v].order # o
  BY <1>4 DEF RowIsLocked
<1>10. RowIsLocked'
  BY <1>1, <1>2, <1>6, <1>8, <1>9, WorkRecord DEF RowIsLocked, Calling, TypeOK
<1>11. ChargesKnown'
  <2>1. ASSUME NEW v \in Workers
        PROVE  /\ Doing(v, "charged")' /\ work'[v].success => charges'[work'[v].order] > 0
               /\ Refunding(v)' => payment'[work'[v].order] \in {"COMPLETED", "REFUNDED"}
               /\ Doing(v, "refunded")' => refunds'[work'[v].order] > 0
    <3>1. CASE v = w
      BY <1>6, <3>1 DEF Doing, Refunding
    <3>2. CASE v # w
      <4>1. Refunding(v) => work[v].order # o /\ work[v].order \in Orders
        BY <1>4, WorkRecord DEF ChargesKnown, Refunding
      <4>2. Refunding(v)' => payment'[work'[v].order] \in {"COMPLETED", "REFUNDED"}
        <5>1. Refunding(v)' => payment[work[v].order] \in {"COMPLETED", "REFUNDED"}
          BY <1>6, <3>2 DEF ChargesKnown, Refunding
        <5> QED
          BY <1>2, <1>6, <3>2, <4>1, <5>1 DEF Refunding, TypeOK
      <4> QED
        BY <1>2, <1>6, <3>2, <4>2 DEF ChargesKnown, Doing
    <3> QED
      BY <3>1, <3>2
  <2>2. ASSUME NEW p \in Orders,
               payment'[p] = "NONE", ~(lock[p] # Free /\ Doing(lock[p], "charged"))'
        PROVE  charges'[p] <= aborts'
    <3>1. p # o /\ payment[p] = "NONE" /\ lock'[p] = lock[p]
      BY <1>1, <1>2, <1>5, <2>2 DEF TypeOK
    <3>2. ~(lock[p] # Free /\ Doing(lock[p], "charged"))
      BY <1>6, <1>8, <2>2, <3>1 DEF Doing, TypeOK
    <3> QED
      BY <1>2, <3>1, <3>2 DEF ChargesKnown
  <2> QED
    BY <2>1, <2>2 DEF ChargesKnown
<1>12. ChargedOncePerAttempt' /\ PaidIsCharged'
  BY <1>1, <1>2, <1>3, <1>4, <1>5 DEF ChargedOncePerAttempt, PaidIsCharged, TypeOK
<1>13. OneAnswer'
  BY <1>1, <1>2, <1>4, <1>5, MsgEqual DEF OneAnswer, Sent, TypeOK
<1> QED
  BY <1>7, <1>10, <1>11, <1>12, <1>13

\* The provider refunds only what was charged.
LEMMA ProviderRefundStep == ASSUME IInv, NEW w \in Workers, ProviderRefund(w) PROVE IInv'
<1> USE ConstantsAssumption DEF IInv
<1> DEFINE o == work[w].order
<1>1. o \in Orders /\ work[w] # Idle /\ work[w].op = "refund"
  BY WorkRecord DEF ProviderRefund, Doing
<1>2. /\ refunds' = [refunds EXCEPT ![o] = @ + 1]
      /\ work' = [work EXCEPT ![w] = [op |-> "refunded", order |-> o]]
      /\ UNCHANGED <<payment, lock, charges, events, dropped, aborts>>
  BY DEF ProviderRefund, Goto
<1>3. payment[o] \in {"COMPLETED", "REFUNDED"}
  BY <1>1 DEF ChargesKnown, Refunding
<1>4. ~Calling(w)
  BY <1>1 DEF Calling
<1> HIDE DEF o
<1>5. work'[w] = [op |-> "refunded", order |-> o] /\ \A v \in Workers : v # w => work'[v] = work[v]
  BY <1>2 DEF TypeOK
<1>6. /\ refunds' \in [Orders -> Nat] /\ refunds'[o] > 0
      /\ \A p \in Orders : refunds'[p] >= refunds[p] /\ (p # o => refunds'[p] = refunds[p])
  BY <1>1, <1>2 DEF TypeOK
<1>7. TypeOK'
  BY <1>1, <1>2, <1>6 DEF TypeOK, Work
<1>8. RowIsLocked'
  BY <1>2, <1>4, <1>5 DEF RowIsLocked, Calling, TypeOK
<1>9. ChargesKnown'
  <2>1. ASSUME NEW v \in Workers
        PROVE  /\ Doing(v, "charged")' /\ work'[v].success => charges'[work'[v].order] > 0
               /\ Refunding(v)' => payment'[work'[v].order] \in {"COMPLETED", "REFUNDED"}
               /\ Doing(v, "refunded")' => refunds'[work'[v].order] > 0
    <3>1. CASE v = w
      BY <1>2, <1>3, <1>5, <1>6, <3>1 DEF Doing, Refunding
    <3>2. CASE v # w
      <4>1. Doing(v, "refunded")' => work[v].order \in Orders /\ refunds[work[v].order] > 0
        BY <1>5, <3>2, WorkRecord DEF ChargesKnown, Doing
      <4>2. Doing(v, "refunded")' => refunds'[work'[v].order] > 0
        BY <1>5, <1>6, <3>2, <4>1 DEF TypeOK
      <4> QED
        BY <1>2, <1>5, <3>2, <4>2 DEF ChargesKnown, Doing, Refunding
    <3> QED
      BY <3>1, <3>2
  <2>2. ASSUME NEW p \in Orders,
               payment'[p] = "NONE", ~(lock[p] # Free /\ Doing(lock[p], "charged"))'
        PROVE  charges'[p] <= aborts'
    <3>1. ~(lock[p] # Free /\ Doing(lock[p], "charged"))
      BY <1>1, <1>2, <1>5, <2>2 DEF Doing, TypeOK
    <3> QED
      BY <1>2, <2>2, <3>1 DEF ChargesKnown
  <2> QED
    BY <2>1, <2>2 DEF ChargesKnown
<1>10. ChargedOncePerAttempt' /\ OneAnswer'
  BY <1>2 DEF ChargedOncePerAttempt, OneAnswer, Sent, Msg
<1>11. PaidIsCharged'
  BY <1>1, <1>2, <1>3, <1>6 DEF PaidIsCharged, TypeOK
<1> QED
  BY <1>7, <1>8, <1>9, <1>10, <1>11

\* The refund is recorded over whatever the row says by then: it still says
\* that the payment was made.
LEMMA RefundCommitStep == ASSUME IInv, NEW w \in Workers, RefundCommit(w) PROVE IInv'
<1> USE ConstantsAssumption DEF IInv
<1> DEFINE o == work[w].order
<1>1. o \in Orders /\ work[w] # Idle /\ work[w].op = "refunded"
  BY WorkRecord DEF RefundCommit, Doing
<1>2. /\ payment' = [payment EXCEPT ![o] = "REFUNDED"]
      /\ events' = events \cup {Msg("payment.refunded", o)}
      /\ work' = [work EXCEPT ![w] = Idle]
      /\ UNCHANGED <<lock, charges, refunds, dropped, aborts>>
  BY DEF RefundCommit, Done
<1>3. payment[o] \in {"COMPLETED", "REFUNDED"} /\ refunds[o] > 0
  BY <1>1 DEF ChargesKnown, Refunding, Doing
<1>4. ~Calling(w)
  BY <1>1 DEF Calling
<1> HIDE DEF o
<1>5. work'[w] = Idle /\ \A v \in Workers : v # w => work'[v] = work[v]
  BY <1>2 DEF TypeOK
<1>6. \A p \in Orders : payment'[p] = IF p = o THEN "REFUNDED" ELSE payment[p]
  BY <1>1, <1>2 DEF TypeOK
<1>7. TypeOK'
  BY <1>1, <1>2 DEF TypeOK, PaymentStatus
<1>8. RowIsLocked'
  <2>1. ASSUME NEW v \in Workers, Calling(v)' PROVE lock'[work'[v].order] = v
    BY <1>2, <1>5, <2>1 DEF RowIsLocked, Calling
  <2>2. ASSUME NEW p \in Orders, lock'[p] # Free
        PROVE  payment'[p] = "NONE" /\ (Calling(lock[p]) /\ work[lock[p]].order = p)'
    <3>1. payment[p] = "NONE" /\ Calling(lock[p]) /\ work[lock[p]].order = p /\ lock[p] \in Workers
      BY <1>2, <2>2 DEF RowIsLocked, TypeOK
    <3>2. p # o /\ lock[p] # w
      BY <1>3, <1>4, <3>1
    <3> QED
      BY <1>2, <1>5, <1>6, <3>1, <3>2 DEF Calling
  <2> QED
    BY <2>1, <2>2 DEF RowIsLocked
<1>9. ChargesKnown'
  <2>1. ASSUME NEW v \in Workers
        PROVE  /\ Doing(v, "charged")' /\ work'[v].success => charges'[work'[v].order] > 0
               /\ Refunding(v)' => payment'[work'[v].order] \in {"COMPLETED", "REFUNDED"}
               /\ Doing(v, "refunded")' => refunds'[work'[v].order] > 0
    <3>1. CASE v = w
      BY <1>5, <3>1 DEF Doing, Refunding
    <3>2. CASE v # w
      <4>1. Refunding(v)' => /\ work[v].order \in Orders
                             /\ payment[work[v].order] \in {"COMPLETED", "REFUNDED"}
        BY <1>5, <3>2, WorkRecord DEF ChargesKnown, Refunding
      <4>2. Refunding(v)' => payment'[work'[v].order] \in {"COMPLETED", "REFUNDED"}
        BY <1>5, <1>6, <3>2, <4>1
      <4> QED
        BY <1>2, <1>5, <3>2, <4>2 DEF ChargesKnown, Doing
    <3> QED
      BY <3>1, <3>2
  <2>2. ASSUME NEW p \in Orders,
               payment'[p] = "NONE", ~(lock[p] # Free /\ Doing(lock[p], "charged"))'
        PROVE  charges'[p] <= aborts'
    <3>1. payment[p] = "NONE" /\ ~(lock[p] # Free /\ Doing(lock[p], "charged"))
      BY <1>1, <1>2, <1>5, <1>6, <2>2 DEF Doing, TypeOK
    <3> QED
      BY <1>2, <3>1 DEF ChargesKnown
  <2> QED
    BY <2>1, <2>2 DEF ChargesKnown
<1>10. ChargedOncePerAttempt'
  BY <1>2 DEF ChargedOncePerAttempt
<1>11. PaidIsCharged'
  BY <1>2, <1>3, <1>6 DEF PaidIsCharged
<1>12. OneAnswer'
  BY <1>2, <1>3, <1>6, MsgEqual DEF OneAnswer, Sent
<1> QED
  BY <1>7, <1>8, <1>9, <1>10, <1>11, <1>12

\* A handler that fails frees its row and counts as a failure, so the charge
\* it may have made is accounted for.
LEMMA RollBackStep ==
    ASSUME IInv, NEW w \in Workers, RollBack(w), dropped' \subseteq Orders
    PROVE  IInv'
<1> USE ConstantsAssumption DEF IInv
<1>1. /\ work[w] # Idle /\ aborts < MaxAborts
      /\ lock' = [p \in Orders |-> IF lock[p] = w THEN Free ELSE lock[p]]
      /\ work' = [work EXCEPT ![w] = Idle]
      /\ aborts' = aborts + 1
      /\ UNCHANGED <<payment, charges, refunds, events>>
  BY DEF RollBack, Done
<1>2. work'[w] = Idle /\ \A v \in Workers : v # w => work'[v] = work[v]
  BY <1>1 DEF TypeOK
<1>3. aborts \in Nat /\ aborts' \in 0 .. MaxAborts
  BY <1>1 DEF TypeOK
<1>4. TypeOK'
  BY <1>1, <1>3 DEF TypeOK
<1>5. RowIsLocked'
  BY <1>1, <1>2, WorkRecord DEF RowIsLocked, Calling, TypeOK
<1>6. ChargesKnown'
  <2>1. ASSUME NEW v \in Workers
        PROVE  /\ Doing(v, "charged")' /\ work'[v].success => charges'[work'[v].order] > 0
               /\ Refunding(v)' => payment'[work'[v].order] \in {"COMPLETED", "REFUNDED"}
               /\ Doing(v, "refunded")' => refunds'[work'[v].order] > 0
    <3>1. CASE v = w
      BY <1>2, <3>1 DEF Doing, Refunding
    <3>2. CASE v # w
      BY <1>1, <1>2, <3>2 DEF ChargesKnown, Doing, Refunding
    <3> QED
      BY <3>1, <3>2
  <2>2. ASSUME NEW p \in Orders PROVE charges'[p] <= aborts'
    BY <1>1, <1>3 DEF ChargedOncePerAttempt, TypeOK
  <2>3. QED
    <3>1. \A p \in Orders : payment[p] = "NONE" => charges'[p] <= aborts'
      <4> SUFFICES ASSUME NEW p \in Orders, payment[p] = "NONE" PROVE charges'[p] <= aborts'
        OBVIOUS
      <4> QED
        BY <2>2
    <3> QED
      BY <1>1, <2>1, <3>1 DEF ChargesKnown
<1>7. ChargedOncePerAttempt'
  BY <1>1, <1>3 DEF ChargedOncePerAttempt, TypeOK
<1>8. PaidIsCharged' /\ OneAnswer'
  BY <1>1 DEF PaidIsCharged, OneAnswer, Sent, Msg
<1> QED
  BY <1>4, <1>5, <1>6, <1>7, <1>8

LEMMA WorkerStepIInv == ASSUME IInv, NEW w \in Workers, WorkerStep(w) PROVE IInv'
<1> USE DEF IInv
<1>1. ASSUME NEW o \in Orders, ChargeBegin(w, o) PROVE IInv'
  BY <1>1, BookkeepingStep DEF ChargeBegin, Goto, Calling
<1>2. ASSUME NEW o \in Orders, RefundBegin(w, o) PROVE IInv'
  BY <1>2, BookkeepingStep DEF RefundBegin, Refundable, Goto, Calling
<1>3. CASE ChargeConflict(w)
  BY <1>3, BookkeepingStep DEF ChargeConflict, Doing, Done, Calling
<1>4. CASE Crash(w)
  BY <1>4, RollBackStep DEF Crash, TypeOK
<1>5. CASE Fail(w)
  <2>1. RollBack(w) /\ work[w] # Idle /\ dropped' \subseteq Orders
    BY <1>5, WorkRecord DEF Fail, RollBack, TypeOK
  <2> QED
    BY <2>1, RollBackStep
<1> QED
  BY <1>1, <1>2, <1>3, <1>4, <1>5, InsertStep, ProviderChargeStep, CommitStep,
     ProviderRefundStep, RefundCommitStep DEF WorkerStep

LEMMA NextIInv == IInv /\ [Next]_vars => IInv'
<1> SUFFICES ASSUME IInv, [Next]_vars PROVE IInv'
  OBVIOUS
<1>1. ASSUME NEW o \in Orders, NEW t \in {"payment.charge", "payment.refund"}, Command(t, o)
      PROVE  IInv'
  <2>1. OneAnswer'
    BY <1>1, MsgEqual DEF Command, IInv, OneAnswer, Sent
  <2> QED
    BY <1>1, <2>1, OutsideStep DEF Command
<1>2. ASSUME NEW o \in Orders, NEW t \in {"payment.completed", "payment.failed"},
             SimulateWebhook(t, o)
      PROVE  IInv'
  <2>1. OneAnswer'
    BY <1>2, SimulatedDiffers DEF SimulateWebhook, IInv, OneAnswer, Sent
  <2> QED
    BY <1>2, <2>1, OutsideStep DEF SimulateWebhook
<1>3. CASE UNCHANGED vars
  <2>1. OneAnswer'
    BY <1>3 DEF vars, IInv, OneAnswer, Sent, Msg
  <2> QED
    BY <1>3, <2>1, OutsideStep DEF vars
<1> QED
  BY <1>1, <1>2, <1>3, WorkerStepIInv DEF Next

\* In every reachable state the payments table, its locks, the money moved by
\* the provider and the handlers at work fit together as IInv says.
THEOREM InductiveInvariant == Spec => []IInv
BY InitIInv, NextIInv, PTL DEF Spec

\* The variables of payment-service stay in their types.
THEOREM TypeCorrect == Spec => []TypeOK
<1>1. IInv => TypeOK
  BY DEF IInv
<1> QED
  BY <1>1, InductiveInvariant, PTL

\* charge(): concurrent and repeated deliveries of payment.charge charge the
\* customer once, plus at most once per handler that failed half-way.
THEOREM ChargedOnce == Spec => []ChargedOncePerAttempt
<1>1. IInv => ChargedOncePerAttempt
  BY DEF IInv
<1> QED
  BY <1>1, InductiveInvariant, PTL

\* What payments.status says of the money is what the provider did.
THEOREM RowsTellTheTruth == Spec => []PaidIsCharged
<1>1. IInv => PaidIsCharged
  BY DEF IInv
<1> QED
  BY <1>1, InductiveInvariant, PTL

\* The answers order-service reads agree with the row and exclude each other.
THEOREM AnswersMatchRows == Spec => []OneAnswer
<1>1. IInv => OneAnswer
  BY DEF IInv
<1> QED
  BY <1>1, InductiveInvariant, PTL
=============================================================================
